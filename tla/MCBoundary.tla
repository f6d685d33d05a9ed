------------------------------ MODULE MCBoundary ------------------------------
(* A small UDF boundary for TLC: artifacts that fit and artifacts that fail    *)
(* each of the checks, two connections, results with and without a batch that  *)
(* does not convert.                                                           *)
EXTENDS UdfBoundary

Field(name, type) == [name |-> name, type |-> type]

MCUpper   == [run |-> "RUN", twice |-> "TWICE"]
MCHostSdk == [abi |-> 2, print |-> "sdk2"]
Older     == [abi |-> 1, print |-> "sdk1"]
Rebuilt   == [abi |-> 2, print |-> "other rustc"]

Glibc(parts) == [of |-> "GLIBC", parts |-> parts]

MCFloor   == <<2, 41>>
MCShipped == {Glibc(<<>>), Glibc(<<2, 2, 5>>), Glibc(<<2, 9>>), Glibc(<<2, 41>>)}

Plain ==
  [fn |-> "run", rename |-> {}, ret |-> "ResultUnit", input |-> {}, emits |-> {},
   hooks |-> {}, sdk |-> MCHostSdk, beside |-> {},
   libs |-> {"libc.so.6", "ld-linux-x86-64.so.2"}, versions |-> {Glibc(<<2, 2, 5>>), Glibc(<<2, 9>>)}]

Typed ==
  [Plain EXCEPT !.input = {<<Field("n", "i32"), Field("t", "str")>>},
                !.emits = {<<Field("d", "NaiveDate")>>}, !.hooks = {"cleanup"}]

MCSources ==
  {Plain, Typed,
   [Typed EXCEPT !.input = {<<Field("t", "String"), Field("n", "i32")>>}],
   [Typed EXCEPT !.input = {<<Field("n", "f32"), Field("t", "u8")>>}],
   [Plain EXCEPT !.emits = {<<Field("d", "NaiveDateTime")>>}],
   [Plain EXCEPT !.sdk = Older], [Plain EXCEPT !.sdk = Rebuilt],
   [Plain EXCEPT !.fn = "twice", !.rename = {"RUN"}, !.ret = "ResultOption", !.hooks = {"cleanup"}],
   [Plain EXCEPT !.hooks = {"adapter", "columns"}, !.beside = {[name |-> "SUM", sdk |-> Older]}],
   [Plain EXCEPT !.sdk = Rebuilt, !.beside = {[name |-> "TWICE", sdk |-> MCHostSdk]}],
   [Plain EXCEPT !.versions = {Glibc(<<2, 9>>), Glibc(<<2, 41, 1>>), [of |-> "GCC", parts |-> <<3, 0>>]}],
   [Plain EXCEPT !.versions = {Glibc(<<>>), Glibc(<<2, 41>>), [of |-> "GCC", parts |-> <<4, 2>>]}],
   [Plain EXCEPT !.libs = @ \cup {"libpq.so.5"}]}

Rows == [script |-> "RUN", single |-> FALSE, output |-> "Multiple",
         incols |-> <<Field("n", "Int32"), Field("t", "Char")>>,
         outcols |-> <<Field("d", "Date")>>]

MCMetas ==
  {Rows,
   [Rows EXCEPT !.output = "ExactlyOnce"],
   [Rows EXCEPT !.incols = <<Field("n", "Int32"), Field("t", "Unsupported")>>],
   [Rows EXCEPT !.single = TRUE],
   [Rows EXCEPT !.script = "TWICE"]}

Batch(rows) == [rows |-> rows, bad |-> FALSE]
Bad(rows)   == [rows |-> rows, bad |-> TRUE]

MCResults ==
  {<<>>, <<Batch(<<1, 2>>), Batch(<<3>>)>>, <<Batch(<<1>>), Bad(<<2>>), Batch(<<3>>)>>}
=============================================================================
