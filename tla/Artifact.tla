------------------------------- MODULE Artifact -------------------------------
(***************************************************************************)
(* The UDF artifact up to dispatch: what #[exasol_udf] compiles a function *)
(* into (exasol-udf-macros), and every check Runtime::run makes of the     *)
(* shared object before it calls it: LoadedUdf::open, the output shape,    *)
(* the annotated schema.                                                   *)
(*                                                                         *)
(* A source declares fields [name, type] with Rust types; a database       *)
(* column is [name, type] with an ExaType.  An optional part is a set of   *)
(* at most one element.  A source comes with the object it is linked into: *)
(* the entries beside it, the libraries and the symbol versions.           *)
(***************************************************************************)
EXTENDS Validate

CONSTANTS
  Sources,     \* annotated functions: fn, rename, ret, input, emits, hooks, sdk, beside, libs, versions
  Metas,       \* what MT_META may register: script, single, output, incols, outcols
  Upper        \* function identifier |-> its upper-case form

\* A field list is a sequence of named Rust types.
ASSUME SourcesAssumption ==
  \A s \in Sources : s.input \cup s.emits \subseteq Seq([name : STRING, type : STRING])

\* The container's libc.so.6 is the committed floor: it defines what an object
\* refers to up to there, and names without a number; a largest reference exists.
ASSUME FloorAssumption ==
  /\ Floor \in Seq(Nat)
  /\ \A s \in Sources :
       /\ GlibcVersions(s) # {} => MaxGlibcVersion(s) # {}
       /\ \A x \in s.versions :
            /\ x.parts \in Seq(Nat)
            /\ x.of = "GLIBC" => (x \in Shipped <=> x.parts = <<>> \/ ~Precedes(Floor, x.parts))

VARIABLES
  source,      \* the function the artifact was compiled from
  meta,        \* the registration of this session
  stage,       \* how far Runtime::run has got
  read,        \* history: fields of the vtable the host has looked at
  refused      \* the check that refused the artifact, "none" if none has

artifactVars == <<source, meta, stage, read, refused>>

-----------------------------------------------------------------------------
(* Compilation: rust_type_to_exatype and the vtable of the expansion.       *)
RustTypeToExaType ==
  [i32 |-> "Int32", i64 |-> "Int64", f64 |-> "Double", f32 |-> "Double", bool |-> "Boolean",
   String |-> "String", str |-> "String", Decimal |-> "Numeric", NaiveDate |-> "Date",
   NaiveDateTime |-> "Timestamp"]

\* An unmappable field type is a compile error: there is no artifact.
Compiles(s) ==
  \A fields \in s.input \cup s.emits :
    \A i \in DOMAIN fields : fields[i].type \in DOMAIN RustTypeToExaType

SchemaJson(fields) ==
  [i \in DOMAIN fields |-> [name |-> fields[i].name, type |-> RustTypeToExaType[fields[i].type]]]

OutputShape(ret) == IF ret = "ResultOption" THEN "Returns" ELSE "Emits"

UdfName(s) == IF s.rename = {} THEN Upper[s.fn] ELSE CHOOSE name \in s.rename : TRUE

\* The shared object, one entry for each annotated function.
Object(s) ==
  [entries  |-> {[name |-> UdfName(s), sdk |-> s.sdk]} \cup s.beside,
   libs     |-> s.libs,
   versions |-> s.versions]

vtable ==
  [abi    |-> source.sdk.abi,
   print  |-> source.sdk.print,
   shape  |-> OutputShape(source.ret),
   input  |-> {SchemaJson(fields) : fields \in source.input},
   output |-> {SchemaJson(fields) : fields \in source.emits},
   hooks  |-> source.hooks]

-----------------------------------------------------------------------------
\* A script that names an entry beside the source is that entry's session.
ArtifactInit ==
  /\ source \in {s \in Sources : Compiles(s)}
  /\ meta \in {r \in Metas : \A entry \in source.beside : entry.name # r.script}
  /\ stage = "Resolve"
  /\ read = {}
  /\ refused = "none"

Enter(next) == stage' = next /\ UNCHANGED refused
Refuse(why) == stage' = "Exited" /\ refused' = why

(* parse_udf_object_path finds no directive, or none that names a file; or  *)
(* dlopen fails; or the entry the script's name asks for is not exported.   *)
Open ==
  /\ stage = "Resolve"
  /\ \/ Refuse("directive")
     \/ ~ContainerLoads(Object(source)) /\ Refuse("loader")
     \/ /\ ContainerLoads(Object(source))
        /\ IF meta.script = UdfName(source) THEN Enter("CheckAbi") ELSE Refuse("entry")
  /\ UNCHANGED <<source, meta, read>>

\* Mutant: the fingerprint, which names the SDK, is compared first.
CheckPrintFirst ==
  /\ stage = "CheckAbi"
  /\ read' = read \cup {"print"}
  /\ IF vtable.abi = HostSdk.abi THEN Enter("CheckPrint") ELSE Refuse("abi")
  /\ UNCHANGED <<source, meta>>

CheckAbi ==
  /\ stage = "CheckAbi"
  /\ read' = read \cup {"abi"}
  /\ IF vtable.abi = HostSdk.abi THEN Enter("CheckPrint") ELSE Refuse("abi")
  /\ UNCHANGED <<source, meta>>

CheckPrint ==
  /\ stage = "CheckPrint"
  /\ read' = read \cup {"print"}
  /\ IF vtable.print = HostSdk.print THEN Enter("CheckShape") ELSE Refuse("print")
  /\ UNCHANGED <<source, meta>>

ShapeOf(axis) == IF axis = "ExactlyOnce" THEN "Returns" ELSE "Emits"

\* Single-call mode has no output shape and skips the check.
CheckShape ==
  /\ stage = "CheckShape"
  /\ IF meta.single
     THEN Enter("CheckSchema") /\ UNCHANGED read
     ELSE /\ read' = read \cup {"shape"}
          /\ IF vtable.shape = ShapeOf(meta.output) THEN Enter("CheckSchema") ELSE Refuse("shape")
  /\ UNCHANGED <<source, meta>>

\* Mutant: a CHAR column is not a String.
ExaTypeNameOfVariant(type) == type

\* exatype_name: VARCHAR and CHAR columns are both annotated String.
ExaTypeName(type) == IF type \in {"String", "Char"} THEN "String" ELSE type

\* validate_one: same number, names and types, in order.
SchemaFits(schema, columns) ==
  /\ Len(schema) = Len(columns)
  /\ \A i \in DOMAIN schema :
       /\ schema[i].name = columns[i].name
       /\ schema[i].type = ExaTypeName(columns[i].type)

InputFits  == \A schema \in vtable.input  : SchemaFits(schema, meta.incols)
OutputFits == \A schema \in vtable.output : SchemaFits(schema, meta.outcols)

CheckSchema ==
  /\ stage = "CheckSchema"
  /\ read' = read \cup {"input"} \cup (IF InputFits THEN {"output"} ELSE {})
  /\ IF InputFits /\ OutputFits THEN Enter("Ready") ELSE Refuse("schema")
  /\ UNCHANGED <<source, meta>>

ArtifactStep == Open \/ CheckAbi \/ CheckPrint \/ CheckShape \/ CheckSchema

-----------------------------------------------------------------------------
(* LoadedUdf::open compares versions before it trusts the layout they stand *)
(* for: beside the version itself no field is read of a vtable of another   *)
(* ABI, and none but version and fingerprint of one built by another SDK.   *)
LayoutKnown ==
  /\ read \ {"abi"} # {}          => vtable.abi = HostSdk.abi
  /\ read \ {"abi", "print"} # {} => vtable.print = HostSdk.print

\* The column types whose values a field of each Rust type receives.
Carries ==
  [i32 |-> {"Int32"}, i64 |-> {"Int64"}, f64 |-> {"Double"}, f32 |-> {"Double"},
   bool |-> {"Boolean"}, String |-> {"String", "Char"}, str |-> {"String", "Char"},
   Decimal |-> {"Numeric"}, NaiveDate |-> {"Date"}, NaiveDateTime |-> {"Timestamp"}]

Declares(fields, columns) ==
  /\ Len(fields) = Len(columns)
  /\ \A i \in DOMAIN fields :
       /\ fields[i].name = columns[i].name
       /\ columns[i].type \in Carries[fields[i].type]

DeclaredColumns ==
  /\ \A fields \in source.input : Declares(fields, meta.incols)
  /\ \A fields \in source.emits : Declares(fields, meta.outcols)

RegisteredShape ==
  meta.single \/ (meta.output = "ExactlyOnce" <=> source.ret = "ResultOption")

(* From the macro's table to schema_check.rs's: a function is called only   *)
(* for the columns its annotations declare and for the output its return    *)
(* type has, and it is refused for them only when they differ.              *)
Slots == {"run", "cleanup", "columns", "adapter", "import", "export"}

RunsAsDeclared ==
  /\ read \cap Slots # {} => DeclaredColumns /\ RegisteredShape
  /\ refused = "schema"   => ~DeclaredColumns
  /\ refused = "shape"    => ~RegisteredShape

(* validate.rs on the author's machine and loader.rs in the container judge *)
(* an object alike: of what validate accepts no entry is refused for its    *)
(* SDK, and the loader fails on nothing but the libraries validate warned   *)
(* of, or refused; and what it refuses for its glibc does not load.         *)
ValidatedLoads ==
  /\ \A denyUnknownDeps \in BOOLEAN :
       Validates(Object(source), denyUnknownDeps) =>
         /\ refused \notin {"abi", "print"}
         /\ refused = "loader" => ~denyUnknownDeps /\ UnknownSonames(Object(source)) # {}
  /\ read # {} => ~ExceedsFloor(Object(source))
=============================================================================
