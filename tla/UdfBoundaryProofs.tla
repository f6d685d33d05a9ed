--------------------------- MODULE UdfBoundaryProofs ---------------------------
(***************************************************************************)
(* The UDF boundary for all sources, registrations and connections: no     *)
(* foreign layout is read, only what was declared is called, C strings are *)
(* freed once, failures keep their author, validate foresees the loader,   *)
(* and connect-back drives one future and forgets no statement.            *)
(***************************************************************************)
EXTENDS UdfBoundary, FiniteSetTheorems, SequenceTheorems, WellFoundedInduction, TLAPS

Loaded == stage \in {"CheckShape", "CheckSchema", "Ready", "InUdf", "Leaving", "Returned"}

(* What each check has established for the ones behind it.                  *)
LayoutInv ==
  /\ stage \in {"Resolve", "CheckAbi"} => read = {}
  /\ stage = "CheckPrint" => read = {"abi"} /\ vtable.abi = HostSdk.abi
  /\ Loaded => vtable.abi = HostSdk.abi /\ vtable.print = HostSdk.print
  /\ LayoutKnown

(* Where the one string of a call can be, and what the shim's code says of  *)
(* the way the function ended.                                              *)
StringInv ==
  /\ stage \in {"InUdf", "Leaving"} => out = "null"
  /\ stage = "Leaving" => said \in {"ok", "error", "mute", "panic"}
  /\ stage = "Returned" /\ rc = 0 /\ slot \in Lifecycle => out = "null"
  /\ live \in Nat
  /\ StringsTaken

\* What the shim has left for the host to judge by.
WordInv ==
  /\ stage \in {"Resolve", "CheckAbi", "CheckPrint", "CheckShape", "CheckSchema"} => said = "none"
  /\ stage = "InUdf" => ~starved /\ out = "null"
  /\ stage = "Leaving" => ~starved /\ said \in {"ok", "error", "mute", "panic"} /\ out = "null"
  /\ stage = "Returned" =>
       /\ said \in {"ok", "error", "mute", "panic"}
       /\ said = "ok" <=> rc = 0
       /\ said \in {"error", "mute"} <=> rc = 1
       /\ ~starved /\ said = "error" => out = "text"
       /\ ~starved /\ said = "mute" => out = "empty"
  /\ FinalWord

-----------------------------------------------------------------------------
LEMMA LayoutInit == Init => LayoutInv
BY DEF Init, ArtifactInit, LayoutInv, Loaded, LayoutKnown

LEMMA LayoutStep == LayoutInv /\ [Next]_vars => LayoutInv'
<1> SUFFICES ASSUME LayoutInv, [Next]_vars
             PROVE  LayoutInv'
  OBVIOUS
<1> USE DEF LayoutInv, Loaded, LayoutKnown
<1>1. CASE ArtifactStep
  <2>1. CASE Open
    BY <2>1 DEF Open, Enter, Refuse, vtable
  <2>2. CASE CheckAbi
    BY <2>2 DEF CheckAbi, Enter, Refuse, vtable
  <2>3. CASE CheckPrint
    BY <2>3 DEF CheckPrint, Enter, Refuse, vtable
  <2>4. CASE CheckShape
    BY <2>4 DEF CheckShape, Enter, Refuse, vtable
  <2>5. CASE CheckSchema
    BY <2>5 DEF CheckSchema, Enter, Refuse, vtable
  <2>6. QED BY <1>1, <2>1, <2>2, <2>3, <2>4, <2>5 DEF ArtifactStep
<1>2. ASSUME NEW s \in Slots, SkipSlot(s) \/ CallSlot(s)
      PROVE  LayoutInv'
  BY <1>2 DEF SkipSlot, CallSlot, Reading, Enter, vtable
<1>3. CASE RefuseArgument
  BY <1>3 DEF RefuseArgument, Reading, vtable
<1>4. CASE ContextFails \/ UsesConnectBack \/ DropsLocals \/ UNCHANGED vars
  BY <1>4 DEF ContextFails, UsesConnectBack, DropsLocals, vars, artifactVars, vtable
<1>5. CASE (\E how \in {"ok", "error", "mute", "panic"} : UdfEnds(how)) \/ ShimReturns
             \/ HostTakes \/ Finish
  BY <1>5 DEF UdfEnds, ShimReturns, HostTakes, Finish, Enter, vtable
<1>6. QED
  BY <1>1, <1>2, <1>3, <1>4, <1>5 DEF Next, Terminated

(* A vtable of another ABI or SDK is not read past what tells it is one     *)
(* (LoadedUdf::open, validate_output_shape, validate_schema, every call).   *)
THEOREM LayoutIsKnown == Spec => []LayoutKnown
<1>1. LayoutInv => LayoutKnown
  BY DEF LayoutInv
<1>2. QED BY <1>1, LayoutInit, LayoutStep, PTL DEF Spec

-----------------------------------------------------------------------------
LEMMA StringInit == Init => StringInv
BY DEF Init, ArtifactInit, StringInv, StringsTaken

LEMMA StringStep == StringInv /\ [Next]_vars => StringInv'
<1> SUFFICES ASSUME StringInv, [Next]_vars
             PROVE  StringInv'
  OBVIOUS
<1> USE DEF StringInv, StringsTaken, Lifecycle
<1>1. CASE ArtifactStep /\ UNCHANGED callVars
  BY <1>1 DEF ArtifactStep, Open, CheckAbi, CheckPrint, CheckShape, CheckSchema, Enter, Refuse,
              callVars
<1>2. ASSUME NEW s \in Slots, SkipSlot(s) \/ CallSlot(s)
      PROVE  StringInv'
  BY <1>2 DEF SkipSlot, CallSlot, Reading, Enter
<1>3. CASE RefuseArgument
  BY <1>3 DEF RefuseArgument, Reading
<1>4. CASE ContextFails \/ UsesConnectBack \/ DropsLocals \/ UNCHANGED vars
  BY <1>4 DEF ContextFails, UsesConnectBack, DropsLocals, vars, artifactVars, callVars
<1>5. CASE \E how \in {"ok", "error", "mute", "panic"} : UdfEnds(how)
  BY <1>5 DEF UdfEnds, Enter
<1>6. CASE ShimReturns
  <2>1. CASE Texts = {} /\ UNCHANGED <<out, live, starved>>
    BY <1>6, <2>1 DEF ShimReturns, Enter
  <2>2. CASE \E text \in Texts : out' = text /\ live' = live + 1 /\ UNCHANGED starved
    <3>1. PICK text \in Texts : out' = text /\ live' = live + 1
      BY <2>2
    <3>2. text # "null" /\ ~(said = "ok" /\ slot \in Lifecycle)
      BY <1>6, <3>1 DEF ShimReturns, Texts
    <3>3. live = 0 /\ stage' = "Returned" /\ slot' = slot
      BY <1>6 DEF ShimReturns, Enter
    <3>4. rc' = 0 => said = "ok"
      BY <1>6 DEF ShimReturns
    <3>5. QED BY <3>1, <3>2, <3>3, <3>4
  <2>3. CASE out' = "null" /\ UNCHANGED live
    BY <1>6, <2>3 DEF ShimReturns, Enter
  <2>4. QED BY <1>6, <2>1, <2>2, <2>3 DEF ShimReturns
<1>7. CASE HostTakes
  BY <1>7 DEF HostTakes, Freed, Enter
<1>8. CASE Finish
  BY <1>8 DEF Finish, Enter, callVars
<1>9. QED
  BY <1>1, <1>2, <1>3, <1>4, <1>5, <1>6, <1>7, <1>8 DEF Next, Terminated

(* The host frees each string a shim allocates, and nothing else            *)
(* (call_lifecycle_slot, call_noarg_hook, call_ctx_arg_hook).               *)
THEOREM StringsAreTaken == Spec => []StringsTaken
<1>1. StringInv => StringsTaken
  BY DEF StringInv
<1>2. QED BY <1>1, StringInit, StringStep, PTL DEF Spec

-----------------------------------------------------------------------------
LEMMA WordInit == Init => WordInv
BY DEF Init, ArtifactInit, WordInv, FinalWord

LEMMA WordStep == WordInv /\ [Next]_vars => WordInv'
<1> SUFFICES ASSUME WordInv, [Next]_vars
             PROVE  WordInv'
  OBVIOUS
<1> USE DEF WordInv, FinalWord
<1>1. CASE ArtifactStep /\ UNCHANGED callVars
  <2>1. stage \in {"Resolve", "CheckAbi", "CheckPrint", "CheckShape", "CheckSchema"}
    BY <1>1 DEF ArtifactStep, Open, CheckAbi, CheckPrint, CheckShape, CheckSchema
  <2>2. QED
    BY <1>1, <2>1 DEF ArtifactStep, Open, CheckAbi, CheckPrint, CheckShape, CheckSchema, Enter,
                      Refuse, callVars
<1>2. ASSUME NEW s \in Slots, SkipSlot(s) \/ CallSlot(s)
      PROVE  WordInv'
  BY <1>2 DEF SkipSlot, CallSlot, Reading, Enter
<1>3. CASE RefuseArgument
  BY <1>3 DEF RefuseArgument, Reading
<1>4. CASE ContextFails \/ UsesConnectBack \/ DropsLocals \/ UNCHANGED vars
  <2>1. CASE ContextFails \/ UsesConnectBack
    BY <2>1 DEF ContextFails, UsesConnectBack, artifactVars
  <2>2. CASE DropsLocals
    BY <2>2 DEF DropsLocals, artifactVars, callVars
  <2>3. CASE UNCHANGED vars
    BY <2>3 DEF vars, artifactVars, callVars
  <2>4. QED BY <1>4, <2>1, <2>2, <2>3
<1>5. CASE \E how \in {"ok", "error", "mute", "panic"} : UdfEnds(how)
  BY <1>5 DEF UdfEnds, Enter
<1>6. CASE ShimReturns
  <2>1. /\ stage' = "Returned" /\ said' = said
        /\ said \in {"ok", "error", "mute", "panic"}
        /\ rc' = CASE said = "ok" -> 0 [] said \in {"error", "mute"} -> 1 [] said = "panic" -> 2
    BY <1>6 DEF ShimReturns, Enter
  <2>2. ASSUME said \in {"error", "mute"}, ~starved'
        PROVE  out' = IF said = "error" THEN "text" ELSE "empty"
    BY <1>6, <2>2 DEF ShimReturns, Texts
  <2>3. QED BY <2>1, <2>2
<1>7. CASE HostTakes
  BY <1>7 DEF HostTakes, HookError, Taken, Enter
<1>8. CASE Finish
  BY <1>8 DEF Finish, Enter, callVars
<1>9. QED
  BY <1>1, <1>2, <1>3, <1>4, <1>5, <1>6, <1>7, <1>8 DEF Next, Terminated

(* The text of a failed function reaches the dispatcher as the author's,    *)
(* and no other text does (hook_error, with_recorded_detail).               *)
THEOREM AuthorsWordIsFinal == Spec => []FinalWord
<1>1. WordInv => FinalWord
  BY DEF WordInv
<1>2. QED BY <1>1, WordInit, WordStep, PTL DEF Spec
-----------------------------------------------------------------------------
Checked == {"Ready", "InUdf", "Leaving", "Returned"}

(* What the checks have established, and that no slot is called before.     *)
DeclaredInv ==
  /\ source \in Sources /\ Compiles(source)
  /\ stage \notin Checked \cup {"Exited"} => read \cap Slots = {}
  /\ stage \in Checked \cup {"CheckSchema"} => RegisteredShape
  /\ stage \in Checked => DeclaredColumns
  /\ stage # "Exited" => refused = "none"
  /\ RunsAsDeclared

(* The macro's table followed by the host's comparison is the relation      *)
(* between Rust types and column types that a field is meant to have.       *)
LEMMA TypeTables ==
  ASSUME NEW rust \in DOMAIN RustTypeToExaType, NEW type
  PROVE  RustTypeToExaType[rust] = ExaTypeName(type) <=> type \in Carries[rust]
<1>1. rust \in {"i32", "i64", "f64", "f32", "bool", "String", "str", "Decimal", "NaiveDate",
                "NaiveDateTime"}
  BY DEF RustTypeToExaType
<1>2. /\ rust = "i32"           => RustTypeToExaType[rust] = "Int32"     /\ Carries[rust] = {"Int32"}
      /\ rust = "i64"           => RustTypeToExaType[rust] = "Int64"     /\ Carries[rust] = {"Int64"}
      /\ rust \in {"f64", "f32"} => RustTypeToExaType[rust] = "Double"   /\ Carries[rust] = {"Double"}
      /\ rust = "bool"          => RustTypeToExaType[rust] = "Boolean"   /\ Carries[rust] = {"Boolean"}
      /\ rust \in {"String", "str"} =>
             RustTypeToExaType[rust] = "String" /\ Carries[rust] = {"String", "Char"}
      /\ rust = "Decimal"       => RustTypeToExaType[rust] = "Numeric"   /\ Carries[rust] = {"Numeric"}
      /\ rust = "NaiveDate"     => RustTypeToExaType[rust] = "Date"      /\ Carries[rust] = {"Date"}
      /\ rust = "NaiveDateTime" => RustTypeToExaType[rust] = "Timestamp" /\ Carries[rust] = {"Timestamp"}
  BY DEF RustTypeToExaType, Carries
<1>3. QED BY <1>1, <1>2 DEF ExaTypeName

LEMMA SchemaFitsDeclaration ==
  ASSUME NEW fields \in Seq([name : STRING, type : STRING]), NEW columns,
         \A i \in DOMAIN fields : fields[i].type \in DOMAIN RustTypeToExaType
  PROVE  SchemaFits(SchemaJson(fields), columns) <=> Declares(fields, columns)
<1> DEFINE schema == SchemaJson(fields)
<1>1. DOMAIN fields = 1..Len(fields) /\ Len(fields) \in Nat
  OBVIOUS
<1>2. DOMAIN schema = DOMAIN fields
  BY DEF SchemaJson
<1>3. Len(schema) = Len(fields)
  BY <1>1, <1>2
<1>4. ASSUME NEW i \in DOMAIN fields
      PROVE  /\ schema[i].name = fields[i].name
             /\ schema[i].type = ExaTypeName(columns[i].type)
                  <=> columns[i].type \in Carries[fields[i].type]
  <2>1. schema[i].name = fields[i].name /\ schema[i].type = RustTypeToExaType[fields[i].type]
    BY <1>4 DEF SchemaJson
  <2>2. RustTypeToExaType[fields[i].type] = ExaTypeName(columns[i].type)
          <=> columns[i].type \in Carries[fields[i].type]
    BY <1>4, TypeTables
  <2>3. QED BY <2>1, <2>2
<1> HIDE DEF schema
<1>5. SchemaFits(schema, columns) <=> Declares(fields, columns)
  BY <1>2, <1>3, <1>4 DEF SchemaFits, Declares
<1>6. QED BY <1>5 DEF schema

LEMMA ChecksDeclaration ==
  ASSUME source \in Sources, Compiles(source)
  PROVE  InputFits /\ OutputFits <=> DeclaredColumns
<1>1. ASSUME NEW fields \in source.input \cup source.emits, NEW columns
      PROVE  SchemaFits(SchemaJson(fields), columns) <=> Declares(fields, columns)
  <2>1. fields \in Seq([name : STRING, type : STRING])
    BY SourcesAssumption
  <2>2. \A i \in DOMAIN fields : fields[i].type \in DOMAIN RustTypeToExaType
    BY DEF Compiles
  <2>3. QED BY <2>1, <2>2, SchemaFitsDeclaration
<1>2. InputFits <=> \A fields \in source.input : SchemaFits(SchemaJson(fields), meta.incols)
  BY DEF InputFits, vtable
<1>3. OutputFits <=> \A fields \in source.emits : SchemaFits(SchemaJson(fields), meta.outcols)
  BY DEF OutputFits, vtable
<1>4. QED BY <1>1, <1>2, <1>3 DEF DeclaredColumns

LEMMA DeclaredInit == Init => DeclaredInv
BY DEF Init, ArtifactInit, DeclaredInv, Checked, RunsAsDeclared

LEMMA DeclaredStep == DeclaredInv /\ [Next]_vars => DeclaredInv'
<1> SUFFICES ASSUME DeclaredInv, [Next]_vars
             PROVE  DeclaredInv'
  OBVIOUS
<1> USE DEF DeclaredInv, Checked, RunsAsDeclared
<1>1. ASSUME source' = source, meta' = meta
      PROVE  /\ DeclaredColumns' <=> DeclaredColumns
             /\ RegisteredShape' <=> RegisteredShape
             /\ Compiles(source)'
  BY <1>1 DEF DeclaredColumns, RegisteredShape
<1>2. CASE ArtifactStep
  <2>1. CASE Open
    BY <1>1, <2>1 DEF Open, Enter, Refuse
  <2>2. CASE CheckAbi
    BY <1>1, <2>2 DEF CheckAbi, Enter, Refuse, Slots
  <2>3. CASE CheckPrint
    BY <1>1, <2>3 DEF CheckPrint, Enter, Refuse, Slots
  <2>4. CASE CheckShape
    <3>1. meta.single \/ vtable.shape = ShapeOf(meta.output) <=> RegisteredShape
      BY DEF vtable, OutputShape, ShapeOf, RegisteredShape
    <3>2. read' \cap Slots = {}
      BY <2>4 DEF CheckShape, Slots
    <3>3. QED BY <1>1, <2>4, <3>1, <3>2 DEF CheckShape, Enter, Refuse
  <2>5. CASE CheckSchema
    <3>1. InputFits /\ OutputFits <=> DeclaredColumns
      BY ChecksDeclaration
    <3>2. read' \cap Slots = {}
      BY <2>5 DEF CheckSchema, Slots
    <3>3. QED BY <1>1, <2>5, <3>1, <3>2 DEF CheckSchema, Enter, Refuse
  <2>6. QED BY <1>2, <2>1, <2>2, <2>3, <2>4, <2>5 DEF ArtifactStep
<1>3. ASSUME NEW s \in Slots, SkipSlot(s) \/ CallSlot(s)
      PROVE  DeclaredInv'
  BY <1>1, <1>3 DEF SkipSlot, CallSlot, Reading, Enter
<1>4. CASE RefuseArgument
  BY <1>1, <1>4 DEF RefuseArgument, Reading
<1>5. CASE ContextFails \/ UsesConnectBack \/ DropsLocals \/ UNCHANGED vars
  BY <1>1, <1>5 DEF ContextFails, UsesConnectBack, DropsLocals, vars, artifactVars
<1>6. CASE (\E how \in {"ok", "error", "mute", "panic"} : UdfEnds(how)) \/ ShimReturns
             \/ HostTakes \/ Finish
  BY <1>1, <1>6 DEF UdfEnds, ShimReturns, HostTakes, Finish, Enter
<1>7. QED
  BY <1>2, <1>3, <1>4, <1>5, <1>6 DEF Next, Terminated

(* A UDF is called only for the columns and the output it was compiled for, *)
(* and refused only for others: the macro's type table and the host's agree *)
(* on every type (rust_type_to_exatype, exatype_name, validate_schema).     *)
THEOREM OnlyDeclaredRuns == Spec => []RunsAsDeclared
<1>1. DeclaredInv => RunsAsDeclared
  BY DEF DeclaredInv
<1>2. QED BY <1>1, DeclaredInit, DeclaredStep, PTL DEF Spec

-----------------------------------------------------------------------------
(* Why an object is refused, and that one whose vtable is read has loaded.  *)
OpenedInv ==
  /\ source \in Sources
  /\ stage \notin {"Resolve", "Exited"} \/ read # {} => ContainerLoads(Object(source))
  /\ refused = "loader" => ~ContainerLoads(Object(source))
  /\ refused = "abi"    => source.sdk.abi # HostSdk.abi
  /\ refused = "print"  => source.sdk.print # HostSdk.print

LEMMA OpenedInit == Init => OpenedInv
BY DEF Init, ArtifactInit, OpenedInv

LEMMA OpenedStep == OpenedInv /\ [Next]_vars => OpenedInv'
<1> SUFFICES ASSUME OpenedInv, [Next]_vars
             PROVE  OpenedInv'
  OBVIOUS
<1> USE DEF OpenedInv
<1>1. ASSUME source' = source
      PROVE  ContainerLoads(Object(source))' <=> ContainerLoads(Object(source))
  BY <1>1
<1>2. CASE ArtifactStep
  <2>1. CASE Open
    BY <1>1, <2>1 DEF Open, Enter, Refuse
  <2>2. CASE CheckAbi
    BY <1>1, <2>2 DEF CheckAbi, Enter, Refuse, vtable
  <2>3. CASE CheckPrint
    BY <1>1, <2>3 DEF CheckPrint, Enter, Refuse, vtable
  <2>4. CASE CheckShape
    BY <1>1, <2>4 DEF CheckShape, Enter, Refuse
  <2>5. CASE CheckSchema
    BY <1>1, <2>5 DEF CheckSchema, Enter, Refuse
  <2>6. QED BY <1>2, <2>1, <2>2, <2>3, <2>4, <2>5 DEF ArtifactStep
<1>3. ASSUME NEW s \in Slots, SkipSlot(s) \/ CallSlot(s)
      PROVE  OpenedInv'
  BY <1>1, <1>3 DEF SkipSlot, CallSlot, Reading, Enter
<1>4. CASE RefuseArgument
  BY <1>1, <1>4 DEF RefuseArgument, Reading
<1>5. CASE ContextFails \/ UsesConnectBack \/ DropsLocals \/ UNCHANGED vars
  BY <1>1, <1>5 DEF ContextFails, UsesConnectBack, DropsLocals, vars, artifactVars
<1>6. CASE (\E how \in {"ok", "error", "mute", "panic"} : UdfEnds(how)) \/ ShimReturns
             \/ HostTakes \/ Finish
  BY <1>1, <1>6 DEF UdfEnds, ShimReturns, HostTakes, Finish, Enter
<1>7. QED
  BY <1>2, <1>3, <1>4, <1>5, <1>6 DEF Next, Terminated

\* What is before w and not after v is before v: the order is total.
LEMMA OrderIsTotal ==
  ASSUME NEW u \in Seq(Nat), NEW v \in Seq(Nat), NEW w \in Seq(Nat),
         Precedes(u, w), ~Precedes(v, w)
  PROVE  Precedes(u, v)
<1> DEFINE Differs == {i \in DOMAIN w : i \notin DOMAIN v \/ v[i] # w[i]}
<1>1. PICK i \in DOMAIN w :
        /\ \A j \in 1..(i - 1) : j \in DOMAIN u /\ u[j] = w[j]
        /\ i \notin DOMAIN u \/ u[i] < w[i]
  BY DEF Precedes
<1>2. CASE Differs = {}
  <2>1. \A j \in 1..i : j \in DOMAIN w /\ j \in DOMAIN v /\ v[j] = w[j]
    BY <1>2
  <2>2. QED BY <1>1, <2>1 DEF Precedes
<1>3. CASE Differs # {}
  <2>1. PICK d \in Differs : \A j \in Differs : d <= j
    <3>1. Differs \subseteq Nat
      OBVIOUS
    <3>2. PICK d \in Differs : \A j \in Differs : <<j, d>> \notin OpToRel(<, Nat)
      BY <1>3, <3>1, NatLessThanWellFounded, WFMin, Zenon
    <3>3. \A j \in Differs : ~(j < d)
      BY <3>1, <3>2 DEF OpToRel
    <3>4. QED BY <3>1, <3>3
  <2>2. \A j \in 1..(d - 1) : j \in DOMAIN v /\ v[j] = w[j]
    <3>1. ASSUME NEW j \in 1..(d - 1)
          PROVE  j \in DOMAIN w /\ j \notin Differs
      BY <2>1
    <3>2. QED BY <3>1
  <2>3. d \in DOMAIN v /\ w[d] < v[d]
    <3>1. d \in DOMAIN w
      BY <2>1
    <3>2. d \in DOMAIN v /\ ~(v[d] < w[d])
      BY <2>2, <3>1 DEF Precedes
    <3>3. v[d] \in Nat /\ w[d] \in Nat /\ v[d] # w[d]
      BY <2>1, <3>1, <3>2
    <3>4. QED BY <3>2, <3>3
  <2>4. CASE i < d
    <3>1. i \in DOMAIN v /\ v[i] = w[i]
      <4>1. i \in 1..(d - 1)
        BY <2>1, <2>4
      <4>2. QED BY <2>2, <4>1
    <3>2. \A j \in 1..(i - 1) : j \in DOMAIN u /\ u[j] = v[j]
      BY <1>1, <2>1, <2>2, <2>4
    <3>3. QED BY <1>1, <3>1, <3>2 DEF Precedes
  <2>5. CASE d < i
    <3>1. d \in DOMAIN u /\ u[d] = w[d]
      BY <1>1, <2>1, <2>5
    <3>2. \A j \in 1..(d - 1) : j \in DOMAIN u /\ u[j] = v[j]
      BY <1>1, <2>1, <2>2, <2>5
    <3>3. QED BY <2>3, <3>1, <3>2 DEF Precedes
  <2>6. CASE d = i
    <3>1. u \in [DOMAIN u -> Nat] /\ w[d] \in Nat /\ v[d] \in Nat
      BY <2>1, <2>3
    <3>2. d \notin DOMAIN u \/ u[d] < v[d]
      BY <1>1, <2>3, <2>6, <3>1
    <3>3. \A j \in 1..(d - 1) : j \in DOMAIN u /\ u[j] = v[j]
      BY <1>1, <2>1, <2>2, <2>6
    <3>4. QED BY <2>3, <3>2, <3>3 DEF Precedes
  <2>7. i \in Int /\ d \in Int
    BY <2>1
  <2>8. QED BY <2>4, <2>5, <2>6, <2>7
<1>4. QED BY <1>2, <1>3

\* The floor is the right line: validate's glibc check is the loader's.
LEMMA FloorIsTheLine ==
  ASSUME NEW s \in Sources
  PROVE  ~ExceedsFloor(Object(s)) <=>
           \A version \in Object(s).versions : version.of = "GLIBC" => version \in Shipped
<1>1. Object(s).versions = s.versions
  BY DEF Object
<1>2. GlibcVersions(Object(s)) = GlibcVersions(s) /\ MaxGlibcVersion(Object(s)) = MaxGlibcVersion(s)
  BY <1>1 DEF GlibcVersions, MaxGlibcVersion
<1>3. ASSUME ExceedsFloor(Object(s))
      PROVE  \E x \in s.versions : x.of = "GLIBC" /\ x \notin Shipped
  <2>1. PICK v \in MaxGlibcVersion(s) : Precedes(Floor, v)
    BY <1>2, <1>3 DEF ExceedsFloor
  <2>2. PICK x \in s.versions : x.of = "GLIBC" /\ x.parts # <<>> /\ x.parts = v
    BY <2>1 DEF MaxGlibcVersion, GlibcVersions
  <2>3. QED BY <2>1, <2>2, FloorAssumption
<1>4. ASSUME NEW x \in s.versions, x.of = "GLIBC", x \notin Shipped
      PROVE  ExceedsFloor(Object(s))
  <2>1. x.parts # <<>> /\ Precedes(Floor, x.parts)
    BY <1>4, FloorAssumption
  <2>2. x.parts \in GlibcVersions(s)
    BY <1>4, <2>1 DEF GlibcVersions
  <2>3. PICK v \in MaxGlibcVersion(s) : TRUE
    BY <2>2, FloorAssumption
  <2>4. PICK y \in s.versions : y.of = "GLIBC" /\ y.parts # <<>> /\ y.parts = v
    BY <2>3 DEF MaxGlibcVersion, GlibcVersions
  <2>5. Precedes(Floor, v)
    <3>1. ~Precedes(v, x.parts)
      BY <2>2, <2>3 DEF MaxGlibcVersion
    <3>2. Floor \in Seq(Nat) /\ x.parts \in Seq(Nat) /\ v \in Seq(Nat)
      BY <1>4, <2>4, FloorAssumption
    <3>3. QED BY <2>1, <3>1, <3>2, OrderIsTotal
  <2>6. QED BY <1>2, <2>3, <2>5 DEF ExceedsFloor
<1>5. QED BY <1>1, <1>3, <1>4

(* An object validate accepts is one the loader takes, but for libraries    *)
(* validate warned of; one above the glibc floor never loads (validate.rs   *)
(* run, loader.rs LoadedUdf::open).                                         *)
THEOREM ValidateForesees == Spec => []ValidatedLoads
<1>1. OpenedInv => ValidatedLoads
  <2> SUFFICES ASSUME OpenedInv
               PROVE  ValidatedLoads
    OBVIOUS
  <2> USE DEF OpenedInv
  <2>1. ASSUME NEW deny \in BOOLEAN, Validates(Object(source), deny)
        PROVE  /\ refused \notin {"abi", "print"}
               /\ refused = "loader" => ~deny /\ UnknownSonames(Object(source)) # {}
    <3>1. [name |-> UdfName(source), sdk |-> source.sdk] \in Object(source).entries
      BY DEF Object
    <3>2. source.sdk.abi = HostSdk.abi /\ source.sdk.print = HostSdk.print
      BY <2>1, <3>1 DEF Validates, VtableErrors
    <3>3. ~ExceedsFloor(Object(source)) /\ (deny => UnknownSonames(Object(source)) = {})
      BY <2>1 DEF Validates
    <3>4. UnknownSonames(Object(source)) = {} => ContainerLoads(Object(source))
      BY <3>3, FloorIsTheLine DEF ContainerLoads, UnknownSonames
    <3>5. QED BY <3>2, <3>3, <3>4
  <2>2. read # {} => ~ExceedsFloor(Object(source))
    BY FloorIsTheLine DEF ContainerLoads
  <2>3. QED BY <2>1, <2>2 DEF ValidatedLoads
<1>2. QED BY <1>1, OpenedInit, OpenedStep, PTL DEF Spec

-----------------------------------------------------------------------------
(* Connect-back: all operations under way but the innermost are in their    *)
(* callback, and a statement is held by the innermost or lost.              *)
Phases == Driving \cup {"stream", "callback"}

Call ==
  [op : Operations \cup {"open", "drop"}, conn : Conns, phase : Phases,
   result : Seq([rows : Seq(Nat), bad : BOOLEAN]), todo : Seq([rows : Seq(Nat), bad : BOOLEAN]),
   rows : Seq(Nat), got : Seq(Nat \cup {"ok", "error"})]

StackInv ==
  /\ calls \in Seq(Call)
  /\ \A i \in 1..(Len(calls) - 1) : calls[i].phase = "callback"

Holding(c) == calls # <<>> /\ Top.conn = c /\ Top.phase \in {"execute", "close"}

BackInv ==
  /\ StackInv
  /\ conns \in [Conns -> {"none", "open"}]
  /\ statements \in [Conns -> Nat] /\ lost \in [Conns -> Nat]
  /\ \A c \in Conns : statements[c] = lost[c] + (IF Holding(c) THEN 1 ELSE 0)
  /\ made \in 0..MaxCalls

(* All of a sequence but its last element.                                  *)
LEMMA FrontIsPrefix ==
  ASSUME NEW S, NEW s \in Seq(S), s # <<>>
  PROVE  /\ Len(s) \in Nat \ {0}
         /\ Front(s) \in Seq(S) /\ Len(Front(s)) = Len(s) - 1
         /\ \A i \in 1..(Len(s) - 1) : Front(s)[i] = s[i]
<1>1. Len(s) \in Nat \ {0}
  BY EmptySeq
<1>2. PICK n \in Nat : Len(s) = n + 1 /\ Len(s) - 1 = n
  BY <1>1
<1>3. \A i \in 1..n : s[i] \in S
  BY <1>2
<1>4. /\ SubSeq(s, 1, n) \in Seq(S)
      /\ Len(SubSeq(s, 1, n)) = IF 1 <= n THEN n - 1 + 1 ELSE 0
      /\ \A i \in 1..(n - 1 + 1) : SubSeq(s, 1, n)[i] = s[1 + i - 1]
  BY <1>3, SubSeqProperties
<1>5. (IF 1 <= n THEN n - 1 + 1 ELSE 0) = n /\ n - 1 + 1 = n
  OBVIOUS
<1>6. \A i \in 1..n : SubSeq(s, 1, n)[i] = s[i]
  <2> TAKE i \in 1..n
  <2>1. i \in 1..(n - 1 + 1) /\ 1 + i - 1 = i
    OBVIOUS
  <2>2. SubSeq(s, 1, n)[i] = s[1 + i - 1]
    BY <1>4, <2>1
  <2>3. QED BY <2>1, <2>2, Zenon
<1>7. Len(SubSeq(s, 1, n)) = n
  BY <1>4, <1>5, Zenon
<1>8. Front(s) = SubSeq(s, 1, n)
  BY <1>2, Zenon DEF Front
<1>9. QED BY <1>1, <1>2, <1>4, <1>6, <1>7, <1>8, Zenon

(* An operation begun by the UDF lands on a stack of callbacks.             *)
LEMMA BeginKeeps ==
  ASSUME StackInv, UdfRuns, NEW c \in Conns, NEW op \in Operations \cup {"open", "drop"},
         NEW phase \in {"drive", "prepare"}, Begin(op, c, phase)
  PROVE  StackInv' /\ \A d \in Conns : ~Holding(d) /\ ~Holding(d)'
<1> DEFINE call == [op |-> op, conn |-> c, phase |-> phase,
                    result |-> <<>>, todo |-> <<>>, rows |-> <<>>, got |-> <<>>]
<1>1. call \in Call
  BY DEF Call, Phases, Driving
<1>2. calls' = Append(calls, call) /\ calls \in Seq(Call)
  BY DEF Begin, StackInv
<1>3. /\ calls' \in Seq(Call) /\ Len(calls') = Len(calls) + 1
      /\ calls'[Len(calls')] = call
      /\ \A i \in 1..Len(calls) : calls'[i] = calls[i]
  BY <1>1, <1>2
<1>4. \A i \in 1..Len(calls) : calls[i].phase = "callback"
  BY <1>2 DEF StackInv, UdfRuns, Top, Last
<1>5. StackInv'
  BY <1>2, <1>3, <1>4 DEF StackInv
<1>6. ~(phase \in {"execute", "close"})
  OBVIOUS
<1>7. QED BY <1>3, <1>5, <1>6 DEF Holding, Top, Last, UdfRuns

(* The innermost operation goes on.                                         *)
LEMMA ReplaceKeeps ==
  ASSUME StackInv, calls # <<>>, NEW call \in Call, Replace(call)
  PROVE  StackInv' /\ calls' # <<>> /\ Top' = call
<1>1. calls' = Append(Front(calls), call) /\ calls \in Seq(Call) /\ Len(calls) \in Nat \ {0}
  BY DEF Replace, StackInv
<1>2. /\ Front(calls) \in Seq(Call) /\ Len(Front(calls)) = Len(calls) - 1
      /\ \A i \in 1..(Len(calls) - 1) : Front(calls)[i] = calls[i]
  BY <1>1, FrontIsPrefix
<1>a. ASSUME NEW s \in Seq(Call)
      PROVE  /\ Append(s, call) \in Seq(Call) /\ Len(Append(s, call)) = Len(s) + 1
             /\ Append(s, call)[Len(s) + 1] = call
             /\ \A i \in 1..Len(s) : Append(s, call)[i] = s[i]
  OBVIOUS
<1>b. /\ calls' \in Seq(Call) /\ Len(calls') = Len(Front(calls)) + 1
      /\ calls'[Len(Front(calls)) + 1] = call
      /\ \A i \in 1..Len(Front(calls)) : calls'[i] = Front(calls)[i]
  BY <1>1, <1>2, <1>a
<1>3. /\ calls' \in Seq(Call) /\ Len(calls') = Len(calls) /\ calls'[Len(calls')] = call
      /\ \A i \in 1..(Len(calls) - 1) : calls'[i] = calls[i]
  BY <1>1, <1>2, <1>b
<1>4. QED BY <1>1, <1>3 DEF StackInv, Top, Last

(* It returns to the callback that started it, or to the UDF.               *)
LEMMA ReturnKeeps ==
  ASSUME StackInv, calls # <<>>, NEW outcome, Return(outcome)
  PROVE  StackInv' /\ \A c \in Conns : ~Holding(c)'
<1>1. calls' = Front(calls) /\ calls \in Seq(Call) /\ Len(calls) \in Nat \ {0}
  BY DEF Return, StackInv
<1>2. /\ Front(calls) \in Seq(Call) /\ Len(Front(calls)) = Len(calls) - 1
      /\ \A i \in 1..(Len(calls) - 1) : Front(calls)[i] = calls[i]
  BY <1>1, FrontIsPrefix
<1>3. \A i \in 1..Len(calls') : calls'[i].phase = "callback"
  <2>1. \A i \in 1..(Len(calls) - 1) : calls[i].phase = "callback"
    BY DEF StackInv
  <2>2. Len(calls') = Len(calls) - 1 /\ \A i \in 1..(Len(calls) - 1) : calls'[i] = calls[i]
    BY <1>1, <1>2
  <2>3. QED BY <2>1, <2>2
<1>4. calls' # <<>> => Top'.phase = "callback"
  BY <1>1, <1>2, <1>3 DEF Top, Last
<1>5. QED BY <1>1, <1>2, <1>3, <1>4 DEF StackInv, Holding

(* The innermost operation is one.                                          *)
LEMMA TopIsCall == StackInv /\ calls # <<>> => Top \in Call
  BY DEF StackInv, Top, Last

(* A shutdown forgets the connection and what the server held for it.       *)
LEMMA ShutdownKeeps ==
  ASSUME BackInv, ShutdownAnswers
  PROVE  BackInv'
<1>1. /\ calls # <<>> /\ Return("ok") /\ Top.phase = "drive" /\ UNCHANGED made
      /\ conns' = [conns EXCEPT ![Top.conn] = "none"]
      /\ statements' = [statements EXCEPT ![Top.conn] = 0]
      /\ lost' = [lost EXCEPT ![Top.conn] = 0]
  BY DEF ShutdownAnswers
<1>2. StackInv' /\ \A c \in Conns : ~Holding(c) /\ ~Holding(c)'
  BY <1>1, ReturnKeeps DEF BackInv, Holding
<1>3. /\ conns' \in [Conns -> {"none", "open"}]
      /\ statements' \in [Conns -> Nat] /\ lost' \in [Conns -> Nat]
  BY <1>1 DEF BackInv
<1>4. ASSUME NEW c \in Conns
      PROVE  statements'[c] = lost'[c]
  <2>1. statements[c] = lost[c] /\ statements[c] \in Nat /\ lost[c] \in Nat
    BY <1>2 DEF BackInv
  <2>2. CASE c = Top.conn
    BY <1>1, <2>2 DEF BackInv
  <2>3. CASE c # Top.conn
    BY <1>1, <2>1, <2>3 DEF BackInv
  <2>4. QED BY <2>2, <2>3
<1>5. \A c \in Conns : statements'[c] = lost'[c] + (IF Holding(c)' THEN 1 ELSE 0)
  BY <1>2, <1>3, <1>4
<1>6. made' \in 0..MaxCalls
  BY <1>1 DEF BackInv
<1>7. QED BY <1>2, <1>3, <1>5, <1>6 DEF BackInv

(* Every step of an operation keeps the stack and the statements in step.   *)
LEMMA BackStepKeeps ==
  ASSUME BackInv, BackStep
  PROVE  BackInv'
<1> USE DEF BackInv
<1>1. ASSUME NEW c \in Conns, OpenConnection(c) \/ DropConnection(c)
             \/ \E op \in Operations : Operate(op, c)
      PROVE  BackInv'
  <2>1. PICK op \in Operations \cup {"open", "drop"}, phase \in {"drive", "prepare"} :
          /\ UdfRuns /\ Begin(op, c, phase) /\ (op # "drop" => made < MaxCalls)
          /\ UNCHANGED <<conns, statements, lost>>
    BY <1>1 DEF OpenConnection, DropConnection, Operate, FirstPhase
  <2>2. made' \in 0..MaxCalls
    BY <2>1, BackAssumption DEF Begin
  <2>3. QED BY <2>1, <2>2, BeginKeeps
<1>2. ASSUME NEW c \in Conns, BatchWithoutDriver(c)
      PROVE  BackInv'
  <2>1. UNCHANGED <<calls, conns, statements, lost>> /\ made' = made + 1 /\ made < MaxCalls
    BY <1>2 DEF BatchWithoutDriver
  <2>2. StackInv' /\ \A d \in Conns : Holding(d)' <=> Holding(d)
    BY <2>1 DEF StackInv, Holding, Top
  <2>3. made' \in 0..MaxCalls
    BY <2>1, BackAssumption
  <2>4. QED BY <2>1, <2>2, <2>3
<1>3. CASE DriverAnswers
  <2>1. PICK outcome \in {"ok", "error"} :
          /\ calls # <<>> /\ Return(outcome) /\ Top.phase = "drive"
          /\ conns' = conns \/ conns' = [conns EXCEPT ![Top.conn] = "open"]
          /\ UNCHANGED <<statements, lost, made>>
    BY <1>3 DEF DriverAnswers
  <2>2. \A c \in Conns : ~Holding(c)
    BY <2>1 DEF Holding
  <2>3. QED BY <2>1, <2>2, ReturnKeeps
<1>4. CASE ShutdownAnswers
  BY <1>4, ShutdownKeeps
<1>5. CASE FetchAnswers
  <2>1. calls # <<>> /\ Top \in Call /\ Top.phase = "drive"
        /\ UNCHANGED <<conns, statements, lost, made>>
    BY <1>5, TopIsCall DEF FetchAnswers
  <2>2. \A c \in Conns : ~Holding(c)
    BY <2>1 DEF Holding
  <2>3. CASE Return("error")
    BY <2>1, <2>2, <2>3, ReturnKeeps
  <2>4. ASSUME NEW result \in Results,
               Replace([Top EXCEPT !.phase = "stream", !.result = result, !.todo = result])
        PROVE  BackInv'
    <3> DEFINE call == [Top EXCEPT !.phase = "stream", !.result = result, !.todo = result]
    <3>1. call \in Call /\ call.phase = "stream" /\ Replace(call)
      BY <2>1, <2>4, BackAssumption DEF Call, Phases
    <3> HIDE DEF call
    <3>2. StackInv' /\ Top' = call
      BY <2>1, <3>1, ReplaceKeeps
    <3>3. Top'.phase = "stream"
      BY <3>1, <3>2, Zenon
    <3>4. QED BY <2>1, <2>2, <3>2, <3>3 DEF Holding
  <2>5. QED BY <1>5, <2>3, <2>4 DEF FetchAnswers
<1>6. CASE NextBatch \/ ServeRow \/ CallbackReturns \/ QueryReturns
  <2>1. /\ calls # <<>> /\ Top \in Call /\ Top.phase \in {"stream", "callback"}
        /\ UNCHANGED <<conns, statements, lost, made>>
    BY <1>6, TopIsCall DEF NextBatch, ServeRow, CallbackReturns, QueryReturns, Streaming
  <2>2. \A c \in Conns : ~Holding(c)
    BY <2>1 DEF Holding
  <2>3. \/ \E outcome \in {"ok", "error"} : Return(outcome)
        \/ \E call \in Call : Replace(call) /\ call.phase \in {"stream", "callback"}
    <3>1. CASE NextBatch
      <4>b. Top.todo \in Seq([rows : Seq(Nat), bad : BOOLEAN])
        BY <2>1 DEF Call
      <4>1. Top.todo # <<>> => Tail(Top.todo) \in Seq([rows : Seq(Nat), bad : BOOLEAN])
                               /\ Head(Top.todo).rows \in Seq(Nat)
        <5>1. Top.todo # <<>> => Tail(Top.todo) \in Seq([rows : Seq(Nat), bad : BOOLEAN])
                                 /\ Head(Top.todo) \in [rows : Seq(Nat), bad : BOOLEAN]
          BY <4>b, HeadTailProperties, Zenon
        <5>2. QED BY <5>1
      <4>a. ASSUME NEW rows \in Seq(Nat), NEW todo \in Seq([rows : Seq(Nat), bad : BOOLEAN])
            PROVE  [Top EXCEPT !.rows = rows, !.todo = todo] \in Call
        BY <2>1 DEF Call
      <4>2. Top.todo # <<>> => [Top EXCEPT !.rows = Head(Top.todo).rows, !.todo = Tail(Top.todo)] \in Call
        BY <4>1, <4>a
      <4>3. [Top EXCEPT !.rows = Head(Top.todo).rows, !.todo = Tail(Top.todo)].phase = Top.phase
        BY <2>1 DEF Call
      <4>4. QED BY <2>1, <3>1, <4>2, <4>3 DEF NextBatch
    <3>2. CASE ServeRow
      <4>1. Top.rows # <<>> => Tail(Top.rows) \in Seq(Nat)
                               /\ Append(Top.got, Head(Top.rows)) \in Seq(Nat \cup {"ok", "error"})
        BY <2>1 DEF Call
      <4>2. Top.rows # <<>> =>
              [Top EXCEPT !.phase = "callback", !.rows = Tail(Top.rows),
                          !.got = Append(Top.got, Head(Top.rows))] \in Call
        BY <2>1, <4>1 DEF Call, Phases
      <4>3. [Top EXCEPT !.phase = "callback", !.rows = Tail(Top.rows),
                        !.got = Append(Top.got, Head(Top.rows))].phase = "callback"
        BY <2>1 DEF Call
      <4>4. QED BY <3>2, <4>2, <4>3 DEF ServeRow
    <3>3. CASE CallbackReturns
      <4>1. [Top EXCEPT !.phase = "stream"] \in Call /\ [Top EXCEPT !.phase = "stream"].phase = "stream"
        BY <2>1 DEF Call, Phases
      <4>2. QED BY <3>3, <4>1 DEF CallbackReturns
    <3>4. CASE QueryReturns
      BY <3>4 DEF QueryReturns
    <3>5. QED BY <1>6, <3>1, <3>2, <3>3, <3>4
  <2>4. StackInv' /\ \A c \in Conns : ~Holding(c)'
    BY <2>1, <2>3, ReturnKeeps, ReplaceKeeps DEF Holding
  <2>5. QED BY <2>1, <2>2, <2>4
<1>7. CASE Prepared
  <2>1. /\ calls # <<>> /\ Top \in Call /\ Top.phase = "prepare" /\ Top.conn \in Conns
        /\ UNCHANGED <<conns, lost, made>>
    BY <1>7, TopIsCall DEF Prepared, Call
  <2>2. \A c \in Conns : ~Holding(c)
    BY <2>1 DEF Holding
  <2>3. CASE Return("error") /\ UNCHANGED statements
    BY <2>1, <2>2, <2>3, ReturnKeeps
  <2>4. CASE /\ Replace([Top EXCEPT !.phase = "execute"])
             /\ statements' = [statements EXCEPT ![Top.conn] = @ + 1]
    <3>1. [Top EXCEPT !.phase = "execute"] \in Call
      BY <2>1 DEF Call, Phases, Driving
    <3>2. StackInv' /\ calls' # <<>> /\ Top' = [Top EXCEPT !.phase = "execute"]
      BY <2>1, <2>4, <3>1, ReplaceKeeps
    <3>3. \A c \in Conns : Holding(c)' <=> c = Top.conn
      BY <2>1, <3>2 DEF Holding, Call
    <3>4. statements' \in [Conns -> Nat]
      BY <2>1, <2>4
    <3>5. \A c \in Conns : statements[c] = lost[c] /\ statements[c] \in Nat
      BY <2>2
    <3>6. \A c \in Conns : statements'[c] = lost'[c] + (IF c = Top.conn THEN 1 ELSE 0)
      BY <2>1, <2>4, <3>5
    <3>7. \A c \in Conns : statements'[c] = lost'[c] + (IF Holding(c)' THEN 1 ELSE 0)
      BY <3>3, <3>6
    <3>8. QED BY <2>1, <3>2, <3>4, <3>7
  <2>5. QED BY <1>7, <2>3, <2>4 DEF Prepared
<1>8. CASE Executed
  <2>1. /\ calls # <<>> /\ Top \in Call /\ Top.phase = "execute" /\ Top.conn \in Conns
        /\ UNCHANGED <<conns, statements, made>>
    BY <1>8, TopIsCall DEF Executed, Call
  <2>2. \A c \in Conns : Holding(c) <=> c = Top.conn
    BY <2>1 DEF Holding
  <2>3. ASSUME NEW outcome \in {"ok", "error"}, UNCHANGED lost,
               Replace([Top EXCEPT !.phase = "close", !.got = <<outcome>>])
        PROVE  BackInv'
    <3>1. <<outcome>> \in Seq(Nat \cup {"ok", "error"})
      OBVIOUS
    <3>2. [Top EXCEPT !.phase = "close", !.got = <<outcome>>] \in Call
      BY <2>1, <3>1 DEF Call, Phases, Driving
    <3>3. StackInv' /\ calls' # <<>> /\ Top' = [Top EXCEPT !.phase = "close", !.got = <<outcome>>]
      BY <2>1, <2>3, <3>2, ReplaceKeeps
    <3>4. \A c \in Conns : Holding(c)' <=> c = Top.conn
      BY <2>1, <3>3 DEF Holding, Call
    <3>5. QED BY <2>1, <2>2, <2>3, <3>3, <3>4
  <2>4. CASE Return("error") /\ lost' = [lost EXCEPT ![Top.conn] = @ + 1]
    BY <2>1, <2>2, <2>4, ReturnKeeps
  <2>5. QED BY <1>8, <2>3, <2>4 DEF Executed
<1>9. CASE Closed
  <2>1. /\ calls # <<>> /\ Top \in Call /\ Top.phase = "close" /\ Top.conn \in Conns
        /\ UNCHANGED <<conns, made>>
    BY <1>9, TopIsCall DEF Closed, Call
  <2>2. \A c \in Conns : Holding(c) <=> c = Top.conn
    BY <2>1 DEF Holding
  <2>3. PICK outcome :
          /\ Return(outcome)
          /\ \/ statements' = [statements EXCEPT ![Top.conn] = @ - 1] /\ UNCHANGED lost
             \/ lost' = [lost EXCEPT ![Top.conn] = @ + 1] /\ UNCHANGED statements
    BY <1>9 DEF Closed
  <2>4. StackInv' /\ \A c \in Conns : ~Holding(c)'
    BY <2>1, <2>3, ReturnKeeps
  <2>5. statements[Top.conn] = lost[Top.conn] + 1 /\ lost[Top.conn] \in Nat
    BY <2>1, <2>2
  <2>6. statements' \in [Conns -> Nat] /\ lost' \in [Conns -> Nat]
    <3>1. lost[Top.conn] + 1 \in Nat /\ (lost[Top.conn] + 1) - 1 \in Nat
      BY <2>5
    <3>2. CASE statements' = [statements EXCEPT ![Top.conn] = @ - 1] /\ UNCHANGED lost
      BY <2>1, <2>5, <3>1, <3>2
    <3>3. CASE lost' = [lost EXCEPT ![Top.conn] = @ + 1] /\ UNCHANGED statements
      BY <2>1, <3>1, <3>3
    <3>4. QED BY <2>3, <3>2, <3>3
  <2>7. \A c \in Conns : c # Top.conn => statements[c] = lost[c] /\ lost[c] \in Nat
    BY <2>2
  <2>8. \A c \in Conns : statements'[c] = lost'[c]
    BY <2>1, <2>3, <2>5, <2>7
  <2>9. \A c \in Conns : statements'[c] = lost'[c] + (IF Holding(c)' THEN 1 ELSE 0)
    BY <2>4, <2>6, <2>8
  <2>10. QED BY <2>1, <2>4, <2>6, <2>9
<1>10. QED
  BY <1>1, <1>2, <1>3, <1>4, <1>5, <1>6, <1>7, <1>8, <1>9 DEF BackStep

(* A new process holds nothing.                                             *)
LEMMA BackInitially == Init => BackInv
  BY BackAssumption DEF Init, BackInit, BackInv, StackInv, Holding

(* Around the operations: a call begins with none under way, a panic        *)
(* unwinds callbacks only, and locals are dropped by shutdowns.             *)
LEMMA BackInvStep == BackInv /\ [Next]_vars => BackInv'
<1> SUFFICES ASSUME BackInv, [Next]_vars
             PROVE  BackInv'
  OBVIOUS
<1>a. ASSUME UNCHANGED <<calls, conns, statements, lost>>, made' \in {made, 0}
      PROVE  BackInv'
  BY <1>a, BackAssumption DEF BackInv, StackInv, Holding, Top
<1>1. CASE UsesConnectBack
  BY <1>1, BackStepKeeps DEF UsesConnectBack
<1>2. CASE DropsLocals
  <2>1. CASE ~aborted
    BY <1>2, <2>1, BackStepKeeps DEF DropsLocals, BackStep
  <2>2. CASE aborted
    <3>1. ShutdownAnswers
      BY <1>2, <2>2 DEF DropsLocals, DropConnection, UdfRuns
    <3>2. QED BY <3>1, ShutdownKeeps
  <2>3. QED BY <2>1, <2>2
<1>3. CASE \E how \in {"ok", "error", "mute", "panic"} : UdfEnds(how)
  <2>1. UdfRuns /\ calls' = <<>> /\ UNCHANGED <<conns, statements, lost, made>>
    BY <1>3 DEF UdfEnds
  <2>2. \A c \in Conns : ~Holding(c) /\ ~Holding(c)'
    BY <2>1 DEF UdfRuns, Holding
  <2>3. StackInv'
    BY <2>1 DEF StackInv
  <2>4. QED BY <2>1, <2>2, <2>3 DEF BackInv
<1>4. ASSUME NEW s \in Slots, SkipSlot(s) \/ CallSlot(s)
      PROVE  BackInv'
  BY <1>4, <1>a DEF SkipSlot, CallSlot, backVars
<1>5. CASE (ArtifactStep /\ UNCHANGED backVars) \/ RefuseArgument \/ ContextFails \/ ShimReturns
             \/ HostTakes \/ Finish \/ UNCHANGED vars
  BY <1>5, <1>a DEF RefuseArgument, ContextFails, ShimReturns, HostTakes, Finish, vars, backVars
<1>6. QED
  BY <1>1, <1>2, <1>3, <1>4, <1>5 DEF Next, Terminated

(* However deep callbacks nest their queries, batches and connections, one  *)
(* future at a time is driven on the one-thread runtime (connect_back.rs    *)
(* block_on).                                                               *)
THEOREM OneFutureAtATime == Spec => []OneBlockOn
<1>1. BackInv => OneBlockOn
  <2> SUFFICES ASSUME BackInv
               PROVE  OneBlockOn
    OBVIOUS
  <2> DEFINE D == {i \in DOMAIN calls : calls[i].phase \in Driving}
  <2>1. D \subseteq {Len(calls)}
    BY DEF BackInv, StackInv, Driving
  <2>2. IsFiniteSet({Len(calls)}) /\ Cardinality({Len(calls)}) = 1
    BY FS_Singleton
  <2>3. IsFiniteSet(D) /\ Cardinality(D) <= Cardinality({Len(calls)})
    BY <2>1, <2>2, FS_Subset, Zenon
  <2>4. QED BY <2>2, <2>3 DEF OneBlockOn
<1>2. QED BY <1>1, BackInitially, BackInvStep, PTL DEF Spec

(* execute_batch leaves no statement behind on the server, whatever failed  *)
(* in it, but those whose close failed or a panic took away.                *)
THEOREM NoStatementForgotten == Spec => []StatementsClosed
<1>1. BackInv => StatementsClosed
  <2> SUFFICES ASSUME BackInv, NEW c \in Conns, ~Borrowed(c)
               PROVE  statements[c] = lost[c]
    BY DEF StatementsClosed
  <2>1. ~Holding(c)
    BY DEF Holding, Borrowed, BackInv, StackInv, Top, Last
  <2>2. QED BY <2>1 DEF BackInv
<1>2. QED BY <1>1, BackInitially, BackInvStep, PTL DEF Spec

-----------------------------------------------------------------------------
(* The types of the call's own variables, with what the other invariants    *)
(* say of connections, strings and the way a function ended.                *)
CallTypes ==
  /\ stage \in Stages
  /\ read \subseteq Slots \cup {"abi", "print", "shape", "input", "output"}
  /\ refused \in {"none", "directive", "loader", "entry", "abi", "print", "shape", "schema"}
  /\ slot \in Slots \cup {"none"}
  /\ said \in {"none", "ok", "error", "mute", "panic"}
  /\ out \in {"null", "empty", "text", "panicked", "result"}
  /\ answer \in {"none", "ok", "own", "explained", "unexplained", "absent", "nul"}
  /\ rc \in 0..2

FlagTypes == recorded \in BOOLEAN /\ starved \in BOOLEAN /\ aborted \in BOOLEAN

LEMMA TypesInitially == Init => CallTypes /\ FlagTypes
<1>1. Init => CallTypes
  BY DEF Init, ArtifactInit, CallTypes, Stages
<1>2. Init => FlagTypes
  BY Zenon DEF Init, BackInit, FlagTypes
<1>3. QED BY <1>1, <1>2

LEMMA BackStepAborts == BackStep /\ aborted \in BOOLEAN => aborted' \in BOOLEAN
BY DEF BackStep, OpenConnection, DropConnection, BatchWithoutDriver, Operate, DriverAnswers,
       ShutdownAnswers, FetchAnswers, NextBatch, ServeRow, CallbackReturns, QueryReturns,
       Prepared, Executed, Closed

LEMMA FlagsStep == FlagTypes /\ [Next]_vars => FlagTypes'
<1> SUFFICES ASSUME FlagTypes, [Next]_vars
             PROVE  FlagTypes'
  OBVIOUS
<1> USE DEF FlagTypes
<1>1. CASE UNCHANGED <<recorded, starved, aborted>>
  BY <1>1, Zenon
<1>2. CASE ArtifactStep /\ UNCHANGED <<backVars, callVars>>
  BY <1>2, <1>1 DEF callVars, backVars
<1>3. ASSUME NEW s \in Slots, SkipSlot(s) \/ CallSlot(s)
      PROVE  FlagTypes'
  <2>1. CASE SkipSlot(s)
    BY <2>1, <1>1 DEF SkipSlot, backVars
  <2>2. CASE CallSlot(s)
    BY <2>2, Zenon DEF CallSlot
  <2>3. QED BY <1>3, <2>1, <2>2
<1>4. CASE RefuseArgument \/ HostTakes \/ Finish \/ UNCHANGED vars
             \/ \E how \in {"ok", "error", "mute", "panic"} : UdfEnds(how)
  BY <1>4, <1>1 DEF RefuseArgument, HostTakes, Finish, UdfEnds, vars, backVars, callVars
<1>5. CASE ContextFails
  <2>1. recorded' = TRUE /\ UNCHANGED <<starved, aborted>>
    BY <1>5 DEF ContextFails, backVars
  <2>2. QED BY <2>1, Zenon
<1>6. CASE UsesConnectBack
  BY <1>6, BackStepAborts, Zenon DEF UsesConnectBack
<1>7. CASE DropsLocals
  <2>1. UNCHANGED <<recorded, starved>> /\ (aborted' = aborted \/ aborted' \in BOOLEAN)
    BY <1>7 DEF DropsLocals, DropConnection, ShutdownAnswers, callVars
  <2>2. QED BY <2>1, Zenon
<1>8. CASE ShimReturns
  <2>1. UNCHANGED <<recorded, aborted>> /\ (starved' = starved \/ starved' = TRUE)
    BY <1>8 DEF ShimReturns, backVars
  <2>2. QED BY <2>1, Zenon
<1>9. QED
  BY <1>2, <1>3, <1>4, <1>5, <1>6, <1>7, <1>8 DEF Next, Terminated

LEMMA TypesStep == CallTypes /\ WordInv /\ [Next]_vars => CallTypes'
<1> SUFFICES ASSUME CallTypes, WordInv, [Next]_vars
             PROVE  CallTypes'
  OBVIOUS
<1> USE DEF CallTypes, Stages
<1>1. CASE ArtifactStep /\ UNCHANGED <<backVars, callVars>>
  BY <1>1 DEF ArtifactStep, Open, CheckAbi, CheckPrint, CheckShape, CheckSchema, Enter, Refuse,
              callVars
<1>2. ASSUME NEW s \in Slots, SkipSlot(s) \/ CallSlot(s)
      PROVE  CallTypes'
  <2>1. CASE SkipSlot(s)
    BY <2>1 DEF SkipSlot, Reading
  <2>2. CASE CallSlot(s)
    <3>1. /\ stage' = "InUdf" /\ refused' = refused /\ read' = read \cup {s} /\ slot' = s
          /\ said' = "none" /\ answer' = "none" /\ out' = "null" /\ rc' = 0
      BY <2>2 DEF CallSlot, Reading, Enter
    <3>2. QED BY <3>1
  <2>3. QED BY <1>2, <2>1, <2>2
<1>3. CASE RefuseArgument
  BY <1>3 DEF RefuseArgument, Reading, Slots
<1>4. CASE UNCHANGED vars
  BY <1>4 DEF vars, artifactVars, callVars
<1>5. CASE ContextFails \/ UsesConnectBack \/ DropsLocals
  <2>1. UNCHANGED <<stage, read, refused, slot, said, out, answer, rc>>
    BY <1>5 DEF ContextFails, UsesConnectBack, DropsLocals, artifactVars, callVars
  <2>2. QED BY <2>1
<1>6. CASE \E how \in {"ok", "error", "mute", "panic"} : UdfEnds(how)
  BY <1>6 DEF UdfEnds, Enter
<1>7. CASE ShimReturns
  <2>1. said \in {"ok", "error", "mute", "panic"}
    BY <1>7 DEF ShimReturns, WordInv
  <2>2. Texts \subseteq {"empty", "text", "panicked", "result"}
    BY <2>1 DEF Texts
  <2>3. rc' \in 0..2
    BY <1>7, <2>1 DEF ShimReturns
  <2>4. out' = out \/ out' \in Texts \/ out' = "null"
    BY <1>7 DEF ShimReturns
  <2>5. stage' = "Returned" /\ UNCHANGED <<read, refused, slot, said, answer>>
    BY <1>7 DEF ShimReturns, Enter
  <2>6. out' = out \/ out' \in {"null", "empty", "text", "panicked", "result"}
    BY <2>2, <2>4
  <2>7. QED BY <2>3, <2>5, <2>6
<1>8. CASE HostTakes
  BY <1>8 DEF HostTakes, HookError, Enter
<1>9. CASE Finish
  BY <1>9 DEF Finish, Enter, callVars
<1>10. QED
  BY <1>1, <1>2, <1>3, <1>4, <1>5, <1>6, <1>7, <1>8, <1>9 DEF Next, Terminated

(* Type correctness of the boundary: in particular no statement is closed   *)
(* twice and no string freed twice, either of which would count below zero  *)
(* (Closed of connect_back.rs, HostTakes of loader.rs).                     *)
THEOREM BoundaryTypes == Spec => []TypeOK
<1>1. CallTypes /\ FlagTypes /\ BackInv /\ StringInv => TypeOK
  <2>1. FlagTypes => {recorded, starved, aborted} \subseteq BOOLEAN
    BY Zenon DEF FlagTypes
  <2>2. QED BY <2>1 DEF CallTypes, BackInv, StringInv, TypeOK
<1>2. QED
  BY <1>1, TypesInitially, TypesStep, FlagsStep, BackInitially, BackInvStep, StringInit, StringStep,
     WordInit, WordStep, PTL DEF Spec

-----------------------------------------------------------------------------
(* query_for_each: what the rows of a result are, batch by batch.  The      *)
(* function FlattenSeq recurses on is shown to exist by its least missing   *)
(* argument.                                                                *)
ResultBatch == [rows : Seq(Nat), bad : BOOLEAN]

\* A set of numbers that is not empty has a least one.
LEMMA LeastNumber ==
  ASSUME NEW S \in SUBSET Nat, S # {}
  PROVE  \E n \in S : \A m \in S : n <= m
<1>1. PICK n \in S : \A m \in S : <<m, n>> \notin OpToRel(<, Nat)
  BY NatLessThanWellFounded, WFMin, Zenon
<1>2. \A m \in S : ~(m < n)
  BY <1>1 DEF OpToRel
<1>3. QED BY <1>2

\* f is what is accumulated after each of the first n sequences of seqs.
Accumulates(f, n, seqs) ==
  /\ f \in [1..n -> Seq(Nat)]
  /\ \A i \in 1..n : f[i] = IF i = 1 THEN seqs[i] ELSE f[i - 1] \o seqs[i]

LEMMA AccumulationExists ==
  ASSUME NEW seqs \in Seq(Seq(Nat))
  PROVE  \A n \in 0..Len(seqs) : \E f : Accumulates(f, n, seqs)
<1> DEFINE Missing == {n \in 0..Len(seqs) : ~\E f : Accumulates(f, n, seqs)}
<1>1. SUFFICES ASSUME Missing # {}
               PROVE  FALSE
  OBVIOUS
<1>2. PICK n \in Missing : \A m \in Missing : n <= m
  <2>1. Missing \in SUBSET Nat
    OBVIOUS
  <2>2. QED BY <1>1, <2>1, LeastNumber, Zenon
<1>3. n # 0
  <2>1. Accumulates([i \in 1..0 |-> <<>>], 0, seqs)
    BY DEF Accumulates
  <2>2. QED BY <1>2, <2>1
<1>4. PICK f : Accumulates(f, n - 1, seqs)
  <2>1. n \in 0..Len(seqs) /\ n - 1 \in 0..Len(seqs) /\ ~(n <= n - 1)
    BY <1>2, <1>3
  <2>a. n - 1 \notin Missing
    BY <1>2, <2>1, Zenon
  <2>2. QED BY <2>1, <2>a, Zenon
<1>5. n \in 1..Len(seqs) /\ seqs[n] \in Seq(Nat)
  BY <1>2, <1>3
<1> DEFINE g == [i \in 1..n |-> IF i < n THEN f[i]
                                ELSE IF n = 1 THEN seqs[n] ELSE f[n - 1] \o seqs[n]]
<1>6. \A i \in 1..n : g[i] = IF i = 1 THEN seqs[i] ELSE g[i - 1] \o seqs[i]
  <2> TAKE i \in 1..n
  <2>1. CASE i < n
    <3>1. i \in 1..(n - 1) /\ g[i] = f[i] /\ (i # 1 => i - 1 \in 1..n /\ i - 1 < n)
      BY <1>5, <2>1
    <3>2. i # 1 => g[i - 1] = f[i - 1]
      BY <3>1
    <3>3. f[i] = IF i = 1 THEN seqs[i] ELSE f[i - 1] \o seqs[i]
      BY <1>4, <3>1, Zenon DEF Accumulates
    <3>4. QED BY <3>1, <3>2, <3>3, Zenon
  <2>2. CASE i = n
    BY <1>5, <2>2
  <2>3. QED BY <1>5, <2>1, <2>2
<1>7. g \in [1..n -> Seq(Nat)]
  <2>1. n # 1 => f[n - 1] \in Seq(Nat)
    BY <1>4, <1>5 DEF Accumulates
  <2>2. n # 1 => f[n - 1] \o seqs[n] \in Seq(Nat)
    BY <1>5, <2>1, ConcatProperties, Zenon
  <2>3. \A i \in 1..n : i < n => f[i] \in Seq(Nat)
    BY <1>4, <1>5 DEF Accumulates
  <2>4. QED BY <1>5, <2>2, <2>3
<1>8. Accumulates(g, n, seqs)
  BY <1>6, <1>7, Zenon DEF Accumulates
<1>9. QED BY <1>2, <1>8

\* What FlattenSeq returns is the last of what is accumulated.
LEMMA FlattenAccumulates ==
  ASSUME NEW seqs \in Seq(Seq(Nat)), NEW f, Accumulates(f, Len(seqs), seqs), Len(seqs) # 0
  PROVE  FlattenSeq(seqs) = f[Len(seqs)]
<1> DEFINE n == Len(seqs)
           Is(h) == h = [i \in 1..n |-> IF i = 1 THEN seqs[i] ELSE h[i - 1] \o seqs[i]]
           chosen == CHOOSE h : Is(h)
<1>1. n \in Nat \ {0}
  OBVIOUS
<1>2. Is(f)
  BY <1>1 DEF Accumulates
<1>3. Is(chosen)
  BY <1>2
<1>4. FlattenSeq(seqs) = chosen[n]
  BY DEF FlattenSeq
<1> HIDE DEF chosen
<1> DEFINE Differs == {i \in 1..n : chosen[i] # f[i]}
<1>5. Differs = {}
  <2>1. SUFFICES ASSUME Differs # {}
                 PROVE  FALSE
    OBVIOUS
  <2>2. PICK i \in Differs : \A j \in Differs : i <= j
    <3>1. Differs \in SUBSET Nat
      OBVIOUS
    <3>2. QED BY <2>1, <3>1, LeastNumber, Zenon
  <2>3. chosen[i] = IF i = 1 THEN seqs[i] ELSE chosen[i - 1] \o seqs[i]
    BY <1>3, <2>2
  <2>a. i \in 1..n /\ i - 1 < i /\ (i # 1 => i - 1 \in 1..n)
    BY <2>2
  <2>4. f[i] = IF i = 1 THEN seqs[i] ELSE f[i - 1] \o seqs[i]
    BY <1>2, <2>2
  <2>b. i # 1 => i - 1 \notin Differs
    <3>1. ~(i <= i - 1)
      BY <2>a
    <3>2. QED BY <2>2, <3>1, Zenon
  <2>5. i # 1 => chosen[i - 1] = f[i - 1]
    BY <2>a, <2>b, Zenon
  <2>6. QED BY <2>2, <2>3, <2>4, <2>5
<1>6. n \in 1..n
  BY <1>1
<1>7. chosen[n] = f[n]
  BY <1>5, <1>6, Zenon
<1>8. QED BY <1>4, <1>7, Zenon

\* The rows of a result, one batch after another.
LEMMA RowsUnrolled ==
  ASSUME NEW b \in Seq(ResultBatch)
  PROVE  \E p \in [0..Len(b) -> Seq(Nat)] :
           /\ p[0] = <<>>
           /\ \A k \in 1..Len(b) : p[k] = p[k - 1] \o b[k].rows
           /\ \A k \in 0..Len(b) : RowsOf(SubSeq(b, 1, k)) = p[k]
<1> DEFINE n    == Len(b)
           seqs == [i \in 1..n |-> b[i].rows]
<1>1. n \in Nat /\ \A i \in 1..n : b[i] \in ResultBatch /\ b[i].rows \in Seq(Nat)
  <2>1. n \in Nat /\ \A i \in 1..n : b[i] \in ResultBatch
    OBVIOUS
  <2>2. \A x \in ResultBatch : x.rows \in Seq(Nat)
    BY DEF ResultBatch
  <2>3. QED BY <2>1, <2>2
<1>2. seqs \in Seq(Seq(Nat)) /\ Len(seqs) = n
  <2>1. seqs \in [1..n -> Seq(Nat)]
    BY <1>1, Zenon
  <2>2. QED BY <1>1, <2>1
<1>3. PICK f : Accumulates(f, n, seqs)
  <2>1. n \in 0..Len(seqs)
    BY <1>1, <1>2
  <2>2. QED BY <1>2, <2>1, AccumulationExists, Zenon
<1> DEFINE p == [k \in 0..n |-> IF k = 0 THEN <<>> ELSE f[k]]
<1>4. p \in [0..n -> Seq(Nat)] /\ p[0] = <<>>
  BY <1>1, <1>3 DEF Accumulates
<1>5. ASSUME NEW k \in 1..n
      PROVE  p[k] = p[k - 1] \o b[k].rows
  <2>0. k # 0 /\ k \in 0..n
    BY <1>1
  <2>1. p[k] = f[k] /\ f[k] = (IF k = 1 THEN seqs[k] ELSE f[k - 1] \o seqs[k]) /\ seqs[k] = b[k].rows
    BY <1>3, <2>0, Zenon DEF Accumulates
  <2>2. CASE k = 1
    <3>1. <<>> \o b[k].rows = b[k].rows
      BY <1>1, ConcatEmptySeq, Zenon
    <3>2. k - 1 = 0
      BY <2>2
    <3>3. QED BY <1>4, <2>1, <2>2, <3>1, <3>2, Zenon
  <2>3. CASE k # 1
    <3>1. p[k - 1] = f[k - 1]
      BY <2>3
    <3>2. QED BY <2>1, <2>3, <3>1, Zenon
  <2>4. QED BY <2>2, <2>3
<1>6. ASSUME NEW k \in 0..n
      PROVE  RowsOf(SubSeq(b, 1, k)) = p[k]
  <2> DEFINE s == SubSeq(b, 1, k)
             q == [i \in DOMAIN s |-> s[i].rows]
  <2>1. s \in Seq(ResultBatch) /\ Len(s) = k /\ DOMAIN s = 1..k /\ \A i \in 1..k : s[i] = b[i]
    <3>1. \A i \in 1..k : b[i] \in ResultBatch
      BY <1>1
    <3>2. /\ s \in Seq(ResultBatch) /\ Len(s) = IF 1 <= k THEN k - 1 + 1 ELSE 0
          /\ \A i \in 1..(k - 1 + 1) : s[i] = b[1 + i - 1]
      BY <3>1, SubSeqProperties
    <3>3. QED BY <3>2
  <2>2. RowsOf(s) = FlattenSeq(q)
    BY DEF RowsOf
  <2> HIDE DEF s
  <2>3. CASE k = 0
    <3>1. q = <<>>
      BY <2>1, <2>3
    <3>2. FlattenSeq(q) = <<>>
      BY <3>1 DEF FlattenSeq
    <3>3. p[k] = <<>>
      BY <1>4, <2>3, Zenon
    <3>4. QED BY <2>2, <3>2, <3>3, Zenon DEF s
  <2>4. CASE k # 0
    <3>1. q \in Seq(Seq(Nat)) /\ Len(q) = k /\ \A i \in 1..k : q[i] = seqs[i]
      BY <1>1, <2>1
    <3> DEFINE h == [i \in 1..k |-> f[i]]
    <3>2. Accumulates(h, k, q)
      <4>1. h \in [1..k -> Seq(Nat)]
        BY <1>3 DEF Accumulates
      <4>2. ASSUME NEW i \in 1..k
            PROVE  h[i] = IF i = 1 THEN q[i] ELSE h[i - 1] \o q[i]
        <5>1. i \in 1..n /\ h[i] = f[i] /\ (i # 1 => i - 1 \in 1..k)
          OBVIOUS
        <5>2. f[i] = IF i = 1 THEN seqs[i] ELSE f[i - 1] \o seqs[i]
          BY <1>3, <5>1, Zenon DEF Accumulates
        <5>3. i # 1 => h[i - 1] = f[i - 1]
          BY <5>1, Zenon
        <5>4. q[i] = seqs[i]
          BY <3>1
        <5>5. QED BY <5>1, <5>2, <5>3, <5>4, Zenon
      <4>3. QED BY <4>1, <4>2, Zenon DEF Accumulates
    <3> HIDE DEF h, q, seqs
    <3>3. Accumulates(h, Len(q), q) /\ Len(q) # 0
      BY <2>4, <3>1, <3>2
    <3>4. FlattenSeq(q) = h[Len(q)]
      BY <3>1, <3>3, FlattenAccumulates, Zenon
    <3>5. h[k] = f[k] /\ p[k] = f[k]
      BY <2>4 DEF h
    <3>6. QED BY <2>2, <3>1, <3>4, <3>5, Zenon DEF s
  <2>5. QED BY <2>3, <2>4
<1>7. QED BY <1>4, <1>5, <1>6

LEMMA PrefixPointwise ==
  ASSUME NEW S, NEW s \in Seq(S), NEW t \in Seq(S)
  PROVE  IsPrefix(s, t) <=> Len(s) <= Len(t) /\ \A i \in 1..Len(s) : s[i] = t[i]
<1>1. Len(s) \in Nat /\ Len(t) \in Nat /\ SubSeq(s, 1, Len(s)) = s
  BY SubSeqFull
<1>2. ASSUME Len(s) <= Len(t)
      PROVE  SubSeq(t, 1, Len(s)) = s <=> \A i \in 1..Len(s) : s[i] = t[i]
  <2>1. \A i \in 1..Len(s) : t[i] \in S
    BY <1>1, <1>2
  <2>2. /\ SubSeq(t, 1, Len(s)) \in Seq(S)
        /\ Len(SubSeq(t, 1, Len(s))) = IF 1 <= Len(s) THEN Len(s) - 1 + 1 ELSE 0
        /\ \A i \in 1..(Len(s) - 1 + 1) : SubSeq(t, 1, Len(s))[i] = t[1 + i - 1]
    BY <1>1, <2>1, SubSeqProperties
  <2>3. /\ SubSeq(t, 1, Len(s)) \in Seq(S)
        /\ Len(SubSeq(t, 1, Len(s))) = Len(s)
        /\ \A i \in 1..Len(s) : SubSeq(t, 1, Len(s))[i] = t[i]
    BY <1>1, <2>2
  <2>4. QED BY <2>3, SeqEqual, Zenon
<1>3. QED BY <1>1, <1>2, Zenon DEF IsPrefix

\* What a sequence starts with, it starts with when more is appended.
LEMMA ConcatenationStarts ==
  ASSUME NEW S, NEW u \in Seq(S), NEW s \in Seq(S), NEW more \in Seq(S),
         NEW t, t = s \o more, Len(u) <= Len(s), \A i \in 1..Len(u) : u[i] = s[i]
  PROVE  Len(u) <= Len(t) /\ \A i \in 1..Len(u) : u[i] = t[i]
<1>1. /\ Len(t) = Len(s) + Len(more)
      /\ \A i \in 1..(Len(s) + Len(more)) : t[i] = IF i <= Len(s) THEN s[i] ELSE more[i - Len(s)]
  BY ConcatProperties
<1>2. Len(u) \in Nat /\ Len(s) \in Nat /\ Len(more) \in Nat
  OBVIOUS
<1>3. QED BY <1>1, <1>2

\* The rows of fewer batches come first among the rows of more.
LEMMA FewerBatchesFirst ==
  ASSUME NEW b \in Seq(ResultBatch), NEW j \in 0..Len(b), NEW m \in j..Len(b)
  PROVE  /\ RowsOf(SubSeq(b, 1, j)) \in Seq(Nat) /\ RowsOf(SubSeq(b, 1, m)) \in Seq(Nat)
         /\ IsPrefix(RowsOf(SubSeq(b, 1, j)), RowsOf(SubSeq(b, 1, m)))
<1>1. PICK p \in [0..Len(b) -> Seq(Nat)] :
        /\ \A k \in 1..Len(b) : p[k] = p[k - 1] \o b[k].rows
        /\ \A k \in 0..Len(b) : RowsOf(SubSeq(b, 1, k)) = p[k]
  BY RowsUnrolled, Zenon
<1> DEFINE Extends(k) == Len(p[j]) <= Len(p[k]) /\ \A i \in 1..Len(p[j]) : p[j][i] = p[k][i]
           Breaks     == {k \in j..Len(b) : ~Extends(k)}
<1>2. Breaks = {}
  <2>1. SUFFICES ASSUME Breaks # {}
                 PROVE  FALSE
    OBVIOUS
  <2> HIDE DEF Extends
  <2>2. PICK k \in Breaks : \A i \in Breaks : k <= i
    <3>1. Breaks \in SUBSET Nat
      OBVIOUS
    <3>2. QED BY <2>1, <3>1, LeastNumber, Zenon
  <2>3. k # j
    BY <2>2 DEF Extends
  <2>4. k \in 1..Len(b) /\ k - 1 \in j..Len(b) /\ ~(k <= k - 1) /\ k - 1 \in 0..Len(b) /\ k \in 0..Len(b)
    BY <2>2, <2>3
  <2>5. Extends(k - 1)
    BY <2>2, <2>4, Zenon
  <2>a. b[k] \in ResultBatch /\ p[k - 1] \in Seq(Nat) /\ p[j] \in Seq(Nat)
    <3>1. b[k] \in ResultBatch
      BY <2>4, ElementOfSeq, Zenon
    <3>2. j \in 0..Len(b)
      OBVIOUS
    <3>3. QED BY <1>1, <2>4, <3>1, <3>2, Zenon
  <2>6. p[k] = p[k - 1] \o b[k].rows /\ b[k].rows \in Seq(Nat)
    <3>1. \A x \in ResultBatch : x.rows \in Seq(Nat)
      BY DEF ResultBatch
    <3>2. QED BY <1>1, <2>4, <2>a, <3>1, Zenon
  <2>7. Len(p[j]) <= Len(p[k - 1]) /\ \A i \in 1..Len(p[j]) : p[j][i] = p[k - 1][i]
    BY <2>5, Zenon DEF Extends
  <2>8. Len(p[j]) <= Len(p[k]) /\ \A i \in 1..Len(p[j]) : p[j][i] = p[k][i]
    <3> DEFINE u == p[j]
               s == p[k - 1]
               t == p[k]
               more == b[k].rows
    <3>1. /\ u \in Seq(Nat) /\ s \in Seq(Nat) /\ more \in Seq(Nat) /\ t = s \o more
          /\ Len(u) <= Len(s) /\ \A i \in 1..Len(u) : u[i] = s[i]
      BY <2>6, <2>7, <2>a, Zenon
    <3> HIDE DEF u, s, t, more
    <3>2. Len(u) <= Len(t) /\ \A i \in 1..Len(u) : u[i] = t[i]
      BY <3>1, ConcatenationStarts, SMTT(30)
    <3>3. QED BY <3>2, Zenon DEF u, t
  <2>9. Extends(k)
    BY <2>8, Zenon DEF Extends
  <2>10. QED BY <2>2, <2>9
<1>3. p[j] \in Seq(Nat) /\ p[m] \in Seq(Nat) /\ j \in 0..Len(b) /\ m \in 0..Len(b) /\ m \in j..Len(b)
  BY <1>1
<1>4. Extends(m)
  <2> HIDE DEF Extends
  <2>1. QED BY <1>2, <1>3, Zenon
<1>5. IsPrefix(p[j], p[m])
  BY <1>3, <1>4, PrefixPointwise, Zenon
<1>6. QED BY <1>1, <1>3, <1>5, Zenon

\* Rows served out of the batches before the first bad one are convertible.
LEMMA ServedIsConvertible ==
  ASSUME NEW b \in Seq(ResultBatch), NEW k \in 0..Len(b), \A i \in 1..k : ~b[i].bad,
         NEW got \in Seq(Nat), NEW rows \in Seq(Nat), got \o rows = RowsOf(SubSeq(b, 1, k))
  PROVE  IsPrefix(got, Convertible(b))
<1> DEFINE bads == {i \in DOMAIN b : b[i].bad}
           m    == FirstOr(bads, Len(b) + 1) - 1
<1>1. m \in k..Len(b)
  <2>1. CASE bads = {}
    BY <2>1 DEF FirstOr
  <2>2. CASE bads # {}
    <3>1. PICK n \in bads : \A i \in bads : n <= i
      <4>1. bads \in SUBSET Nat
        OBVIOUS
      <4>2. QED BY <2>2, <4>1, LeastNumber, Zenon
    <3>2. Min(bads) \in bads
      BY <3>1, Zenon DEF Min
    <3>3. FirstOr(bads, Len(b) + 1) = Min(bads)
      BY <2>2, Zenon DEF FirstOr
    <3> DEFINE first == Min(bads)
    <3>4. first \in 1..Len(b) /\ first \notin 1..k
      BY <3>2
    <3> HIDE DEF first
    <3>5. first - 1 \in k..Len(b)
      BY <3>4
    <3>6. QED BY <3>3, <3>5 DEF first
  <2>3. QED BY <2>1, <2>2
<1>2. Convertible(b) = RowsOf(SubSeq(b, 1, m))
  BY Zenon DEF Convertible
<1> HIDE DEF m
<1> DEFINE some == RowsOf(SubSeq(b, 1, k))
           all  == RowsOf(SubSeq(b, 1, m))
<1>3. some \in Seq(Nat) /\ all \in Seq(Nat) /\ IsPrefix(some, all)
  BY <1>1, FewerBatchesFirst
<1>4. some = got \o rows
  OBVIOUS
<1> HIDE DEF some, all
<1>5. Len(some) <= Len(all) /\ \A i \in 1..Len(some) : some[i] = all[i]
  BY <1>3, PrefixPointwise, SMTT(30)
<1>6. Len(got) <= Len(got) /\ \A i \in 1..Len(got) : got[i] = got[i]
  OBVIOUS
<1>7. Len(got) <= Len(some) /\ \A i \in 1..Len(got) : got[i] = some[i]
  BY <1>4, <1>6, ConcatenationStarts, SMTT(30)
<1>8. Len(got) <= Len(all) /\ \A i \in 1..Len(got) : got[i] = all[i]
  <2>1. Len(got) \in Nat /\ Len(some) \in Nat /\ Len(all) \in Nat
    BY <1>3
  <2>2. Len(got) <= Len(all) /\ \A i \in 1..Len(got) : i \in 1..Len(some)
    BY <1>5, <1>7, <2>1
  <2>3. QED BY <1>5, <1>7, <2>2, Zenon
<1>9. IsPrefix(got, all)
  BY <1>3, <1>8, PrefixPointwise, Zenon
<1>10. QED BY <1>2, <1>9 DEF all

-----------------------------------------------------------------------------
(* A query holds the batches it has not converted and the rows it has not   *)
(* served; with those the callback got they are the result so far.          *)
ServedUpTo(call, k) ==
  /\ call.todo = SubSeq(call.result, k + 1, Len(call.result))
  /\ \A i \in 1..k : ~call.result[i].bad
  /\ call.got \o call.rows = RowsOf(SubSeq(call.result, 1, k))

Served(call) ==
  call.op = "query" =>
    /\ call.phase \in {"drive", "stream", "callback"}
    /\ call.got \in Seq(Nat)
    /\ call.phase = "drive" => call.result = <<>> /\ call.got = <<>> /\ call.rows = <<>>
    /\ \E k \in 0..Len(call.result) : ServedUpTo(call, k)

ServedInv ==
  /\ \A i \in 1..Len(calls) : Served(calls[i])
  /\ last.op = "query" =>
       /\ IsPrefix(last.got, Convertible(last.result))
       /\ last.outcome = "ok" => last.got = RowsOf(last.result)

\* What the callback of a query has seen, and when it has seen all.
LEMMA ServedMeans ==
  ASSUME NEW call \in Call, Served(call), call.op = "query"
  PROVE  /\ IsPrefix(call.got, Convertible(call.result))
         /\ call.todo = <<>> /\ call.rows = <<>> => call.got = RowsOf(call.result)
<1> DEFINE b == call.result
<1>1. b \in Seq(ResultBatch) /\ call.rows \in Seq(Nat) /\ call.got \in Seq(Nat)
  BY DEF Call, ResultBatch, Served
<1>2. PICK k \in 0..Len(b) : ServedUpTo(call, k)
  BY DEF Served
<1>3. IsPrefix(call.got, Convertible(b))
  <2>1. (\A i \in 1..k : ~b[i].bad) /\ call.got \o call.rows = RowsOf(SubSeq(b, 1, k))
    BY <1>2 DEF ServedUpTo
  <2>2. QED BY <1>1, <2>1, ServedIsConvertible, Zenon
<1>4. ASSUME call.todo = <<>>, call.rows = <<>>
      PROVE  call.got = RowsOf(b)
  <2>1. k = Len(b)
    <3>1. SubSeq(b, k + 1, Len(b)) = <<>>
      BY <1>2, <1>4 DEF ServedUpTo
    <3>2. \A i \in (k + 1)..Len(b) : b[i] \in ResultBatch
      BY <1>1
    <3>3. Len(SubSeq(b, k + 1, Len(b))) = IF k + 1 <= Len(b) THEN Len(b) - (k + 1) + 1 ELSE 0
      BY <1>1, <3>2, SubSeqProperties
    <3>4. Len(<<>>) = 0
      OBVIOUS
    <3>5. (IF k + 1 <= Len(b) THEN Len(b) - (k + 1) + 1 ELSE 0) = 0
      BY <3>1, <3>3, <3>4, Zenon
    <3>6. Len(b) \in Nat /\ k \in 0..Len(b)
      BY <1>1
    <3>7. QED BY <3>5, <3>6
  <2>2. SubSeq(b, 1, Len(b)) = b
    BY <1>1, SubSeqFull, Zenon
  <2>3. call.got \o <<>> = call.got
    BY <1>1, ConcatEmptySeq, Zenon
  <2>4. call.got \o call.rows = RowsOf(SubSeq(b, 1, k))
    BY <1>2 DEF ServedUpTo
  <2>5. call.got = call.got \o call.rows
    BY <1>4, <2>3, Zenon
  <2>6. RowsOf(SubSeq(b, 1, k)) = RowsOf(b)
    BY <2>1, <2>2, Zenon
  <2>7. QED BY <2>4, <2>5, <2>6
<1>5. QED BY <1>3, <1>4

LEMMA ReplaceServes ==
  ASSUME StackInv, ServedInv, calls # <<>>, NEW call \in Call, Served(call), Replace(call)
  PROVE  ServedInv'
<1>1. calls' = Append(Front(calls), call) /\ calls \in Seq(Call) /\ last' = last
  BY DEF Replace, StackInv
<1>2. /\ Len(calls) \in Nat \ {0} /\ Front(calls) \in Seq(Call) /\ Len(Front(calls)) = Len(calls) - 1
      /\ \A i \in 1..(Len(calls) - 1) : Front(calls)[i] = calls[i]
  BY <1>1, FrontIsPrefix
<1>3. /\ Len(calls') = Len(Front(calls)) + 1 /\ calls'[Len(Front(calls)) + 1] = call
      /\ \A i \in 1..Len(Front(calls)) : calls'[i] = Front(calls)[i]
  BY <1>1, <1>2, AppendProperties
<1>4. /\ Len(calls') = Len(calls) /\ calls'[Len(calls)] = call
      /\ \A i \in 1..(Len(calls) - 1) : calls'[i] = calls[i]
  BY <1>2, <1>3
<1>5. ASSUME NEW i \in 1..Len(calls')
      PROVE  Served(calls'[i])
  <2>1. CASE i = Len(calls)
    BY <1>4, <2>1
  <2>2. CASE i # Len(calls)
    <3>1. i \in 1..(Len(calls) - 1) /\ i \in 1..Len(calls)
      BY <1>2, <1>4, <2>2
    <3>2. calls'[i] = calls[i] /\ Served(calls[i])
      BY <1>4, <3>1, Zenon DEF ServedInv
    <3>3. QED BY <3>2
  <2>3. QED BY <2>1, <2>2
<1>6. QED BY <1>1, <1>5 DEF ServedInv

LEMMA TopIsServed == StackInv /\ ServedInv /\ calls # <<>> => Top \in Call /\ Served(Top)
<1>1. StackInv /\ calls # <<>> => Top \in Call /\ Len(calls) \in 1..Len(calls)
  BY TopIsCall DEF StackInv
<1>2. QED BY <1>1 DEF Top, Last, ServedInv

LEMMA ReturnServes ==
  ASSUME StackInv, ServedInv, calls # <<>>, NEW outcome, Return(outcome),
         Top.op = "query" /\ outcome = "ok" => Top.todo = <<>> /\ Top.rows = <<>>
  PROVE  ServedInv'
<1>1. calls' = Front(calls) /\ calls \in Seq(Call)
  BY DEF Return, StackInv
<1>2. /\ Len(calls) \in Nat \ {0} /\ Len(calls') = Len(calls) - 1
      /\ \A i \in 1..(Len(calls) - 1) : calls'[i] = calls[i]
  BY <1>1, FrontIsPrefix
<1>3. ASSUME NEW i \in 1..Len(calls')
      PROVE  Served(calls'[i])
  <2>1. i \in 1..(Len(calls) - 1) /\ i \in 1..Len(calls)
    BY <1>2
  <2>2. QED BY <1>2, <2>1 DEF ServedInv
<1>4. /\ last'.op = Top.op /\ last'.outcome = outcome
      /\ last'.result = Top.result /\ last'.got = Top.got
  BY DEF Return
<1>5. ASSUME Top.op = "query"
      PROVE  /\ IsPrefix(Top.got, Convertible(Top.result))
             /\ outcome = "ok" => Top.got = RowsOf(Top.result)
  BY <1>5, TopIsServed, ServedMeans
<1>6. QED BY <1>3, <1>4, <1>5, Zenon DEF ServedInv

LEMMA BeginServes ==
  ASSUME StackInv, ServedInv, NEW op, NEW c, NEW phase, op = "query" => phase = "drive",
         Begin(op, c, phase), UNCHANGED last
  PROVE  ServedInv'
<1> DEFINE call == [op |-> op, conn |-> c, phase |-> phase,
                    result |-> <<>>, todo |-> <<>>, rows |-> <<>>, got |-> <<>>]
<1>1. Served(call)
  <2>1. ServedUpTo(call, 0)
    <3>1. SubSeq(call.result, 0 + 1, Len(call.result)) = <<>>
          /\ SubSeq(call.result, 1, 0) = <<>> /\ SubSeq(<<>>, 1, 0) = <<>>
      BY SubSeqEmpty
    <3>2. call.got \o call.rows = <<>>
      OBVIOUS
    <3>3. RowsOf(SubSeq(call.result, 1, 0)) = <<>>
      <4>1. <<>> \in Seq(ResultBatch) /\ Len(<<>>) = 0 /\ 0 \in 0..0
        OBVIOUS
      <4>2. RowsOf(SubSeq(<<>>, 1, 0)) = <<>>
        BY <4>1, RowsUnrolled
      <4>3. QED BY <4>2
    <3>4. QED BY <3>1, <3>2, <3>3 DEF ServedUpTo
  <2>2. 0 \in 0..Len(call.result)
    OBVIOUS
  <2>3. QED BY <2>1, <2>2 DEF Served
<1>2. calls' = Append(calls, call) /\ calls \in Seq(Call)
  BY DEF Begin, StackInv
<1>3. ASSUME NEW i \in 1..Len(calls')
      PROVE  Served(calls'[i])
  <2> HIDE DEF call
  <2>1. CASE i = Len(calls) + 1
    BY <1>1, <1>2, <2>1
  <2>2. CASE i # Len(calls) + 1
    <3>1. i \in 1..Len(calls) /\ calls'[i] = calls[i]
      BY <1>2, <2>2
    <3>2. QED BY <3>1 DEF ServedInv
  <2>3. QED BY <2>1, <2>2
<1>4. QED BY <1>3 DEF ServedInv

\* The next batch of a query: its rows follow those of the batches before.
LEMMA BatchServes ==
  ASSUME NEW call \in Call, Served(call), call.op = "query", call.phase = "stream",
         call.rows = <<>>, call.todo # <<>>, ~Head(call.todo).bad
  PROVE  LET next == [call EXCEPT !.rows = Head(call.todo).rows, !.todo = Tail(call.todo)]
         IN  next \in Call /\ Served(next)
<1> DEFINE b    == call.result
           rows == Head(call.todo).rows
           todo == Tail(call.todo)
           next == [call EXCEPT !.rows = rows, !.todo = todo]
<1>1. /\ b \in Seq(ResultBatch) /\ call.todo \in Seq(ResultBatch) /\ call.got \in Seq(Nat)
      /\ Len(b) \in Nat
  BY DEF Call, ResultBatch, Served
<1>2. PICK k \in 0..Len(b) : ServedUpTo(call, k)
  BY DEF Served
<1>3. k + 1 \in 1..Len(b)
  <2>1. call.todo = SubSeq(b, k + 1, Len(b))
    BY <1>2 DEF ServedUpTo
  <2>2. ~(Len(b) < k + 1)
    BY <1>1, <2>1, SubSeqEmpty
  <2>3. QED BY <1>1, <2>2
<1>4. Head(call.todo) = b[k + 1] /\ todo = SubSeq(b, k + 2, Len(b))
  <2>1. Len(b) \in (k + 1)..Len(b) /\ (k + 1) + 1 = k + 2
    BY <1>1, <1>3
  <2>2. Head(SubSeq(b, k + 1, Len(b))) = b[k + 1]
        /\ Tail(SubSeq(b, k + 1, Len(b))) = SubSeq(b, (k + 1) + 1, Len(b))
    BY <1>1, <1>3, <2>1, HeadTailOfSubSeq
  <2>3. QED BY <1>2, <2>1, <2>2 DEF ServedUpTo
<1>5. rows \in Seq(Nat) /\ todo \in Seq(ResultBatch) /\ ~b[k + 1].bad /\ rows = b[k + 1].rows
  <2>1. b[k + 1] \in ResultBatch
    BY <1>1, <1>3, ElementOfSeq, Zenon
  <2>2. b[k + 1].rows \in Seq(Nat)
    BY <2>1 DEF ResultBatch
  <2>3. todo \in Seq(ResultBatch)
    BY <1>1, HeadTailProperties, Zenon
  <2>4. QED BY <1>4, <2>2, <2>3
<1>6. call.got \o rows = RowsOf(SubSeq(b, 1, k + 1))
  <2>1. PICK p \in [0..Len(b) -> Seq(Nat)] :
          /\ \A i \in 1..Len(b) : p[i] = p[i - 1] \o b[i].rows
          /\ \A i \in 0..Len(b) : RowsOf(SubSeq(b, 1, i)) = p[i]
    BY <1>1, RowsUnrolled, Zenon
  <2>2. p[k + 1] = p[k] \o rows
    <3>1. (k + 1) - 1 = k
      BY <1>1
    <3>2. p[k + 1] = p[(k + 1) - 1] \o b[k + 1].rows
      BY <1>3, <2>1, Zenon
    <3>3. QED BY <1>5, <3>1, <3>2
  <2>3. call.got \o <<>> = p[k]
    BY <1>2, <2>1 DEF ServedUpTo
  <2>4. call.got = p[k]
    BY <1>1, <2>3, ConcatEmptySeq
  <2>5. k + 1 \in 0..Len(b)
    BY <1>1, <1>3
  <2>6. RowsOf(SubSeq(b, 1, k + 1)) = p[k + 1]
    BY <2>1, <2>5, Zenon
  <2>7. QED BY <2>2, <2>4, <2>6
<1> HIDE DEF rows, todo
<1>7. /\ next \in Call /\ next.op = "query" /\ next.phase = "stream" /\ next.got = call.got
      /\ next.result = b /\ next.rows = rows /\ next.todo = todo
  BY <1>5 DEF Call, ResultBatch
<1>8. ServedUpTo(next, k + 1)
  <2>1. (k + 1) + 1 = k + 2 /\ \A i \in 1..(k + 1) : i = k + 1 \/ i \in 1..k
    BY <1>1
  <2>2. \A i \in 1..(k + 1) : ~b[i].bad
    BY <1>2, <1>5, <2>1 DEF ServedUpTo
  <2> HIDE DEF next
  <2>3. QED BY <1>4, <1>6, <1>7, <2>1, <2>2 DEF ServedUpTo
<1>9. Served(next)
  <2> HIDE DEF next
  <2>1. k + 1 \in 0..Len(b)
    BY <1>1, <1>3
  <2>2. QED BY <1>1, <1>7, <1>8, <2>1 DEF Served
<1>10. QED BY <1>7, <1>9 DEF rows, todo

\* Every row goes to the callback in its turn.
LEMMA RowServes ==
  ASSUME NEW call \in Call, Served(call), call.op = "query", call.rows # <<>>,
         call.phase = "stream"
  PROVE  LET next == [call EXCEPT !.phase = "callback", !.rows = Tail(call.rows),
                                  !.got = Append(call.got, Head(call.rows))]
         IN  next \in Call /\ Served(next)
<1> DEFINE b    == call.result
           rows == Tail(call.rows)
           got  == Append(call.got, Head(call.rows))
           next == [call EXCEPT !.phase = "callback", !.rows = rows, !.got = got]
<1>1. call.rows \in Seq(Nat) /\ call.got \in Seq(Nat)
  BY DEF Call, Served
<1>2. rows \in Seq(Nat) /\ got \in Seq(Nat) /\ got \o rows = call.got \o call.rows
  <2>1. \A s \in Seq(Nat), t \in Seq(Nat) :
          t # <<>> => /\ Tail(t) \in Seq(Nat) /\ Append(s, Head(t)) \in Seq(Nat)
                      /\ Append(s, Head(t)) \o Tail(t) = s \o t
    OBVIOUS
  <2>2. QED BY <1>1, <2>1
<1>3. got \in Seq(Nat \cup {"ok", "error"})
  BY <1>2, SeqMonotonic
<1>4. PICK k \in 0..Len(b) : ServedUpTo(call, k)
  BY DEF Served
<1> HIDE DEF rows, got
<1>5. /\ next \in Call /\ next.op = "query" /\ next.phase = "callback" /\ next.got = got
      /\ next.result = b /\ next.rows = rows /\ next.todo = call.todo
  BY <1>2, <1>3 DEF Call, Phases
<1>6. ServedUpTo(next, k)
  <2> HIDE DEF next
  <2>1. QED BY <1>2, <1>4, <1>5 DEF ServedUpTo
<1>7. Served(next)
  <2> HIDE DEF next
  <2>1. QED BY <1>2, <1>4, <1>5, <1>6 DEF Served
<1>8. QED BY <1>5, <1>7 DEF rows, got

\* What a fetch answered is served from its first batch on.
LEMMA FetchServes ==
  ASSUME NEW call \in Call, Served(call), call.op = "query", call.phase = "drive",
         NEW result \in Results
  PROVE  LET next == [call EXCEPT !.phase = "stream", !.result = result, !.todo = result]
         IN  next \in Call /\ Served(next)
<1> DEFINE next == [call EXCEPT !.phase = "stream", !.result = result, !.todo = result]
<1>1. result \in Seq(ResultBatch)
  BY BackAssumption DEF ResultBatch
<1>2. call.rows = <<>> /\ call.got = <<>> /\ call.got \in Seq(Nat)
  BY DEF Served
<1>3. /\ next \in Call /\ next.op = "query" /\ next.phase = "stream" /\ next.got = <<>>
      /\ next.result = result /\ next.rows = <<>> /\ next.todo = result
  BY <1>1, <1>2 DEF Call, Phases, ResultBatch
<1>4. ServedUpTo(next, 0)
  <2>1. SubSeq(result, 0 + 1, Len(result)) = result
    BY <1>1, SubSeqFull
  <2>2. RowsOf(SubSeq(result, 1, 0)) = <<>>
    <3>1. 0 \in 0..Len(result)
      BY <1>1
    <3>2. QED BY <1>1, <3>1, RowsUnrolled
  <2>3. <<>> \o <<>> = <<>>
    OBVIOUS
  <2> HIDE DEF next
  <2>4. QED BY <1>3, <2>1, <2>2, <2>3 DEF ServedUpTo
<1>5. Served(next)
  <2> HIDE DEF next
  <2>1. 0 \in 0..Len(result)
    BY <1>1
  <2>2. QED BY <1>2, <1>3, <1>4, <2>1 DEF Served
<1>6. QED BY <1>3, <1>5

LEMMA BackStepServes ==
  ASSUME StackInv, ServedInv, BackStep \/ ShutdownAnswers
  PROVE  ServedInv'
<1> USE DEF Streaming
<1>1. ASSUME NEW c \in Conns, OpenConnection(c) \/ DropConnection(c)
             \/ \E op \in Operations : Operate(op, c)
      PROVE  ServedInv'
  <2>1. PICK op, phase :
          Begin(op, c, phase) /\ UNCHANGED last /\ (op = "query" => phase = "drive")
    BY <1>1 DEF OpenConnection, DropConnection, Operate, FirstPhase
  <2>2. QED BY <2>1, BeginServes
<1>2. ASSUME NEW c \in Conns, BatchWithoutDriver(c)
      PROVE  ServedInv'
  <2>1. UNCHANGED calls /\ last'.op = "batch"
    BY <1>2 DEF BatchWithoutDriver, Nothing
  <2>2. QED BY <2>1 DEF ServedInv
<1>3. CASE DriverAnswers \/ ShutdownAnswers
  <2>1. PICK outcome : calls # <<>> /\ Return(outcome) /\ Top.op # "query"
    BY <1>3 DEF DriverAnswers, ShutdownAnswers
  <2>2. QED BY <2>1, ReturnServes
<1>4. CASE FetchAnswers
  <2>1. calls # <<>> /\ Top \in Call /\ Served(Top) /\ Top.op = "query" /\ Top.phase = "drive"
    BY <1>4, TopIsServed DEF FetchAnswers
  <2>2. CASE Return("error")
    BY <2>1, <2>2, ReturnServes
  <2>3. ASSUME NEW result \in Results,
               Replace([Top EXCEPT !.phase = "stream", !.result = result, !.todo = result])
        PROVE  ServedInv'
    <3> DEFINE next == [Top EXCEPT !.phase = "stream", !.result = result, !.todo = result]
    <3>1. next \in Call /\ Served(next)
      BY <2>1, FetchServes
    <3> HIDE DEF next
    <3>2. Replace(next)
      BY <2>3 DEF next
    <3>3. QED BY <2>1, <3>1, <3>2, ReplaceServes
  <2>4. QED BY <1>4, <2>2, <2>3 DEF FetchAnswers
<1>5. CASE NextBatch
  <2>1. calls # <<>> /\ Top \in Call /\ Served(Top) /\ Top.phase = "stream"
        /\ Top.rows = <<>> /\ Top.todo # <<>>
    BY <1>5, TopIsServed DEF NextBatch
  <2>2. CASE Return("error")
    BY <2>1, <2>2, ReturnServes
  <2> DEFINE next == [Top EXCEPT !.rows = Head(Top.todo).rows, !.todo = Tail(Top.todo)]
  <2>3. CASE ~Head(Top.todo).bad /\ Replace(next)
    <3>1. next \in Call /\ Served(next)
      <4>1. CASE Top.op = "query"
        BY <2>1, <2>3, <4>1, BatchServes
      <4>2. CASE Top.op # "query"
        <5>1. Head(Top.todo).rows \in Seq(Nat) /\ Tail(Top.todo) \in Seq(ResultBatch)
          <6>1. Top.todo \in Seq(ResultBatch)
            BY <2>1 DEF Call, ResultBatch
          <6>2. Head(Top.todo) \in ResultBatch /\ Tail(Top.todo) \in Seq(ResultBatch)
            BY <2>1, <6>1, HeadTailProperties, Zenon
          <6>3. QED BY <6>2 DEF ResultBatch
        <5>2. \A rows \in Seq(Nat), todo \in Seq(ResultBatch) :
                LET x == [Top EXCEPT !.rows = rows, !.todo = todo]
                IN  x \in Call /\ x.op = Top.op
          BY <2>1 DEF Call, ResultBatch
        <5>3. next \in Call /\ next.op = Top.op
          BY <5>1, <5>2
        <5> HIDE DEF next
        <5>4. QED BY <4>2, <5>3 DEF Served
      <4>3. QED BY <4>1, <4>2
    <3> HIDE DEF next
    <3>2. Replace(next)
      BY <2>3
    <3>3. QED BY <2>1, <3>1, <3>2, ReplaceServes
  <2>4. QED BY <1>5, <2>2, <2>3 DEF NextBatch
<1>6. CASE ServeRow
  <2> DEFINE next == [Top EXCEPT !.phase = "callback", !.rows = Tail(Top.rows),
                                 !.got = Append(Top.got, Head(Top.rows))]
  <2>1. calls # <<>> /\ Top \in Call /\ Served(Top) /\ Top.phase = "stream"
        /\ Top.rows # <<>> /\ Replace(next)
    BY <1>6, TopIsServed DEF ServeRow
  <2>2. next \in Call /\ Served(next)
    <3>1. CASE Top.op = "query"
      BY <2>1, <3>1, RowServes
    <3>2. CASE Top.op # "query"
      <4>1. Tail(Top.rows) \in Seq(Nat)
            /\ Append(Top.got, Head(Top.rows)) \in Seq(Nat \cup {"ok", "error"})
        BY <2>1 DEF Call
      <4>2. next \in Call /\ next.op = Top.op
        BY <2>1, <4>1 DEF Call, Phases
      <4> HIDE DEF next
      <4>3. QED BY <3>2, <4>2 DEF Served
    <3>3. QED BY <3>1, <3>2
  <2> HIDE DEF next
  <2>3. QED BY <2>1, <2>2, ReplaceServes
<1>7. CASE CallbackReturns
  <2> DEFINE next == [Top EXCEPT !.phase = "stream"]
  <2>1. calls # <<>> /\ Top \in Call /\ Served(Top) /\ Top.phase = "callback"
        /\ (Replace(next) \/ Return("error"))
    BY <1>7, TopIsServed DEF CallbackReturns
  <2>2. CASE Return("error")
    BY <2>1, <2>2, ReturnServes
  <2>3. CASE Replace(next)
    <3>1. /\ next \in Call /\ next.op = Top.op /\ next.phase = "stream" /\ next.got = Top.got
          /\ next.result = Top.result /\ next.rows = Top.rows /\ next.todo = Top.todo
      BY <2>1 DEF Call, Phases
    <3> HIDE DEF next
    <3>2. \A k \in 0..Len(Top.result) : ServedUpTo(Top, k) => ServedUpTo(next, k)
      BY <3>1 DEF ServedUpTo
    <3>3. Served(next)
      BY <2>1, <3>1, <3>2 DEF Served
    <3>4. QED BY <2>1, <2>3, <3>1, <3>3, ReplaceServes
  <2>4. QED BY <2>1, <2>2, <2>3
<1>8. CASE QueryReturns
  BY <1>8, ReturnServes DEF QueryReturns
<1>9. CASE Prepared \/ Executed \/ Closed
  <2>1. calls # <<>> /\ Top \in Call /\ Top.op # "query"
        /\ Top.phase \in {"prepare", "execute", "close"}
    BY <1>9, TopIsServed DEF Prepared, Executed, Closed, Served
  <2>2. ASSUME NEW outcome, Return(outcome)
        PROVE  ServedInv'
    BY <2>1, <2>2, ReturnServes
  <2>3. ASSUME NEW call \in Call, call.op = Top.op, Replace(call)
        PROVE  ServedInv'
    <3>1. Served(call)
      BY <2>1, <2>3 DEF Served
    <3>2. QED BY <2>1, <2>3, <3>1, ReplaceServes
  <2>4. \A outcome \in {"ok", "error"} : <<outcome>> \in Seq(Nat \cup {"ok", "error"})
    OBVIOUS
  <2>5. [Top EXCEPT !.phase = "execute"] \in Call /\ [Top EXCEPT !.phase = "execute"].op = Top.op
    BY <2>1 DEF Call, Phases, Driving
  <2>6. ASSUME NEW outcome \in {"ok", "error"}
        PROVE  LET x == [Top EXCEPT !.phase = "close", !.got = <<outcome>>]
               IN  x \in Call /\ x.op = Top.op
    BY <2>1, <2>4 DEF Call, Phases, Driving
  <2>7. QED BY <1>9, <2>2, <2>3, <2>5, <2>6 DEF Prepared, Executed, Closed
<1>10. QED
  BY <1>1, <1>2, <1>3, <1>4, <1>5, <1>6, <1>7, <1>8, <1>9 DEF BackStep

LEMMA ServedInitially == Init => ServedInv
  BY DEF Init, BackInit, Nothing, ServedInv

LEMMA ServedStep == StackInv /\ ServedInv /\ [Next]_vars => ServedInv'
<1> SUFFICES ASSUME StackInv, ServedInv, [Next]_vars
             PROVE  ServedInv'
  OBVIOUS
<1>a. ASSUME UNCHANGED calls \/ calls' = <<>>, UNCHANGED last \/ last' = Nothing
      PROVE  ServedInv'
  BY <1>a DEF ServedInv, Nothing
<1>1. CASE UsesConnectBack
  BY <1>1, BackStepServes DEF UsesConnectBack
<1>2. CASE DropsLocals
  <2>1. CASE ShutdownAnswers
    BY <2>1, BackStepServes
  <2>2. ASSUME NEW c \in Conns, DropConnection(c)
        PROVE  ServedInv'
    BY <2>2, BeginServes DEF DropConnection
  <2>3. QED BY <1>2, <2>1, <2>2 DEF DropsLocals
<1>3. CASE \E how \in {"ok", "error", "mute", "panic"} : UdfEnds(how)
  BY <1>3, <1>a DEF UdfEnds
<1>4. ASSUME NEW s \in Slots, SkipSlot(s) \/ CallSlot(s)
      PROVE  ServedInv'
  BY <1>4, <1>a DEF SkipSlot, CallSlot, backVars
<1>5. CASE (ArtifactStep /\ UNCHANGED backVars) \/ RefuseArgument \/ ContextFails \/ ShimReturns
             \/ HostTakes \/ Finish \/ UNCHANGED vars
  BY <1>5, <1>a DEF RefuseArgument, ContextFails, ShimReturns, HostTakes, Finish, vars, backVars
<1>6. QED
  BY <1>1, <1>2, <1>3, <1>4, <1>5 DEF Next, Terminated

(* query_for_each hands its rows to the callback in the order of the        *)
(* result, each once, up to the first error, and returns Ok only when the   *)
(* callback has seen all of them: for any results, any depth of queries     *)
(* begun in callbacks and any end of the UDF (connect_back.rs               *)
(* query_for_each, record_batch_to_rows).                                   *)
THEOREM RowsServedInOrder == Spec => []RowsUntilError
<1>1. StackInv /\ ServedInv => RowsUntilError
  <2> SUFFICES ASSUME StackInv, ServedInv
               PROVE  RowsUntilError
    OBVIOUS
  <2>1. ASSUME NEW i \in DOMAIN calls, calls[i].op = "query"
        PROVE  IsPrefix(calls[i].got, Convertible(calls[i].result))
    <3>1. calls[i] \in Call /\ Served(calls[i])
      BY DEF StackInv, ServedInv
    <3>2. QED BY <2>1, <3>1, ServedMeans
  <2>2. QED BY <2>1 DEF RowsUntilError, ServedInv
<1>2. BackInv => StackInv
  BY DEF BackInv
<1>3. QED
  BY <1>1, <1>2, BackInitially, BackInvStep, ServedInitially, ServedStep, PTL DEF Spec
=============================================================================
