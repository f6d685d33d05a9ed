------------------------------- MODULE Validate -------------------------------
(***************************************************************************)
(* cargo exasol-udf validate: what the author's tool says of a compiled    *)
(* shared object, and what the dynamic loader of the container (not in     *)
(* this repository) does with it.                                          *)
(*                                                                         *)
(* A shared object is [entries, libs, versions]: its exported entries      *)
(* [name, sdk], its DT_NEEDED sonames, and the symbol versions [of, parts] *)
(* it refers to; parts is empty where the version is no number.            *)
(***************************************************************************)
EXTENDS Naturals, Sequences

CONSTANTS
  HostSdk,     \* the [abi, print] the tool and the host were built against
  Staged,      \* slc-library-surface.txt: the sonames the container stages
  Floor,       \* slc-glibc-floor.txt: the version of its libc.so.6
  Shipped      \* the symbol versions that libc.so.6 defines

-----------------------------------------------------------------------------
\* GlibcVersion's order: component by component, a prefix before what it begins.
Precedes(v, w) ==
  \E i \in DOMAIN w :
    /\ \A j \in 1..(i - 1) : j \in DOMAIN v /\ v[j] = w[j]
    /\ i \notin DOMAIN v \/ v[i] < w[i]

\* Names such as GLIBC_PRIVATE are no versions; other libraries' do not count.
GlibcVersions(object) ==
  {version.parts : version \in {x \in object.versions : x.of = "GLIBC" /\ x.parts # <<>>}}

\* The highest reference, if there is one.
MaxGlibcVersion(object) ==
  {v \in GlibcVersions(object) : \A w \in GlibcVersions(object) : ~Precedes(v, w)}

\* Mutant: the floor itself is refused.
ReachesFloor(object) == \E v \in MaxGlibcVersion(object) : ~Precedes(v, Floor)

ExceedsFloor(object) == \E v \in MaxGlibcVersion(object) : Precedes(Floor, v)

\* The dynamic loader and the vdso are never staged files.
Builtin == {"ld-linux-x86-64.so.2", "ld-linux-aarch64.so.1", "linux-vdso.so.1"}

UnknownSonames(object) == object.libs \ (Staged \cup Builtin)

\* Mutant: the fingerprint is not compared.
VtableErrorsOfAbi(object) == {entry \in object.entries : entry.sdk.abi # HostSdk.abi}

\* verify_vtables probes every entry.
VtableErrors(object) ==
  {entry \in object.entries : entry.sdk.abi # HostSdk.abi \/ entry.sdk.print # HostSdk.print}

(* The verdict, and with --deny-unknown-deps what is otherwise a warning.   *)
Validates(object, denyUnknownDeps) ==
  /\ object.entries # {}
  /\ ~ExceedsFloor(object)
  /\ denyUnknownDeps => UnknownSonames(object) = {}
  /\ VtableErrors(object) = {}

-----------------------------------------------------------------------------
\* dlopen in the container finds every library, and every version in its libc.
ContainerLoads(object) ==
  /\ object.libs \subseteq Staged \cup Builtin
  /\ \A version \in object.versions : version.of = "GLIBC" => version \in Shipped
=============================================================================
