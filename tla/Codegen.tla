------------------------------ MODULE Codegen -------------------------------
(***************************************************************************)
(* clamator-codegen: a run loads the contracts of a source directory       *)
(* (load.ts), lowers them (lower.ts) and writes, as its options ask, one   *)
(* TypeScript file per contract (emit-ts.ts), one Python file per contract *)
(* (emit-py.ts) and a manifest of schema hashes (manifest.ts). The order   *)
(* is that of cli.ts. The files outlive a run: whatever a run that fails   *)
(* has written stays, and nothing is ever removed but temporary            *)
(* directories.                                                            *)
(*                                                                         *)
(* A file is the version of the contract it was generated from. A          *)
(* TypeScript file has only the method names of that version: it imports   *)
(* <service>Contract for the types of params and results, and has those    *)
(* of the source file that its import path names. A source file exports at *)
(* most one contract of a service, under that name. Services and source    *)
(* files are numbers in the order localeCompare puts them.                 *)
(***************************************************************************)
EXTENDS Integers, FiniteSets, Sequences

CONSTANTS
  Service,
  File,       \* source files
  Version,    \* versions of a contract
  Methods,    \* the method names of each version
  Imported,   \* the file --ts-contract-import names for a service, if any
  MaxEdits,   \* bound: edits of the sources
  MaxFails    \* bound: runs that fail or are killed

Absent == 0    \* no such contract, no such file
Torn == -1     \* a file whose write was cut off

ASSUME CodegenAssumption ==
  /\ Service \subseteq Nat /\ File \subseteq Nat
  /\ Version \subseteq Nat \ {Absent}
  /\ \A s \in Service : Imported[s] \in Nat
  /\ MaxEdits \in Nat /\ MaxFails \in Nat

\* there is a last source file, if there is any
ASSUME FilesAssumption == File = {} \/ \E f \in File : \A g \in File : g <= f

\* METHOD_RE: a method name starts with a lower case letter
ASSUME NamesAssumption ==
  \A v \in Version :
    /\ IsFiniteSet(Methods[v])
    /\ \A m \in Methods[v] : m \in Seq({"a", "A", "1"}) /\ m # <<>> /\ m[1] = "a"

VARIABLES
  exports,   \* exports[f][s]: the contract of service s that file f exports
  \* the run
  ir,        \* the contracts it has loaded
  wanted,    \* outputs its options ask for
  left,      \* outputs it has not finished; {} between runs
  todo,      \* contracts it has not written to the current output
  temp,      \* does it have a temporary directory
  \* the disk
  ts,        \* the contract whose method names each TypeScript wrapper has
  py, manifest,
  leaked,    \* temporary directories left behind
  \* history
  complete,  \* did the last run ask for all outputs and finish
  edits, fails

runVars == <<ir, wanted, left, todo, temp>>
vars == <<exports, runVars, ts, py, manifest, leaked, complete, edits, fails>>

-----------------------------------------------------------------------------
(* Contracts and names.                                                    *)

Contract == Service \X File

\* loadContracts: every contract that any file exports, so that one service may
\* come twice
Loaded(x) == {c \in Contract : x[c[2]][c[1]] # Absent}

\* its order: by service, then by file
First(C) == CHOOSE c \in C : \A d \in C : c[1] < d[1] \/ (c[1] = d[1] /\ c[2] <= d[2])

\* what a map keyed by service holds after all contracts went into it in order
Last(x, s) ==
  LET F == {f \in File : x[f][s] # Absent}
  IN  IF F = {} THEN Absent ELSE x[CHOOSE f \in F : \A g \in F : g <= f][s]

\* the contract of service s that a TypeScript wrapper imports its types from, as soon
\* as the sources change: the one in the file contractImportPath names, whichever file
\* the wrapper was generated for
Types(s) == IF Imported[s] \in File THEN exports[Imported[s]][s] ELSE Absent

\* A method name is a sequence of "a" (any lower case letter), "A" (upper case)
\* and "1" (a digit): two names with different letters never get one attribute.
Upper(m, i) == i \in DOMAIN m /\ m[i] = "A"
Lower(m, i) == i \in DOMAIN m /\ m[i] = "a"

\* the start of the run of capitals that i is in
RunStart(m, i) ==
  CHOOSE j \in 1..i : (\A k \in j..i : Upper(m, k)) /\ ~Upper(m, j - 1)

\* mutant: the third replace is left out
CamelToSnakeShort(m) ==
  [letters |-> [i \in DOMAIN m |-> IF m[i] = "A" THEN "a" ELSE m[i]],
   breaks  |-> {i \in DOMAIN m : Upper(m, i + 1) /\ (~Upper(m, i) \/ Lower(m, i + 2))}]

\* camelToSnake: the name in lower case, and the places an underscore goes after.
\* The matches of the third replace do not overlap, so that in a run of capitals
\* only every other pair is split.
CamelToSnake(m) ==
  [letters |-> [i \in DOMAIN m |-> IF m[i] = "A" THEN "a" ELSE m[i]],
   breaks  |-> {i \in DOMAIN m :
                  /\ Upper(m, i + 1)
                  /\ \/ ~Upper(m, i)
                     \/ Lower(m, i + 2)
                     \/ (i - RunStart(m, i)) % 2 = 0}]

\* METHODS of the Python file generated from a version: its handler_attr by wire name
HandlerAttr == [v \in Version |-> [m \in Methods[v] |-> CamelToSnake(m)]]

-----------------------------------------------------------------------------
(* The sources, and a run.                                                 *)

Edit(f, s, v) ==
  /\ left = {}
  /\ edits < MaxEdits /\ edits' = edits + 1
  /\ exports[f][s] # v
  /\ exports' = [exports EXCEPT ![f][s] = v]
  /\ UNCHANGED <<runVars, ts, py, manifest, leaked, complete, fails>>

\* runCli up to its first output; without contracts it returns at once
Begin(outputs) ==
  /\ left = {} /\ outputs # {}
  /\ Loaded(exports) # {}
  /\ ir' = exports
  /\ wanted' = outputs /\ left' = outputs
  /\ todo' = Loaded(exports)
  /\ complete' = FALSE
  /\ UNCHANGED <<exports, temp, ts, py, manifest, leaked, edits, fails>>

\* mutant: the manifest is written before the wrappers
ManifestFirst ==
  IF "manifest" \in left THEN "manifest" ELSE IF "ts" \in left THEN "ts" ELSE "py"

\* the output the run is at
Output == IF "ts" \in left THEN "ts" ELSE IF "py" \in left THEN "py" ELSE "manifest"

\* mutant: the contracts are an iterator that the first output uses up
FinishUsesUp(output) ==
  /\ left' = left \ {output}
  /\ todo' = {}
  /\ complete' = (left = {output} /\ wanted = {"ts", "py", "manifest"})

\* output is finished; the next one starts with the first contract again
Finish(output) ==
  /\ left' = left \ {output}
  /\ todo' = Loaded(ir)
  /\ complete' = (left = {output} /\ wanted = {"ts", "py", "manifest"})

\* contract c has been written to the current output
Written(c) ==
  IF todo = {c} THEN Finish(Output)
                ELSE todo' = todo \ {c} /\ UNCHANGED <<left, complete>>

Put(files, c) == [files EXCEPT ![c[1]] = ir[c[2]][c[1]]]

\* emitTs: one file per contract, named for the service, with its method names
EmitTs ==
  /\ left # {} /\ Output = "ts"
  /\ ts' = Put(ts, First(todo))
  /\ Written(First(todo))
  /\ UNCHANGED <<exports, ir, wanted, temp, py, manifest, leaked, edits, fails>>

\* emitPy: mkdtemp in the output directory, for the schema and the models
MakeTemp ==
  /\ left # {} /\ Output = "py" /\ ~temp
  /\ temp' = TRUE
  /\ UNCHANGED <<exports, ir, wanted, left, todo, ts, py, manifest, leaked, complete, edits, fails>>

\* mutant: the directory is not removed
EmitPyKeepsTemp ==
  /\ left # {} /\ Output = "py" /\ temp
  /\ temp' = FALSE /\ leaked' = leaked + 1
  /\ py' = Put(py, First(todo))
  /\ Written(First(todo))
  /\ UNCHANGED <<exports, ir, wanted, ts, manifest, edits, fails>>

\* datamodel-codegen has exited with 0, the directory goes, the file is written
EmitPy ==
  /\ left # {} /\ Output = "py" /\ temp
  /\ temp' = FALSE
  /\ py' = Put(py, First(todo))
  /\ Written(First(todo))
  /\ UNCHANGED <<exports, ir, wanted, ts, manifest, leaked, edits, fails>>

\* mutant: of two contracts of a service the manifest keeps the first
WriteManifestOfFirst ==
  /\ left # {} /\ Output = "manifest"
  /\ manifest' = [s \in Service |->
       IF \E c \in Loaded(ir) : c[1] = s
         THEN LET c == First({d \in Loaded(ir) : d[1] = s}) IN ir[c[2]][s]
         ELSE Absent]
  /\ Finish("manifest")
  /\ UNCHANGED <<exports, ir, wanted, temp, ts, py, leaked, edits, fails>>

\* writeManifest: the whole manifest in one write, from nothing
WriteManifest ==
  /\ left # {} /\ Output = "manifest"
  /\ manifest' = [s \in Service |-> Last(ir, s)]
  /\ Finish("manifest")
  /\ UNCHANGED <<exports, ir, wanted, temp, ts, py, leaked, edits, fails>>

\* the run fails at what it is doing, or is killed there: datamodel-codegen exits
\* with another code or is missing, a write is refused or cut off
Fail ==
  /\ left # {}
  /\ fails < MaxFails /\ fails' = fails + 1
  /\ left' = {} /\ temp' = FALSE
  /\ \/ leaked' = (IF temp THEN leaked + 1 ELSE leaked) /\ UNCHANGED <<ts, py, manifest>>
     \/ Output = "ts" /\ ts' = [ts EXCEPT ![First(todo)[1]] = Torn]
                      /\ UNCHANGED <<py, manifest, leaked>>
     \/ Output = "py" /\ temp /\ py' = [py EXCEPT ![First(todo)[1]] = Torn]
                              /\ UNCHANGED <<ts, manifest, leaked>>
     \/ Output = "manifest" /\ manifest' = [s \in Service |-> Torn]
                            /\ UNCHANGED <<ts, py, leaked>>
  /\ UNCHANGED <<exports, ir, wanted, todo, complete, edits>>

-----------------------------------------------------------------------------
\* any sources, and nothing generated yet
Init ==
  /\ exports \in [File -> [Service -> Version \cup {Absent}]]
  /\ ir = [f \in File |-> [s \in Service |-> Absent]]
  /\ wanted = {} /\ left = {} /\ todo = {} /\ temp = FALSE
  /\ ts = [s \in Service |-> Absent]
  /\ py = [s \in Service |-> Absent]
  /\ manifest = [s \in Service |-> Absent]
  /\ leaked = 0 /\ complete = FALSE /\ edits = 0 /\ fails = 0

Next ==
  \/ \E f \in File, s \in Service, v \in Version \cup {Absent} : Edit(f, s, v)
  \/ \E outputs \in SUBSET {"ts", "py", "manifest"} : Begin(outputs)
  \/ EmitTs \/ MakeTemp \/ EmitPy \/ WriteManifest \/ Fail

Spec == Init /\ [][Next]_vars

-----------------------------------------------------------------------------
(* Properties.                                                             *)

OnDisk == [Service -> Version \cup {Absent, Torn}]

\* Every variable keeps its type, and a temporary directory exists only while the
\* Python output is being written.
TypeOK ==
  /\ exports \in [File -> [Service -> Version \cup {Absent}]]
  /\ ir \in [File -> [Service -> Version \cup {Absent}]]
  /\ left \subseteq wanted /\ wanted \subseteq {"ts", "py", "manifest"}
  /\ todo \subseteq Contract /\ (left # {} => todo # {})
  /\ ts \in OnDisk /\ py \in OnDisk /\ manifest \in OnDisk
  /\ temp => left # {} /\ Output = "py"
  /\ leaked \in Nat /\ complete \in BOOLEAN /\ edits \in 0..MaxEdits /\ fails \in 0..MaxFails

\* Types has the contract that every output keeps: no later file exports the service.
ImportsLast(s) ==
  Types(s) # Absent /\ \A f \in File : exports[f][s] # Absent => f <= Imported[s]

\* After a run that wrote everything (runCli), whatever earlier runs left behind and
\* however many source files export a service, its Python wrapper, its manifest entry
\* and the method names of its TypeScript wrapper come from one contract. The types of
\* the TypeScript wrapper are that contract's only while the sources stay as the run
\* found them and the import path names the last file that exports the service; the
\* manifest does not speak for them otherwise.
CompleteRunAgrees ==
  complete => \A s \in Service :
    /\ manifest[s] = Last(ir, s)
    /\ manifest[s] # Absent => ts[s] = manifest[s] /\ py[s] = manifest[s]
    /\ exports = ir => (ImportsLast(s) => Types(s) = manifest[s])

\* A manifest never appears ahead of the wrappers asked for in its run: a run that
\* fails on a wrapper leaves the old manifest, which differs from a new one if the
\* contracts have changed, so that the drift check does not pass for wrappers that
\* were never written.
ManifestIsLast ==
  [][manifest' # manifest => \A s \in Service : manifest'[s] \in Version =>
       /\ "ts" \in wanted => ts[s] = manifest'[s]
       /\ "py" \in wanted => py[s] = manifest'[s]]_vars

\* A temporary directory stays behind only when a run fails (emitPy removes it
\* before it writes the file), at most one each time.
LeaksAreFailures == leaked <= fails

Acronym(m) == \E i \in DOMAIN m : Upper(m, i) /\ Upper(m, i + 1) /\ Upper(m, i + 2)

\* the versions in which two methods without three capitals in a row share one attribute
Colliding ==
  {v \in Version :
     LET plain == {m \in Methods[v] : ~Acronym(m)}
     IN  Cardinality({HandlerAttr[v][m] : m \in plain}) < Cardinality(plain)}

\* Names with no three capitals in a row get Python attributes of their own, so
\* that in a generated file no method takes the place of another and every wire
\* name reaches its own handler (camelToSnake; `getABC` and `getABc` share one).
HandlersAreDistinct == \A s \in Service : py[s] \notin Colliding
=============================================================================
