--------------------------- MODULE CodegenProofs ----------------------------
(***************************************************************************)
(* Proofs about Codegen for any services, source files, versions and       *)
(* bounds: what a run has written at each point of its order, and from     *)
(* that the agreement of wrappers and manifest; and, for method names of   *)
(* any length, that camelToSnake gives two names one attribute only when   *)
(* one has three capitals in a row.                                        *)
(***************************************************************************)
EXTENDS Codegen, FiniteSetTheorems, TLAPS

-----------------------------------------------------------------------------
(* Names.                                                                  *)

MethodName == {m \in Seq({"a", "A", "1"}) : m # <<>> /\ m[1] = "a"}

\* A capital that no capital precedes starts its run.
LEMMA RunStartHere ==
  ASSUME NEW m, NEW i \in Nat \ {0}, Upper(m, i), ~Upper(m, i - 1)
  PROVE  RunStart(m, i) = i
<1> DEFINE P(j) == (\A k \in j..i : Upper(m, k)) /\ ~Upper(m, j - 1)
<1>1. i \in 1..i /\ P(i)
  <2>1. \A k \in i..i : k = i
    OBVIOUS
  <2>2. QED
    BY <2>1
<1>2. ASSUME NEW j \in 1..i, P(j) PROVE j = i
  <2>1. j # i => i - 1 \in j..i
    OBVIOUS
  <2>2. QED
    BY <1>2, <2>1
<1> HIDE DEF P
<1>3. (CHOOSE j \in 1..i : P(j)) = i
  BY <1>1, <1>2
<1>4. QED
  BY <1>3 DEF RunStart, P

\* In a name without three capitals in a row, an underscore comes before each
\* capital and nowhere else.
LEMMA BreaksAreCapitals ==
  ASSUME NEW m \in Seq({"a", "A", "1"}), ~Acronym(m), NEW i \in DOMAIN m
  PROVE  i \in CamelToSnake(m).breaks <=> Upper(m, i + 1)
<1>1. CamelToSnake(m).breaks =
        {k \in DOMAIN m : /\ Upper(m, k + 1)
                          /\ \/ ~Upper(m, k)
                             \/ Lower(m, k + 2)
                             \/ (k - RunStart(m, k)) % 2 = 0}
  BY DEF CamelToSnake
<1>2. ASSUME Upper(m, i + 1), Upper(m, i) PROVE (i - RunStart(m, i)) % 2 = 0
  <2>1. i \in Nat \ {0}
    OBVIOUS
  <2>2. ~Upper(m, i - 1)
    <3>1. SUFFICES ASSUME Upper(m, i - 1) PROVE FALSE
      OBVIOUS
    <3>2. i - 1 \in DOMAIN m /\ (i - 1) + 1 = i /\ (i - 1) + 2 = i + 1
      BY <2>1, <3>1 DEF Upper
    <3>3. Acronym(m)
      BY <1>2, <3>1, <3>2 DEF Acronym
    <3>4. QED
      BY <3>3
  <2>3. RunStart(m, i) = i
    BY <1>2, <2>1, <2>2, RunStartHere
  <2>4. QED
    BY <2>1, <2>3
<1>3. QED
  BY <1>1, <1>2

\* camelToSnake is injective on such names, however long they are.
THEOREM CamelToSnakeInjective ==
  ASSUME NEW m \in MethodName, NEW n \in MethodName, ~Acronym(m), ~Acronym(n),
         CamelToSnake(m) = CamelToSnake(n)
  PROVE  m = n
<1>0. /\ m \in Seq({"a", "A", "1"}) /\ n \in Seq({"a", "A", "1"})
      /\ m[1] = "a" /\ n[1] = "a"
  BY DEF MethodName
<1>1. [i \in DOMAIN m |-> IF m[i] = "A" THEN "a" ELSE m[i]]
        = [i \in DOMAIN n |-> IF n[i] = "A" THEN "a" ELSE n[i]]
  BY DEF CamelToSnake
<1>2. DOMAIN m = DOMAIN n /\ Len(m) = Len(n)
  BY <1>0, <1>1
<1>3. ASSUME NEW i \in DOMAIN m
      PROVE  (IF m[i] = "A" THEN "a" ELSE m[i]) = (IF n[i] = "A" THEN "a" ELSE n[i])
  BY <1>1, <1>2
<1>4. ASSUME NEW i \in DOMAIN m PROVE m[i] = "A" <=> n[i] = "A"
  <2>1. CASE i = 1
    BY <1>0, <2>1
  <2>2. CASE i # 1
    <3>1. i - 1 \in DOMAIN m /\ i - 1 \in DOMAIN n /\ (i - 1) + 1 = i
      BY <1>0, <1>2, <2>2
    <3>2. Upper(m, i) <=> Upper(n, i)
      BY <1>0, <3>1, BreaksAreCapitals
    <3>3. QED
      BY <1>2, <3>2 DEF Upper
  <2>3. QED
    BY <2>1, <2>2
<1>5. \A i \in DOMAIN m : m[i] = n[i]
  BY <1>3, <1>4
<1>6. QED
  BY <1>0, <1>2, <1>5

\* No version of a contract has two such names with one attribute.
LEMMA NothingCollides == Colliding = {}
<1> SUFFICES ASSUME NEW v \in Version PROVE v \notin Colliding
  BY DEF Colliding
<1> DEFINE plain == {m \in Methods[v] : ~Acronym(m)}
           attrs == {HandlerAttr[v][m] : m \in plain}
           f == [m \in plain |-> HandlerAttr[v][m]]
<1>1. IsFiniteSet(plain) /\ plain \subseteq MethodName
  <2>1. IsFiniteSet(Methods[v]) /\ Methods[v] \subseteq MethodName
    BY NamesAssumption DEF MethodName
  <2>2. plain \in SUBSET Methods[v]
    OBVIOUS
  <2>3. QED
    BY <2>1, <2>2, FS_Subset
<1>2. \A m \in plain : HandlerAttr[v][m] = CamelToSnake(m) /\ ~Acronym(m)
  BY DEF HandlerAttr
<1>3. f \in Surjection(plain, attrs)
  BY DEF Surjection
<1>4. f \in Injection(plain, attrs)
  <2>1. f \in [plain -> attrs]
    OBVIOUS
  <2>2. ASSUME NEW m \in plain, NEW n \in plain, f[m] = f[n] PROVE m = n
    <3>1. m \in MethodName /\ n \in MethodName /\ ~Acronym(m) /\ ~Acronym(n)
      BY <1>1, <1>2
    <3>2. CamelToSnake(m) = CamelToSnake(n)
      BY <1>2, <2>2
    <3>3. QED
      BY <3>1, <3>2, CamelToSnakeInjective
  <2> HIDE DEF f, plain
  <2>3. QED
    BY <2>1, <2>2 DEF Injection, IsInjective
<1> HIDE DEF f
<1>5. Cardinality(attrs) = Cardinality(plain) /\ Cardinality(plain) \in Nat
  BY <1>1, <1>3, <1>4, FS_Surjection, FS_CardinalityType
<1>6. ~(Cardinality(attrs) < Cardinality(plain))
  BY <1>5
<1>7. QED
  BY <1>6 DEF Colliding

-----------------------------------------------------------------------------
(* The order of the contracts.                                             *)

Precedes(c, d) == c[1] < d[1] \/ (c[1] = d[1] /\ c[2] <= d[2])

\* Naturals that are not empty have a least one.
LEMMA LeastNatural ==
  ASSUME NEW S \in SUBSET Nat, S # {}
  PROVE  \E x \in S : \A y \in S : x <= y
<1>1. PICK x \in S : \A y \in S : ~ (<<y, x>> \in OpToRel(<, Nat))
  BY NatLessThanWellFounded, WFMin
<1>2. \A y \in S : ~ (y < x)
  BY <1>1 DEF OpToRel
<1>3. QED
  BY <1>2

\* Some contract comes before the others.
LEMMA FirstPrecedes ==
  ASSUME NEW C \in SUBSET Contract, C # {}
  PROVE  First(C) \in C /\ \A d \in C : Precedes(First(C), d)
<1>1. \A c \in C : c[1] \in Nat /\ c[2] \in Nat
  BY CodegenAssumption DEF Contract
<1>2. PICK s \in {c[1] : c \in C} : \A t \in {c[1] : c \in C} : s <= t
  <2>1. {c[1] : c \in C} \in SUBSET Nat /\ {c[1] : c \in C} # {}
    BY <1>1
  <2>2. QED
    BY <2>1, LeastNatural
<1> DEFINE F == {c[2] : c \in {d \in C : d[1] = s}}
<1>3. PICK f \in F : \A g \in F : f <= g
  <2>1. F \in SUBSET Nat /\ F # {}
    BY <1>1, <1>2
  <2>2. QED
    BY <2>1, LeastNatural
<1>4. PICK c \in C : c[1] = s /\ c[2] = f
  BY <1>3
<1>5. \A d \in C : c[1] < d[1] \/ (c[1] = d[1] /\ c[2] <= d[2])
  <2>1. ASSUME NEW d \in C PROVE c[1] < d[1] \/ (c[1] = d[1] /\ c[2] <= d[2])
    <3>1. c[1] <= d[1] /\ (d[1] = s => c[2] <= d[2])
      BY <1>2, <1>3, <1>4
    <3>2. QED
      BY <1>1, <1>4, <3>1
  <2>2. QED
    BY <2>1
<1>6. QED
  BY <1>5 DEF First, Precedes

\* A service that some file exports has a last file that does.
LEMMA LastExport ==
  ASSUME NEW x, NEW s
  PROVE  \/ Last(x, s) = Absent /\ \A f \in File : x[f][s] = Absent
         \/ \E f \in File : /\ Last(x, s) = x[f][s] /\ x[f][s] # Absent
                            /\ \A g \in File : x[g][s] # Absent => g <= f
<1> DEFINE F == {f \in File : x[f][s] # Absent}
<1>1. CASE F = {}
  BY <1>1 DEF Last
<1>2. CASE F # {}
  <2>1. PICK top \in File : \A g \in File : g <= top
    BY <1>2, FilesAssumption
  <2>2. top \in Nat /\ \A f \in F : f \in Nat /\ f <= top
    BY <2>1, CodegenAssumption
  <2>3. PICK k \in {top - f : f \in F} : \A j \in {top - f : f \in F} : k <= j
    <3>1. {top - f : f \in F} \in SUBSET Nat /\ {top - f : f \in F} # {}
      BY <1>2, <2>2
    <3>2. QED
      BY <3>1, LeastNatural
  <2>4. PICK e \in F : k = top - e
    BY <2>3
  <2>5. ASSUME NEW g \in F PROVE g <= e
    <3>1. k <= top - g
      BY <2>3
    <3>2. g \in Nat /\ e \in Nat /\ top \in Nat
      BY <2>2
    <3>3. QED
      BY <2>4, <3>1, <3>2
  <2> DEFINE l == CHOOSE f \in F : \A g \in F : g <= f
  <2>6. l \in F /\ \A g \in F : g <= l
    BY <2>4, <2>5
  <2>7. Last(x, s) = x[l][s]
    BY <1>2 DEF Last
  <2> HIDE DEF l
  <2>8. QED
    BY <2>6, <2>7
<1>3. QED
  BY <1>1, <1>2

-----------------------------------------------------------------------------
(* The inductive invariant.                                                *)

\* The outputs are finished in their order.
OutputsInOrder ==
  /\ "py" \in wanted /\ "py" \notin left => "ts" \notin left
  /\ "manifest" \in wanted => (left # {} => "manifest" \in left)

\* The contracts that have been written to the current output came first.
Processed == Loaded(ir) \ todo

TodoInv ==
  left # {} =>
    /\ todo \subseteq Loaded(ir)
    /\ \A c \in Processed, d \in todo : Precedes(c, d)

\* A file holds the last contract of its service that has been written to it.
HoldsProcessed(files) ==
  \A c \in Processed :
    (\A d \in Processed : d[1] = c[1] => d[2] <= c[2]) => files[c[1]] = ir[c[2]][c[1]]

\* A finished output holds the last contract of every service.
HoldsAll(files) == \A s \in Service : Last(ir, s) # Absent => files[s] = Last(ir, s)

WrappersInv ==
  left # {} =>
    /\ "ts" \in left => HoldsProcessed(ts)
    /\ "ts" \in wanted \ left => HoldsAll(ts)
    /\ "py" \in left /\ "ts" \notin left => HoldsProcessed(py)
    /\ "py" \in wanted \ left => HoldsAll(py)

WrittenAgree ==
  \A s \in Service :
    /\ manifest[s] = Last(ir, s)
    /\ manifest[s] # Absent => ts[s] = manifest[s] /\ py[s] = manifest[s]

CompleteInv == complete => left = {} /\ WrittenAgree

IInv ==
  /\ TypeOK /\ LeaksAreFailures
  /\ OutputsInOrder /\ TodoInv /\ WrappersInv /\ CompleteInv

USE DEF runVars

-----------------------------------------------------------------------------
(* Writing one contract, and finishing an output.                          *)

\* A contract that a file exports is one of the versions.
LEMMA LoadedVersion ==
  ASSUME TypeOK, NEW c \in Loaded(ir)
  PROVE  c \in Contract /\ c[1] \in Service /\ c[2] \in File /\ ir[c[2]][c[1]] \in Version
BY DEF TypeOK, Loaded, Contract

\* The next contract, which is not yet written and follows all that are.
LEMMA NextContract ==
  ASSUME TypeOK, TodoInv, left # {}
  PROVE  /\ First(todo) \in todo /\ First(todo) \in Loaded(ir)
         /\ todo \subseteq Loaded(ir)
         /\ \A d \in todo : Precedes(First(todo), d)
         /\ \A c \in Processed : Precedes(c, First(todo))
<1>1. todo \in SUBSET Contract /\ todo # {}
  BY DEF TypeOK
<1>2. First(todo) \in todo /\ \A d \in todo : Precedes(First(todo), d)
  BY <1>1, FirstPrecedes
<1>3. QED
  BY <1>2 DEF TodoInv

\* A file to which the next contract goes holds what has been written, that one
\* included.
LEMMA PutHolds ==
  ASSUME TypeOK, TodoInv, left # {}, NEW files \in OnDisk, HoldsProcessed(files),
         NEW P, P = Processed \cup {First(todo)}, NEW c \in P,
         \A d \in P : d[1] = c[1] => d[2] <= c[2]
  PROVE  Put(files, First(todo))[c[1]] = ir[c[2]][c[1]]
<1> DEFINE n == First(todo)
<1>1. n \in todo /\ n \in Loaded(ir) /\ \A d \in Processed : Precedes(d, n)
  BY NextContract
<1>2. /\ n \in Contract /\ n[1] \in Service /\ n[2] \in File
      /\ c \in Contract /\ c[1] \in Service /\ c[2] \in File
      /\ DOMAIN files = Service
  BY <1>1, LoadedVersion DEF Processed, OnDisk
<1>3. n[1] \in Nat /\ n[2] \in Nat /\ c[1] \in Nat /\ c[2] \in Nat
  BY <1>2, CodegenAssumption
<1> HIDE DEF n
<1>4. CASE c[1] = n[1]
  <2>1. n[2] <= c[2]
    BY <1>4 DEF n
  <2>2. c = n \/ Precedes(c, n)
    BY <1>1 DEF n
  <2>3. c[2] = n[2]
    BY <1>3, <1>4, <2>1, <2>2 DEF Precedes
  <2>4. QED
    BY <1>2, <1>4, <2>3 DEF Put, n
<1>5. CASE c[1] # n[1]
  <2>1. c \in Processed
    BY <1>5 DEF n
  <2>2. files[c[1]] = ir[c[2]][c[1]]
    BY <2>1 DEF HoldsProcessed
  <2>3. QED
    BY <1>2, <1>5, <2>2 DEF Put, n
<1>6. QED
  BY <1>4, <1>5

\* An output to which all contracts have been written holds all services.
LEMMA HoldsLoaded ==
  ASSUME TypeOK, NEW files,
         \A c \in Loaded(ir) :
           (\A d \in Loaded(ir) : d[1] = c[1] => d[2] <= c[2]) => files[c[1]] = ir[c[2]][c[1]]
  PROVE  HoldsAll(files)
<1> SUFFICES ASSUME NEW s \in Service, Last(ir, s) # Absent PROVE files[s] = Last(ir, s)
  BY DEF HoldsAll
<1>1. PICK f \in File : /\ Last(ir, s) = ir[f][s] /\ ir[f][s] # Absent
                        /\ \A g \in File : ir[g][s] # Absent => g <= f
  BY LastExport
<1>2. <<s, f>> \in Loaded(ir)
  BY <1>1 DEF Loaded, Contract
<1>3. ASSUME NEW d \in Loaded(ir), d[1] = s PROVE d[2] <= f
  BY <1>1, <1>3 DEF Loaded, Contract
<1>4. QED
  BY <1>1, <1>2, <1>3

\* Writing a contract keeps the order of those that are left.
LEMMA WrittenTodo ==
  ASSUME TypeOK, TodoInv, left # {}, UNCHANGED <<ir, wanted>>, Written(First(todo))
  PROVE  /\ TodoInv'
         /\ left' # {} => todo' # {}
         /\ \/ /\ todo = {First(todo)} /\ left' = left \ {Output}
               /\ Processed' = {} /\ Processed \cup {First(todo)} = Loaded(ir)
            \/ /\ UNCHANGED <<left, complete>>
               /\ Processed' = Processed \cup {First(todo)}
<1>1. /\ First(todo) \in todo /\ First(todo) \in Loaded(ir) /\ todo \subseteq Loaded(ir)
      /\ \A d \in todo : Precedes(First(todo), d)
      /\ \A c \in Processed : Precedes(c, First(todo))
  BY NextContract
<1>2. Loaded(ir)' = Loaded(ir)
  BY DEF Loaded
<1>3. CASE todo = {First(todo)}
  <2>1. todo' = Loaded(ir) /\ left' = left \ {Output}
    BY <1>3 DEF Written, Finish
  <2>2. QED
    BY <1>1, <1>2, <1>3, <2>1 DEF TodoInv, Processed
<1>4. CASE todo # {First(todo)}
  <2>1. todo' = todo \ {First(todo)} /\ UNCHANGED <<left, complete>>
    BY <1>4 DEF Written
  <2>2. Processed' = Processed \cup {First(todo)} /\ todo' # {}
    BY <1>1, <1>2, <1>4, <2>1 DEF Processed
  <2>3. TodoInv'
    BY <1>1, <1>2, <2>1, <2>2 DEF TodoInv
  <2>4. QED
    BY <2>1, <2>2, <2>3
<1>5. QED
  BY <1>3, <1>4

-----------------------------------------------------------------------------
(* Types and the order of outputs.                                         *)

LEMMA PutType ==
  ASSUME TypeOK, NEW files \in OnDisk, NEW c \in Loaded(ir)
  PROVE  Put(files, c) \in OnDisk
BY LoadedVersion DEF Put, OnDisk

LEMMA LastType ==
  ASSUME NEW x \in [File -> [Service -> Version \cup {Absent}]], NEW s \in Service
  PROVE  Last(x, s) \in Version \cup {Absent}
BY LastExport

LEMMA TypeStep ==
  ASSUME IInv, [Next]_vars PROVE TypeOK'
<1> USE DEF IInv, TypeOK
<1>0. Contract = Service \X File /\ Loaded(exports) \subseteq Contract
  BY DEF Contract, Loaded
<1>1. ASSUME NEW f \in File, NEW s \in Service, NEW v \in Version \cup {Absent},
             Edit(f, s, v)
      PROVE  TypeOK'
  BY <1>1, CodegenAssumption DEF Edit, OnDisk, Output, Contract
<1>2. ASSUME NEW outputs \in SUBSET {"ts", "py", "manifest"}, Begin(outputs)
      PROVE  TypeOK'
  BY <1>0, <1>2 DEF Begin, OnDisk, Output, Contract
<1>3. ASSUME left # {}, Written(First(todo)), UNCHANGED <<ir, wanted>>
      PROVE  /\ left' \subseteq wanted /\ todo' \subseteq Contract
             /\ left' # {} => todo' # {}
             /\ complete' \in BOOLEAN
  <2>1. left' # {} => todo' # {}
    BY <1>3, WrittenTodo
  <2>2. Loaded(ir) \subseteq Contract
    BY DEF Loaded
  <2>3. QED
    BY <1>3, <2>1, <2>2 DEF Written, Finish
<1>4. ASSUME left # {} PROVE First(todo) \in Loaded(ir) /\ First(todo)[1] \in Service
  BY <1>4, NextContract, LoadedVersion
<1>5. CASE EmitTs
  <2>1. /\ left # {} /\ Written(First(todo)) /\ ts' = Put(ts, First(todo)) /\ ~temp
        /\ UNCHANGED <<exports, ir, wanted, temp, py, manifest, leaked, edits, fails>>
    BY <1>5 DEF EmitTs
  <2>2. ts' \in OnDisk
    BY <1>4, <2>1, PutType
  <2>3. QED
    BY <1>3, <2>1, <2>2 DEF OnDisk, Contract
<1>6. CASE MakeTemp
  BY <1>6 DEF MakeTemp, Output, OnDisk, Contract
<1>7. CASE EmitPy
  <2>1. /\ left # {} /\ Written(First(todo)) /\ py' = Put(py, First(todo)) /\ ~temp'
        /\ UNCHANGED <<exports, ir, wanted, ts, manifest, leaked, edits, fails>>
    BY <1>7 DEF EmitPy
  <2>2. py' \in OnDisk
    BY <1>4, <2>1, PutType
  <2>3. QED
    BY <1>3, <2>1, <2>2 DEF OnDisk, Contract
<1>8. CASE WriteManifest
  <2>1. /\ left # {} /\ Output = "manifest" /\ ~temp /\ Finish("manifest")
        /\ manifest' = [s \in Service |-> Last(ir, s)]
        /\ UNCHANGED <<exports, ir, wanted, temp, ts, py, leaked, edits, fails>>
    BY <1>8 DEF WriteManifest
  <2>2. manifest' \in OnDisk
    BY <2>1, LastType DEF OnDisk
  <2>3. Loaded(ir) # {} /\ Loaded(ir) \subseteq Contract
    BY <1>4, <2>1 DEF Loaded
  <2>4. QED
    BY <2>1, <2>2, <2>3 DEF Finish, OnDisk, Contract
<1>9. CASE Fail
  <2>1. /\ left # {} /\ left' = {} /\ temp' = FALSE /\ fails' = fails + 1
        /\ fails < MaxFails /\ UNCHANGED <<exports, ir, wanted, todo, complete, edits>>
        /\ \/ leaked' = (IF temp THEN leaked + 1 ELSE leaked) /\ UNCHANGED <<ts, py, manifest>>
           \/ ts' = [ts EXCEPT ![First(todo)[1]] = Torn] /\ UNCHANGED <<py, manifest, leaked>>
           \/ py' = [py EXCEPT ![First(todo)[1]] = Torn] /\ UNCHANGED <<ts, manifest, leaked>>
           \/ manifest' = [s \in Service |-> Torn] /\ UNCHANGED <<ts, py, leaked>>
    BY <1>9 DEF Fail
  <2>2. ts' \in OnDisk /\ py' \in OnDisk /\ manifest' \in OnDisk
    BY <1>4, <2>1 DEF OnDisk
  <2>3. leaked' \in Nat /\ fails' \in 0..MaxFails
    BY <2>1, CodegenAssumption
  <2>4. QED
    BY <2>1, <2>2, <2>3 DEF Contract
<1>10. CASE UNCHANGED vars
  BY <1>10 DEF vars, OnDisk, Output, Contract
<1>11. QED
  BY <1>1, <1>2, <1>5, <1>6, <1>7, <1>8, <1>9, <1>10 DEF Next

\* Only a failing run leaves a directory behind.
LEMMA LeaksStep ==
  ASSUME TypeOK, LeaksAreFailures, [Next]_vars PROVE LeaksAreFailures'
<1>1. leaked \in Nat /\ fails \in Nat
  BY CodegenAssumption DEF TypeOK
<1>2. \/ UNCHANGED <<leaked, fails>>
      \/ fails' = fails + 1 /\ (leaked' = leaked \/ leaked' = leaked + 1)
  BY DEF Next, Edit, Begin, EmitTs, MakeTemp, EmitPy, WriteManifest, Fail, vars
<1>3. QED
  BY <1>1, <1>2 DEF LeaksAreFailures

\* How a run goes through its outputs.
LEMMA LeftStep ==
  ASSUME IInv, [Next]_vars
  PROVE  \/ UNCHANGED <<left, wanted>>
         \/ left' = wanted'
         \/ left # {} /\ left' = left \ {Output} /\ wanted' = wanted
         \/ left' = {} /\ wanted' = wanted
BY DEF Next, Edit, Begin, EmitTs, MakeTemp, EmitPy, WriteManifest, Fail, vars, Written,
       Finish

LEMMA OrderStep ==
  ASSUME IInv, [Next]_vars PROVE OutputsInOrder'
BY LeftStep DEF IInv, TypeOK, OutputsInOrder, Output

-----------------------------------------------------------------------------
(* What has been written.                                                  *)

LEMMA TodoStep ==
  ASSUME IInv, [Next]_vars PROVE TodoInv'
<1> USE DEF IInv
<1>1. ASSUME NEW f \in File, NEW s \in Service, NEW v \in Version \cup {Absent},
             Edit(f, s, v)
      PROVE  TodoInv'
  BY <1>1 DEF Edit, TodoInv
<1>2. ASSUME NEW outputs \in SUBSET {"ts", "py", "manifest"}, Begin(outputs)
      PROVE  TodoInv'
  BY <1>2 DEF Begin, TodoInv, Processed, Loaded
<1>3. CASE EmitTs \/ EmitPy
  BY <1>3, WrittenTodo DEF EmitTs, EmitPy
<1>4. CASE MakeTemp \/ UNCHANGED vars
  BY <1>4 DEF MakeTemp, vars, TodoInv, Processed, Loaded
<1>5. CASE WriteManifest
  BY <1>5 DEF WriteManifest, Finish, TodoInv, Processed, Loaded
<1>6. CASE Fail
  BY <1>6 DEF Fail, TodoInv
<1>7. QED
  BY <1>1, <1>2, <1>3, <1>4, <1>5, <1>6 DEF Next

\* Writing the next contract of the current output leaves it complete up to there.
LEMMA EmitHolds ==
  ASSUME IInv, left # {}, NEW files \in OnDisk, HoldsProcessed(files),
         UNCHANGED <<ir, wanted>>, Written(First(todo))
  PROVE  LET written == Put(files, First(todo)) IN
         \/ left' = left \ {Output} /\ HoldsAll(written)
         \/ /\ UNCHANGED <<left, complete>>
            /\ \A c \in Processed' :
                 (\A d \in Processed' : d[1] = c[1] => d[2] <= c[2])
                   => written[c[1]] = ir[c[2]][c[1]]
<1> USE DEF IInv
<1> DEFINE P == Processed \cup {First(todo)}
           written == Put(files, First(todo))
<1>1. \A c \in P : (\A d \in P : d[1] = c[1] => d[2] <= c[2]) => written[c[1]] = ir[c[2]][c[1]]
  <2>1. ASSUME NEW c \in P, \A d \in P : d[1] = c[1] => d[2] <= c[2]
        PROVE  written[c[1]] = ir[c[2]][c[1]]
    BY <2>1, PutHolds
  <2>2. QED
    BY <2>1
<1> HIDE DEF written
<1>2. CASE left' = left \ {Output} /\ P = Loaded(ir)
  <2>1. HoldsAll(written)
    BY <1>1, <1>2, HoldsLoaded
  <2>2. QED
    BY <1>2, <2>1 DEF written
<1>3. CASE UNCHANGED <<left, complete>> /\ Processed' = P
  BY <1>1, <1>3 DEF written
<1>4. QED
  BY <1>2, <1>3, WrittenTodo

LEMMA WrappersStep ==
  ASSUME IInv, [Next]_vars PROVE WrappersInv'
<1> USE DEF IInv
<1>0. left \subseteq wanted /\ wanted \subseteq {"ts", "py", "manifest"}
      /\ ts \in OnDisk /\ py \in OnDisk
  BY DEF TypeOK
<1>1. ASSUME NEW f \in File, NEW s \in Service, NEW v \in Version \cup {Absent},
             Edit(f, s, v)
      PROVE  WrappersInv'
  BY <1>1 DEF Edit, WrappersInv
<1>2. ASSUME NEW outputs \in SUBSET {"ts", "py", "manifest"}, Begin(outputs)
      PROVE  WrappersInv'
  BY <1>2 DEF Begin, WrappersInv, HoldsProcessed, Processed, Loaded
<1>3. CASE EmitTs
  <2>1. /\ left # {} /\ "ts" \in left /\ Output = "ts" /\ Written(First(todo))
        /\ ts' = Put(ts, First(todo)) /\ UNCHANGED <<ir, wanted, py>>
    BY <1>0, <1>3 DEF EmitTs, Output
  <2>2. HoldsProcessed(ts) /\ "py" \notin wanted \ left
    BY <2>1 DEF WrappersInv, OutputsInOrder
  <2>3. CASE left' = left \ {"ts"} /\ HoldsAll(Put(ts, First(todo)))
    <3>1. HoldsAll(ts)'
      BY <2>1, <2>3 DEF HoldsAll, Last
    <3>2. HoldsProcessed(py)'
      <4>1. todo' = Loaded(ir) \/ UNCHANGED left
        BY <2>1 DEF Written, Finish
      <4>2. Processed' = {}
        BY <2>1, <2>3, <4>1 DEF Processed, Loaded
      <4>3. QED
        BY <4>2 DEF HoldsProcessed
    <3>3. QED
      BY <2>1, <2>2, <2>3, <3>1, <3>2 DEF WrappersInv
  <2>4. CASE /\ UNCHANGED <<left, complete>>
             /\ \A c \in Processed' :
                  (\A d \in Processed' : d[1] = c[1] => d[2] <= c[2])
                    => Put(ts, First(todo))[c[1]] = ir[c[2]][c[1]]
    <3>1. HoldsProcessed(ts)'
      BY <2>1, <2>4 DEF HoldsProcessed
    <3>2. QED
      BY <2>1, <2>2, <2>4, <3>1 DEF WrappersInv
  <2>5. QED
    BY <1>0, <2>1, <2>2, <2>3, <2>4, EmitHolds
<1>4. CASE EmitPy
  <2>1. /\ left # {} /\ "py" \in left /\ "ts" \notin left /\ Output = "py"
        /\ Written(First(todo)) /\ py' = Put(py, First(todo)) /\ UNCHANGED <<ir, wanted, ts>>
    BY <1>0, <1>4 DEF EmitPy, Output
  <2>2. HoldsProcessed(py) /\ ("ts" \in wanted => HoldsAll(ts))
    BY <2>1 DEF WrappersInv
  <2>3. "ts" \in wanted' => HoldsAll(ts)'
    BY <2>1, <2>2 DEF HoldsAll, Last
  <2>4. CASE left' = left \ {"py"} /\ HoldsAll(Put(py, First(todo)))
    <3>1. HoldsAll(py)'
      BY <2>1, <2>4 DEF HoldsAll, Last
    <3>2. QED
      BY <2>1, <2>3, <2>4, <3>1 DEF WrappersInv
  <2>5. CASE /\ UNCHANGED <<left, complete>>
             /\ \A c \in Processed' :
                  (\A d \in Processed' : d[1] = c[1] => d[2] <= c[2])
                    => Put(py, First(todo))[c[1]] = ir[c[2]][c[1]]
    <3>1. HoldsProcessed(py)'
      BY <2>1, <2>5 DEF HoldsProcessed
    <3>2. QED
      BY <2>1, <2>3, <2>5, <3>1 DEF WrappersInv
  <2>6. QED
    BY <1>0, <2>1, <2>2, <2>4, <2>5, EmitHolds
<1>5. CASE MakeTemp \/ UNCHANGED vars
  BY <1>5 DEF MakeTemp, vars, WrappersInv, HoldsProcessed, HoldsAll, Processed, Loaded, Last
<1>6. CASE WriteManifest
  <2>1. /\ left # {} /\ "ts" \notin left /\ "py" \notin left /\ left' = left \ {"manifest"}
        /\ UNCHANGED <<ir, wanted, ts, py>>
    BY <1>6 DEF WriteManifest, Output, Finish
  <2>2. left' = {}
    BY <1>0, <2>1
  <2>3. QED
    BY <2>2 DEF WrappersInv
<1>7. CASE Fail
  BY <1>7 DEF Fail, WrappersInv
<1>8. QED
  BY <1>1, <1>2, <1>3, <1>4, <1>5, <1>6, <1>7 DEF Next

\* When the manifest is written, the wrappers are.
LEMMA ManifestStep ==
  ASSUME IInv, WriteManifest
  PROVE  /\ left = {"manifest"} /\ left' = {} /\ UNCHANGED <<ir, wanted, ts, py>>
         /\ manifest' = [s \in Service |-> Last(ir, s)]
         /\ "ts" \in wanted => HoldsAll(ts)
         /\ "py" \in wanted => HoldsAll(py)
<1>1. /\ left # {} /\ "ts" \notin left /\ "py" \notin left /\ left' = left \ {"manifest"}
      /\ UNCHANGED <<ir, wanted, ts, py>>
      /\ manifest' = [s \in Service |-> Last(ir, s)]
  BY DEF WriteManifest, Output, Finish
<1>2. left \subseteq {"ts", "py", "manifest"}
  BY DEF IInv, TypeOK
<1>3. QED
  BY <1>1, <1>2 DEF IInv, WrappersInv

LEMMA CompleteStep ==
  ASSUME IInv, [Next]_vars PROVE CompleteInv'
<1> USE DEF IInv
<1>1. ASSUME NEW f \in File, NEW s \in Service, NEW v \in Version \cup {Absent},
             Edit(f, s, v)
      PROVE  CompleteInv'
  BY <1>1 DEF Edit, CompleteInv, WrittenAgree, Last
<1>2. ASSUME NEW outputs \in SUBSET {"ts", "py", "manifest"}, Begin(outputs)
      PROVE  CompleteInv'
  BY <1>2 DEF Begin, CompleteInv
<1>3. CASE EmitTs \/ EmitPy
  <2>1. left # {} /\ Output \in {"ts", "py"} /\ Written(First(todo))
    BY <1>3 DEF EmitTs, EmitPy
  <2>2. left # {Output} \/ "manifest" \notin wanted
    BY <2>1 DEF OutputsInOrder
  <2>3. complete' => complete
    BY <2>1, <2>2 DEF Written, Finish
  <2>4. QED
    BY <2>1, <2>3 DEF CompleteInv
<1>4. CASE MakeTemp \/ Fail
  BY <1>4 DEF MakeTemp, Fail, CompleteInv
<1>5. CASE UNCHANGED vars
  BY <1>5 DEF vars, CompleteInv, WrittenAgree, Last
<1>6. CASE WriteManifest
  <2>1. ASSUME complete', NEW s \in Service
        PROVE  /\ manifest'[s] = Last(ir', s)
               /\ manifest'[s] # Absent => ts'[s] = manifest'[s] /\ py'[s] = manifest'[s]
    <3>1. wanted = {"ts", "py", "manifest"}
      BY <1>6, <2>1 DEF WriteManifest, Finish
    <3>2. QED
      BY <1>6, <3>1, ManifestStep DEF HoldsAll
  <2>2. complete' => WrittenAgree'
    BY <2>1 DEF WrittenAgree, Last
  <2>3. QED
    BY <1>6, <2>2, ManifestStep DEF CompleteInv
<1>7. QED
  BY <1>1, <1>2, <1>3, <1>4, <1>5, <1>6 DEF Next

-----------------------------------------------------------------------------
(* The theorems.                                                           *)

LEMMA InitInv == Init => IInv
<1> SUFFICES ASSUME Init PROVE IInv
  OBVIOUS
<1>1. TypeOK
  <2>1. /\ exports \in [File -> [Service -> Version \cup {Absent}]]
        /\ ir \in [File -> [Service -> Version \cup {Absent}]]
        /\ ts \in OnDisk /\ py \in OnDisk /\ manifest \in OnDisk
    BY DEF Init, OnDisk
  <2>2. leaked \in Nat /\ complete \in BOOLEAN /\ edits \in 0..MaxEdits /\ fails \in 0..MaxFails
    <3>1. leaked = 0 /\ complete = FALSE /\ edits = 0 /\ fails = 0
      BY DEF Init
    <3>2. MaxEdits \in Nat /\ MaxFails \in Nat
      BY CodegenAssumption
    <3>3. complete \in BOOLEAN
      BY <3>1
    <3>4. QED
      BY <3>1, <3>2, <3>3
  <2>3. left = {} /\ wanted = {} /\ todo = {} /\ ~temp
    BY DEF Init
  <2>4. QED
    BY <2>1, <2>2, <2>3 DEF TypeOK
<1>2. LeaksAreFailures
  BY DEF Init, LeaksAreFailures
<1>3. OutputsInOrder /\ TodoInv /\ WrappersInv /\ CompleteInv
  BY DEF Init, OutputsInOrder, TodoInv, WrappersInv, CompleteInv
<1>4. QED
  BY <1>1, <1>2, <1>3 DEF IInv

LEMMA InvStep == IInv /\ [Next]_vars => IInv'
<1> SUFFICES ASSUME IInv, [Next]_vars PROVE IInv'
  OBVIOUS
<1>1. LeaksAreFailures'
  BY LeaksStep DEF IInv
<1>2. QED
  BY <1>1, TypeStep, OrderStep, TodoStep, WrappersStep, CompleteStep DEF IInv

\* The invariant of the generator's runs and files holds in every behaviour.
THEOREM Invariance == Spec => []IInv
BY InitInv, InvStep, PTL DEF Spec

\* Every variable of a run and of the disk keeps its type.
THEOREM TypeCorrect == Spec => []TypeOK
<1>1. IInv => TypeOK
  BY DEF IInv
<1>2. QED
  BY <1>1, Invariance, PTL

\* An import path that names the last file that exports a service has the contract the
\* outputs keep.
LEMMA LastIsImported ==
  ASSUME TypeOK, NEW s \in Service, ImportsLast(s) PROVE Types(s) = Last(exports, s)
<1>1. Imported[s] \in File /\ exports[Imported[s]][s] # Absent
  BY DEF ImportsLast, Types
<1> DEFINE F == {f \in File : exports[f][s] # Absent}
<1>2. /\ Imported[s] \in F /\ F \subseteq Nat
      /\ \A g \in F : g <= Imported[s]
  BY <1>1, CodegenAssumption DEF ImportsLast
<1>3. \A f \in F : (\A g \in F : g <= f) => f = Imported[s]
  BY <1>2
<1> HIDE DEF F
<1>4. (CHOOSE f \in F : \A g \in F : g <= f) = Imported[s]
  BY <1>2, <1>3
<1>5. QED
  BY <1>1, <1>2, <1>4 DEF Types, Last, F

\* After a run of runCli that wrote everything, the Python wrapper, the manifest and the
\* method names of the TypeScript wrapper of every service come from one contract,
\* whatever failed runs left before and however often a service is exported; and the
\* types of the TypeScript wrapper do when its import path names the last file.
THEOREM WrappersAgree == Spec => []CompleteRunAgrees
<1>1. IInv => CompleteRunAgrees
  <2> SUFFICES ASSUME IInv, complete, NEW s \in Service
               PROVE  /\ manifest[s] = Last(ir, s)
                      /\ manifest[s] # Absent => ts[s] = manifest[s] /\ py[s] = manifest[s]
                      /\ exports = ir => (ImportsLast(s) => Types(s) = manifest[s])
    BY DEF CompleteRunAgrees
  <2>1. WrittenAgree /\ TypeOK
    BY DEF IInv, CompleteInv
  <2>2. QED
    BY <2>1, LastIsImported DEF WrittenAgree
<1>2. QED
  BY <1>1, Invariance, PTL

\* runCli writes the manifest after the wrappers it speaks for.
THEOREM ManifestComesLast == Spec => ManifestIsLast
<1> DEFINE A == manifest' # manifest => \A s \in Service : manifest'[s] \in Version =>
                  /\ "ts" \in wanted => ts[s] = manifest'[s]
                  /\ "py" \in wanted => py[s] = manifest'[s]
<1>1. ASSUME IInv, [Next]_vars PROVE A
  <2> SUFFICES ASSUME manifest' # manifest, NEW s \in Service, manifest'[s] \in Version
               PROVE  /\ "ts" \in wanted => ts[s] = manifest'[s]
                      /\ "py" \in wanted => py[s] = manifest'[s]
    OBVIOUS
  <2>1. Absent \notin Version /\ Torn \notin Version
    BY CodegenAssumption DEF Absent, Torn
  <2>2. manifest' # [t \in Service |-> Torn]
    BY <2>1
  <2>3. WriteManifest
    BY <1>1, <2>2 DEF Next, Edit, Begin, EmitTs, MakeTemp, EmitPy, Fail, vars
  <2>4. QED
    BY <1>1, <2>1, <2>3, ManifestStep DEF HoldsAll
<1>2. IInv /\ [Next]_vars => [A]_vars
  BY <1>1
<1> HIDE DEF A
<1>3. Spec => [][A]_vars
  BY <1>2, Invariance, PTL DEF Spec
<1>4. QED
  BY <1>3 DEF ManifestIsLast, A

\* emitPy leaves a temporary directory behind only when a run fails.
THEOREM LeaksAreBounded == Spec => []LeaksAreFailures
<1>1. IInv => LeaksAreFailures
  BY DEF IInv
<1>2. QED
  BY <1>1, Invariance, PTL

\* No generated Python file has two methods with one attribute, unless a name has three
\* capitals in a row.
THEOREM HandlersStayDistinct == Spec => []HandlersAreDistinct
<1>1. HandlersAreDistinct
  BY NothingCollides DEF HandlersAreDistinct
<1>2. QED
  BY <1>1, PTL
=============================================================================
