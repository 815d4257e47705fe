--------------------------- MODULE DiscoveryProofs ---------------------------
(***************************************************************************)
(* The safety of SourceDiscovery, for any project and any limits.  What a  *)
(* scanned file asks for is still to be done or was done (Answered), and   *)
(* what is to be done or was done is needed: it lies in every closed set   *)
(* of files that holds the entry (Needed).  When nothing is left to do the *)
(* bundle is therefore the least such set.  An error that a file asks for  *)
(* is never dropped, so a bundle is returned only if every include and     *)
(* import had an answer, which the bundle gives again.                     *)
(***************************************************************************)
EXTENDS SourceDiscovery, FiniteSetTheorems, TLAPS

Automatic == project.mode = "auto"
Scanned == files \ queue

\* The bundle is made of finitely many files of the project.
Bundle ==
  /\ queue \subseteq files /\ files \subseteq DOMAIN tree
  /\ IsFiniteSet(files) /\ Cardinality(files) <= MAX_FILES

\* What was asked for has been done.
Did(w) == w = Index \/ \E q \in files : w = Add(q)

\* An error is never among what was done, so that it stays to be raised.
Answered ==
  Automatic => /\ Did(Add(project.entry)) \/ Add(project.entry) \in todo
          /\ \A p \in Scanned : \A w \in Work(p) : Did(w) \/ w \in todo

Needed ==
  Automatic => \A S : project.entry \in S /\ Closed(S) =>
            files \subseteq S /\ \A q : Add(q) \in todo => q \in S

\* What was included textually so far was so by a scanned file.
Textual ==
  phase = "collect" =>
    \A x \in included : Automatic /\ \E p \in Scanned : x \in IncludedBy(p)

\* How a discovery ends: with nothing left to do, no include that the bundle
\* leaves ambiguous, and the units that nothing includes.
Ambiguous == \E p \in Texts : \E t \in tree[p].includes : Cardinality(Bundled(p, t)) > 1
Ended ==
  phase = "done" =>
    /\ todo = {} /\ (Automatic => queue = {})
    /\ ~Ambiguous
    /\ units = {p \in files : p.ext = ".v" /\ p # project.entry /\ p \notin TextualIncludes}

IInv == BundleTypeOK /\ Bundle /\ Answered /\ Needed /\ Textual /\ Ended

----------------------------------------------------------------------------
(* What a file asks for depends on the project alone.                      *)

\* The tree of files.
LEMMA SameTree ==
  ASSUME project' = project
  PROVE  /\ tree' = tree
         /\ walk' = walk
         /\ Walked' = Walked
         /\ TooWide' = TooWide
  BY DEF tree, walk, Walked, TooWide

\* A Python file's imports.
LEMMA SamePython ==
  ASSUME project' = project
  PROVE  \A p : ScanPython(p)' = ScanPython(p)
<1>1. \A parts : python_module(parts)' = python_module(parts)
  BY SameTree DEF python_module, is_file
<1>2. \A p, s : py_import(p, s)' = py_import(p, s)
  BY <1>1 DEF py_import
<1> QED
  BY <1>2, SameTree DEF ScanPython

\* A file's includes.
LEMMA SameInclude ==
  ASSUME project' = project
  PROVE  \A p, t : include(p, t)' = include(p, t) /\ Walks(p, t)' = Walks(p, t)
  BY SameTree DEF include, Beside, SameName, Walks

\* A Verilog file's includes and instances.
LEMMA SameVerilog ==
  ASSUME project' = project
  PROVE  \A p : ScanVerilog(p)' = ScanVerilog(p)
<1>1. \A m : definitions(m)' = definitions(m)
  BY SameTree DEF definitions
<1>2. \A m : instance_of(m)' = instance_of(m)
  BY <1>1 DEF instance_of
<1>3. \A p : (UNION {OneOf(include(p, t)) : t \in tree[p].includes})'
               = UNION {OneOf(include(p, t)) : t \in tree[p].includes}
  BY SameInclude, SameTree
<1>4. \A p : (UNION {instance_of(m) : m \in tree[p].instances})'
               = UNION {instance_of(m) : m \in tree[p].instances}
  BY <1>2, SameTree
<1> SUFFICES ASSUME NEW p
             PROVE  ScanVerilog(p)' = ScanVerilog(p)
  OBVIOUS
<1>5. (\E t \in tree[p].includes : Walks(p, t))'
        <=> \E t \in tree[p].includes : Walks(p, t)
  BY SameInclude, SameTree
<1>6. {Add(Root(t)) : t \in tree[p].readmem}' = {Add(Root(t)) : t \in tree[p].readmem}
  BY SameTree
<1>7. /\ tree'[p].macro = tree[p].macro /\ tree'[p].garbled = tree[p].garbled
      /\ TooWide' <=> TooWide
  BY SameTree
<1> QED
  BY <1>3, <1>4, <1>5, <1>6, <1>7 DEF ScanVerilog

\* All that a file asks for.
LEMMA SameWork ==
  ASSUME project' = project
  PROVE  /\ \A p : Work(p)' = Work(p)
         /\ \A p : IncludedBy(p)' = IncludedBy(p)
         /\ \A p : Asked(p)' = Asked(p)
         /\ \A S : Closed(S)' <=> Closed(S)
         /\ Automatic' <=> Automatic
<1>1. \A p : Work(p)' = Work(p)
  BY SamePython, SameVerilog DEF Work
<1>2. \A p : Asked(p)' = Asked(p)
  BY <1>1 DEF Asked
<1>3. \A S : Closed(S)' <=> Closed(S)
  BY <1>2 DEF Closed
<1>4. \A p : IncludedBy(p)' = IncludedBy(p)
  BY SameInclude, SameTree DEF IncludedBy
<1> QED
  BY <1>1, <1>2, <1>3, <1>4 DEF Automatic

\* The sum over no file.
LEMMA NoBytes == Bytes({}) = 0
<1>1. \A s \in SUBSET {} : s = {}
  OBVIOUS
<1> QED
  BY <1>1 DEF Bytes, MapThenSumSet, MapThenFoldSet

\* The sizes of its files.
LEMMA SameBytes ==
  ASSUME project' = project
  PROVE  \A S : Bytes(S)' = Bytes(S)
  BY DEF Bytes, tree, MapThenSumSet, MapThenFoldSet

\* The bundle's includes and its textual files.
LEMMA SameBundled ==
  ASSUME project' = project, files' = files
  PROVE  /\ Texts' = Texts
         /\ \A p, t : Bundled(p, t)' = Bundled(p, t)
         /\ Ambiguous' <=> Ambiguous
         /\ TextualIncludes' = TextualIncludes
<1>1. Texts' = Texts /\ \A p, t : Bundled(p, t)' = Bundled(p, t)
  BY DEF Texts, Bundled, Beside, SameName
<1>2. Ambiguous' <=> Ambiguous
  BY <1>1, SameTree DEF Ambiguous
<1>3. TextualIncludes' = TextualIncludes
  BY <1>1, SameTree DEF TextualIncludes
<1> QED
  BY <1>1, <1>2, <1>3

----------------------------------------------------------------------------
(* Each step preserves the invariant.                                      *)

\* The tasks differ from one another.
LEMMA Tasks ==
  /\ \A p, q : Add(p) = Add(q) => p = q
  /\ \A p : /\ Add(p) # Index /\ Add(p) # Fail
            /\ Add(p).do = "add" /\ Add(p).path = p
  /\ Index # Fail /\ Index.do # "add" /\ Fail.do # "add"
  BY DEF Add, Index, Fail

\* An error ends the discovery and leaves everything else.
LEMMA RaiseKeeps ==
  ASSUME IInv, raise
  PROVE  IInv'
<1> USE DEF raise
<1>1. BundleTypeOK'
  BY SameBytes DEF IInv, BundleTypeOK
<1>2. Bundle' /\ Textual' /\ Ended'
  BY SameTree DEF IInv, Bundle, Textual, Ended
<1>3. Answered'
  BY SameWork DEF IInv, Answered, Scanned, Did, Add, Index
<1>4. Needed'
  BY SameWork DEF IInv, Needed, Add
<1> QED
  BY <1>1, <1>2, <1>3, <1>4 DEF IInv

\* A file enters the bundle because the entry needs it, and within the limits.
LEMMA AddKeeps ==
  ASSUME IInv, phase = "collect", NEW p, add(p)
  PROVE  IInv'
<1>1. CASE ~Acceptable(p)
  BY <1>1, RaiseKeeps DEF add
<1>2. CASE Acceptable(p)
  <2>0. /\ Add(p) \in todo
        /\ files' = files \cup {p} /\ cache' = cache \cup {p}
        /\ queue' = IF p \in files THEN queue ELSE queue \cup {p}
        /\ todo' = todo \ {Add(p)}
        /\ UNCHANGED <<project, included, indexed, phase, units>>
    BY <1>2 DEF add
  <2>1. /\ p \in DOMAIN tree
        /\ \/ p \in files
           \/ Cardinality(files) < MAX_FILES /\ Bytes(cache \cup {p}) <= MAX_BYTES
    BY <1>2 DEF IInv, Bundle, Acceptable, Readable, is_file
  <2>2. Scanned' = Scanned
    BY <2>0 DEF IInv, Bundle, Scanned
  <2>3. IsFiniteSet(files') /\ Cardinality(files') <= MAX_FILES
    <3>1. /\ IsFiniteSet(files')
          /\ Cardinality(files') = IF p \in files THEN Cardinality(files)
                                                  ELSE Cardinality(files) + 1
      BY <2>0, FS_AddElement DEF IInv, Bundle
    <3>2. Cardinality(files) \in Nat /\ Cardinality(files) <= MAX_FILES
      BY FS_CardinalityType DEF IInv, Bundle
    <3> QED
      BY <2>1, <3>1, <3>2, LimitAssumption
  <2>4. Bytes(cache)' <= MAX_BYTES
    <3>1. Bytes(cache \cup {p}) <= MAX_BYTES
      <4>1. p \in files => cache \cup {p} = cache
        BY DEF IInv, BundleTypeOK
      <4> QED
        BY <2>1, <4>1 DEF IInv, BundleTypeOK
    <3>2. Bytes(cache)' = Bytes(cache \cup {p})
      BY <2>0, SameBytes
    <3> QED
      BY <3>1, <3>2
  <2>5. BundleTypeOK' /\ Bundle'
    BY <2>0, <2>1, <2>3, <2>4, SameTree DEF IInv, BundleTypeOK, Bundle
  <2>6. Answered'
    BY <2>0, <2>2, SameWork DEF IInv, Answered, Did, Add, Index
  <2>7. Needed'
    BY <2>0, SameWork DEF IInv, Needed, Add
  <2>8. Textual' /\ Ended'
    BY <2>0, <2>2, SameWork DEF IInv, Textual, Ended
  <2> QED
    BY <2>5, <2>6, <2>7, <2>8 DEF IInv
<1> QED
  BY <1>1, <1>2

\* The scan of every Verilog file.
LEMMA IndexKeeps ==
  ASSUME IInv, phase = "collect", index
  PROVE  IInv'
<1> DEFINE vs == {p \in walk : p.ext = ".v"}
<1> DEFINE Can == indexed \/ (/\ ~TooWide /\ Bytes(cache \cup vs) <= MAX_BYTES
                               /\ \A p \in vs : tree[p].link = "none" /\ ~tree[p].garbled)
<1>1. CASE ~Can
  BY <1>1, RaiseKeeps DEF index
<1>2. CASE Can
  <2>0. /\ cache' = (IF indexed THEN cache ELSE cache \cup vs) /\ indexed' = TRUE
        /\ todo' = todo \ {Index}
        /\ UNCHANGED <<project, files, queue, included, phase, units>>
    BY <1>2 DEF index
  <2>1. Bytes(cache)' <= MAX_BYTES
    <3>1. Bytes(cache') <= MAX_BYTES
      BY <1>2, <2>0 DEF IInv, BundleTypeOK
    <3>2. Bytes(cache)' = Bytes(cache')
      BY <2>0, SameBytes
    <3> QED
      BY <3>1, <3>2
  <2>2. BundleTypeOK' /\ Bundle'
    BY <2>0, <2>1, SameTree DEF IInv, BundleTypeOK, Bundle
  <2>3. Answered'
    BY <2>0, SameWork DEF IInv, Answered, Scanned, Did, Add, Index
  <2>4. Needed'
    BY <2>0, SameWork, Tasks DEF IInv, Needed, Add
  <2>5. Textual' /\ Ended'
    BY <2>0, SameWork DEF IInv, Textual, Scanned, Ended
  <2> QED
    BY <2>2, <2>3, <2>4, <2>5 DEF IInv
<1> QED
  BY <1>1, <1>2

\* All that was asked for before was done when the next file is scanned.
LEMMA ScanKeeps ==
  ASSUME IInv, phase = "collect", NEW p \in queue, scan(p)
  PROVE  IInv'
<1>0. /\ Automatic /\ todo = {}
      /\ queue' = queue \ {p} /\ todo' = Work(p)
      /\ included' = included \cup IncludedBy(p)
      /\ UNCHANGED <<project, files, cache, indexed, phase, units>>
      /\ p \in files
  BY DEF scan, Automatic, IInv, BundleTypeOK
<1>1. Scanned' = Scanned \cup {p}
  BY <1>0 DEF IInv, BundleTypeOK, Scanned
<1>2. BundleTypeOK' /\ Bundle'
  BY <1>0, SameBytes, SameTree DEF IInv, BundleTypeOK, Bundle
<1>3. Answered'
  <2>1. Did(Add(project.entry)) /\ \A q \in Scanned : \A w \in Work(q) : Did(w)
    BY <1>0 DEF IInv, Answered
  <2>2. \A w : Did(w)' <=> Did(w)
    BY <1>0 DEF Did, Add, Index
  <2> QED
    BY <1>0, <1>1, <2>1, <2>2, SameWork DEF Answered, Add
<1>4. Needed'
  <2>1. \A q : Add(q) \in Work(p) => q \in Asked(p)
    BY Tasks DEF Asked
  <2>2. \A S : project.entry \in S /\ Closed(S) => files \subseteq S /\ Asked(p) \subseteq S
    BY <1>0 DEF IInv, Needed, Closed
  <2> QED
    BY <1>0, <2>1, <2>2, SameWork DEF Needed, Add
<1>5. Textual' /\ Ended'
  BY <1>0, <1>1, SameWork DEF IInv, Textual, Ended
<1> QED
  BY <1>2, <1>3, <1>4, <1>5 DEF IInv

\* Where everything was done, an include of a bundled file means the same in the
\* bundle as in the project.
LEMMA IncludesAgree ==
  ASSUME IInv, Automatic, todo = {}, queue = {}, ~Ambiguous,
         NEW q \in Texts, NEW t \in tree[q].includes
  PROVE  include(q, t) = Bundled(q, t)
<1>1. /\ q \in Scanned /\ q \in files /\ files \subseteq DOMAIN tree
      /\ IsFiniteSet(files) /\ IsFiniteSet(DOMAIN tree)
      /\ Work(q) = ScanVerilog(q)
      /\ Cardinality(Bundled(q, t)) <= 1
  <2>1. q \in files /\ q.ext \in {".v", ".vh"}
    BY DEF Texts
  <2>2. Work(q) = ScanVerilog(q)
    BY <2>1 DEF Work
  <2>3. IsFiniteSet(DOMAIN tree)
    BY ProjectAssumption DEF IInv, BundleTypeOK, tree
  <2>4. IsFiniteSet(files) /\ files \subseteq DOMAIN tree
    BY DEF IInv, Bundle
  <2>5. IsFiniteSet(Bundled(q, t))
    <3>1. Bundled(q, t) \subseteq files
      BY DEF Bundled, Beside, SameName
    <3> QED
      BY <2>4, <3>1, FS_Subset
  <2>6. Cardinality(Bundled(q, t)) \in Nat
    BY <2>5, FS_CardinalityType
  <2>7. ~ (Cardinality(Bundled(q, t)) > 1)
    BY DEF Ambiguous
  <2>8. Cardinality(Bundled(q, t)) <= 1
    BY <2>6, <2>7
  <2> QED
    BY <2>1, <2>2, <2>3, <2>4, <2>8 DEF Scanned
<1>2. \A w \in Work(q) : Did(w) /\ w # Fail
  BY <1>1, Tasks DEF IInv, Answered, Did
<1>3. OneOf(include(q, t)) \subseteq Work(q)
  <2>1. Work(q) # {Fail}
    BY <1>2
  <2> QED
    BY <1>1, <2>1 DEF ScanVerilog
<1>4. Cardinality(include(q, t)) = 1 /\ {Add(p) : p \in include(q, t)} \subseteq Work(q)
  BY <1>2, <1>3 DEF OneOf
<1>5. IsFiniteSet(include(q, t))
  <2>1. include(q, t) \subseteq DOMAIN tree
    BY DEF include, Beside, SameName, walk
  <2> QED
    BY <1>1, <2>1, FS_Subset
<1>6. PICK x : include(q, t) = {x}
  BY <1>4, <1>5, FS_Singleton
<1>7. x \in files
  BY <1>2, <1>4, <1>6, Tasks DEF Did
<1>8. CASE Beside(q, t, DOMAIN tree) # {}
  BY <1>1, <1>6, <1>7, <1>8 DEF include, Bundled, Beside
<1>9. CASE Beside(q, t, DOMAIN tree) = {}
  <2>1. Beside(q, t, files) = {}
    BY <1>1, <1>9 DEF Beside
  <2>2. x \in Bundled(q, t)
    BY <1>6, <1>7, <1>9, <2>1 DEF include, Bundled, SameName
  <2>3. IsFiniteSet(Bundled(q, t))
    <3>1. Bundled(q, t) \subseteq files
      BY DEF Bundled, Beside, SameName
    <3> QED
      BY <1>1, <3>1, FS_Subset
  <2>4. Cardinality(Bundled(q, t)) = 1
    BY <1>1, <2>2, <2>3, FS_EmptySet, FS_CardinalityType
  <2>5. PICK y : Bundled(q, t) = {y}
    BY <2>3, <2>4, FS_Singleton
  <2> QED
    BY <1>6, <2>2, <2>5
<1> QED
  BY <1>8, <1>9

\* What the scanner included textually the last pass finds again.
LEMMA IncludedAgain ==
  ASSUME IInv, phase = "collect", todo = {}, Automatic => queue = {}, ~Ambiguous
  PROVE  included \subseteq TextualIncludes
<1> SUFFICES ASSUME NEW x \in included
             PROVE  x \in TextualIncludes
  OBVIOUS
<1>1. Automatic /\ queue = {}
  BY DEF IInv, Textual
<1>2. PICK p \in files : x \in IncludedBy(p)
  BY DEF IInv, Textual, Scanned
<1>3. p \in Texts
  BY <1>2 DEF Texts, IncludedBy
<1>4. PICK t \in tree[p].includes : x \in include(p, t)
  BY <1>2 DEF IncludedBy
<1>5. x \in Bundled(p, t)
  BY <1>1, <1>3, <1>4, IncludesAgree
<1> QED
  BY <1>3, <1>4, <1>5 DEF TextualIncludes

\* The choice of the files to compile.
LEMMA FinishKeeps ==
  ASSUME IInv, finish
  PROVE  IInv'
<1>1. CASE Ambiguous \/ Garbled \/ Oversize
  BY <1>1, RaiseKeeps DEF finish, Ambiguous
<1>2. CASE ~(Ambiguous \/ Garbled \/ Oversize)
  <2>0. /\ phase = "collect" /\ todo = {} /\ (Automatic => queue = {})
        /\ units' = {p \in files : p.ext = ".v" /\ p # project.entry
                                     /\ p \notin included \cup TextualIncludes}
        /\ phase' = "done"
        /\ UNCHANGED <<project, files, queue, todo, cache, indexed>>
    BY <1>2 DEF finish, Ambiguous, Automatic, Units
  <2>1. included \cup TextualIncludes = TextualIncludes
    BY <1>2, <2>0, IncludedAgain
  <2>2. Ended'
    <3>1. (~Ambiguous)' /\ TextualIncludes' = TextualIncludes
      BY <1>2, <2>0, SameBundled
    <3>2. units' = {p \in files : p.ext = ".v" /\ p # project.entry /\ p \notin TextualIncludes}
      BY <2>0, <2>1
    <3> QED
      BY <2>0, <3>1, <3>2, SameWork DEF Ended
  <2>3. BundleTypeOK' /\ Bundle'
    BY <2>0, SameBytes, SameTree DEF IInv, BundleTypeOK, Bundle
  <2>4. Answered' /\ Needed'
    BY <2>0, SameWork DEF IInv, Answered, Scanned, Did, Needed, Add, Index
  <2>5. Textual'
    BY <2>0 DEF Textual
  <2> QED
    BY <2>2, <2>3, <2>4, <2>5 DEF IInv
<1> QED
  BY <1>1, <1>2

\* Every step keeps the invariant.
LEMMA NextPreserves == IInv /\ [Next]_vars => IInv'
<1> SUFFICES ASSUME IInv, [Next]_vars
             PROVE  IInv'
  OBVIOUS
<1>1. CASE phase = "collect" /\ (index \/ fail)
  BY <1>1, IndexKeeps, RaiseKeeps DEF fail
<1>2. CASE phase = "collect" /\ \E w \in todo : w.do = "add" /\ add(w.path)
  BY <1>2, AddKeeps
<1>3. CASE phase = "collect" /\ \E p \in queue : scan(p)
  BY <1>3, ScanKeeps
<1>4. CASE finish
  BY <1>4, FinishKeeps
<1>5. CASE UNCHANGED vars
  <2>1. UNCHANGED <<project, files, queue, todo, cache, included, indexed, phase, units>>
    BY <1>5 DEF vars
  <2>2. BundleTypeOK' /\ Bundle'
    BY <2>1, SameBytes, SameTree DEF IInv, BundleTypeOK, Bundle
  <2>3. Answered' /\ Needed' /\ Textual'
    BY <2>1, SameWork DEF IInv, Answered, Scanned, Did, Needed, Textual, Add, Index
  <2>4. Ended'
    BY <2>1, SameWork, SameBundled DEF IInv, Ended
  <2> QED
    BY <2>2, <2>3, <2>4 DEF IInv
<1> QED
  BY <1>1, <1>2, <1>3, <1>4, <1>5 DEF Next

\* Discovery starts with no file.
LEMMA InitEstablishes == Init => IInv
<1> SUFFICES ASSUME Init
             PROVE  IInv
  OBVIOUS
<1> USE DEF Init
<1>1. IsFiniteSet({}) /\ Cardinality({}) = 0
  BY FS_EmptySet
<1>2. BundleTypeOK /\ Bundle
  <2>1. Cardinality(files) <= MAX_FILES /\ IsFiniteSet(files)
    BY <1>1, LimitAssumption
  <2>2. Bytes(cache) = 0
    BY NoBytes
  <2>3. Bytes(cache) <= MAX_BYTES
    BY <2>2, LimitAssumption
  <2> QED
    BY <2>1, <2>3 DEF BundleTypeOK, Bundle
<1>3. Answered /\ Textual /\ Ended
  BY DEF Answered, Scanned, Textual, Ended
<1>4. Needed
  <2>1. Automatic => todo = {Add(project.entry)}
    BY DEF Automatic, Listed
  <2> QED
    BY <2>1, Tasks DEF Needed
<1> QED
  BY <1>2, <1>3, <1>4 DEF IInv

\* The invariant holds in every reachable state.
LEMMA Invariance == Spec => []IInv
  BY InitEstablishes, NextPreserves, PTL DEF Spec

\* The variables keep their types, and the bundle and the text read stay within
\* their limits.
THEOREM TypeCorrect == Spec => []BundleTypeOK
<1>1. IInv => BundleTypeOK
  BY DEF IInv
<1> QED
  BY <1>1, Invariance, PTL

\* An automatic bundle is the least set of files that holds the entry and
\* whatever its files ask for, for any project.
THEOREM BundleCorrect == Spec => []BundleExact
<1>1. ASSUME IInv, phase = "done", Automatic
      PROVE  /\ project.entry \in files /\ Closed(files)
             /\ \A S \in SUBSET files : project.entry \in S /\ Closed(S) => S = files
  <2>1. todo = {} /\ Scanned = files
    BY <1>1 DEF IInv, Ended, Scanned
  <2>2. project.entry \in files
    BY <1>1, <2>1, Tasks DEF IInv, Answered, Did
  <2>3. Closed(files)
    BY <1>1, <2>1, Tasks DEF IInv, Answered, Did, Closed, Asked
  <2>4. \A S \in SUBSET files : project.entry \in S /\ Closed(S) => S = files
    BY <1>1 DEF IInv, Needed
  <2> QED
    BY <2>2, <2>3, <2>4
<1>2. IInv => BundleExact
  BY <1>1 DEF BundleExact, Automatic
<1> QED
  BY <1>2, Invariance, PTL

\* Every .v file of the bundle but the entry is compiled once, and an include
\* means to the compiler what it meant to the scanner.
THEOREM CompiledCorrect == Spec => []CompiledOnce
<1>1. ASSUME IInv, phase = "done", NEW p \in files, p # project.entry, p.ext = ".v"
      PROVE  p \in units <=> \A q \in Texts : \A t \in tree[q].includes : p \notin Bundled(q, t)
  <2>1. p \in units <=> p \notin TextualIncludes
    BY <1>1 DEF IInv, Ended
  <2>2. p \in TextualIncludes <=>
          \E q \in Texts : \E t \in tree[q].includes : p \in Bundled(q, t)
    BY DEF TextualIncludes
  <2> QED
    BY <2>1, <2>2
<1>2. ASSUME IInv, phase = "done", Automatic, NEW q \in Texts, NEW t \in tree[q].includes
      PROVE  include(q, t) = Bundled(q, t)
  BY <1>2, IncludesAgree DEF IInv, Ended
<1>3. IInv => CompiledOnce
  BY <1>1, <1>2 DEF CompiledOnce, Automatic
<1> QED
  BY <1>3, Invariance, PTL

\* What an import names is a sequence of names.
LEMMA ImportNames ==
  ASSUME project \in Projects, NEW p \in DOMAIN tree, NEW s \in tree[p].imports,
         s.level <= Len(p.dir)
  PROVE  ImportBase(p, s) \in Seq(STRING)
<1>1. p.dir \in Seq(STRING) /\ s.level \in Nat /\ s.parts \in Seq(STRING)
  BY ProjectAssumption DEF tree
<1>2. CASE s.level = 0
  BY <1>1, <1>2 DEF ImportBase
<1>3. CASE s.level # 0
  <2>1. Len(p.dir) - s.level + 1 \in 0 .. Len(p.dir)
    BY <1>1, <1>3
  <2>2. SubSeq(p.dir, 1, Len(p.dir) - s.level + 1) \in Seq(STRING)
    BY <1>1, <2>1
  <2> QED
    BY <1>1, <1>3, <2>2 DEF ImportBase
<1> QED
  BY <1>2, <1>3

\* The modules and packages an import names: the whole of it, and each package above.
LEMMA Above ==
  ASSUME NEW parts \in Seq(STRING), NEW i \in 1 .. Len(parts)
  PROVE  /\ i = Len(parts) => SubSeq(parts, 1, i) = parts
         /\ i # Len(parts) => SubSeq(parts, 1, i) \in Prefixes(parts) \ {<<>>, parts}
<1>1. i \in Nat /\ Len(parts) \in Nat /\ 1 <= i /\ i <= Len(parts)
  OBVIOUS
<1>2. Len(SubSeq(parts, 1, i)) = i
  BY <1>1
<1>3. SubSeq(parts, 1, i) \in Prefixes(parts)
  BY <1>1 DEF Prefixes
<1>4. SubSeq(parts, 1, i) # <<>>
  BY <1>1, <1>2
<1>5. i # Len(parts) => SubSeq(parts, 1, i) # parts
  BY <1>2
<1>6. SubSeq(parts, 1, Len(parts)) = parts
  BY <1>1
<1> QED
  BY <1>3, <1>4, <1>5, <1>6

\* Every import of a bundled Python file that resolves in the project resolves
\* in the bundle, with the packages above it.
THEOREM ImportsCorrect == Spec => []ImportsResolve
<1>1. ASSUME IInv, phase = "done", Automatic,
             NEW p \in files, p.ext = ".py", NEW s \in tree[p].imports,
             NEW i \in 1 .. Len(ImportBase(p, s))
      PROVE  LET above == SubSeq(ImportBase(p, s), 1, i)
                 last == i = Len(ImportBase(p, s))
             IN /\ Init_(above) \in DOMAIN tree =>
                     Init_(above) \in files \/ (last /\ Module(above) \in files)
                /\ last /\ Resolves(above, DOMAIN tree) => Resolves(above, files)
  <2> DEFINE base == ImportBase(p, s)
  <2>1. \A w \in Work(p) : Did(w) /\ w # Fail
    <3>1. todo = {} /\ Scanned = files
      BY <1>1 DEF IInv, Ended, Scanned
    <3> QED
      BY <1>1, <3>1, Tasks DEF IInv, Answered, Did
  <2>2. py_import(p, s) \subseteq Work(p)
    <3>1. Work(p) = ScanPython(p) BY <1>1 DEF Work
    <3>2. ~tree[p].garbled BY <2>1, <3>1 DEF ScanPython
    <3> QED BY <3>1, <3>2 DEF ScanPython
  <2>3. s.level <= Len(p.dir)
    <3>1. ~(s.level > Len(p.dir))
      BY <2>1, <2>2 DEF py_import
    <3>2. s.level \in Nat /\ Len(p.dir) \in Nat
      BY <1>1, ProjectAssumption DEF IInv, BundleTypeOK, Bundle, tree
    <3> QED
      BY <3>1, <3>2
  <2>4. base \in Seq(STRING)
    BY <1>1, <2>3, ImportNames DEF IInv, BundleTypeOK, Bundle
  <2>5. python_module(base) \subseteq files
    <3>1. ~(s.level > Len(p.dir))
      BY <2>1, <2>2 DEF py_import
    <3>2. \A q \in python_module(base) : Add(q) \in Work(p)
      BY <2>2, <3>1 DEF py_import
    <3> QED
      BY <2>1, <3>2, Tasks DEF Did
  <2>6. CASE i = Len(base)
    <3>1. SubSeq(base, 1, i) = base
      BY <1>1, <2>4, <2>6, Above
    <3>2. Module(base) \in DOMAIN tree => Module(base) \in files
      BY <2>5 DEF python_module, is_file
    <3>3. Module(base) \notin DOMAIN tree /\ Init_(base) \in DOMAIN tree => Init_(base) \in files
      BY <2>5 DEF python_module, is_file
    <3>4. Module(base) \in files => Module(base) \in DOMAIN tree
      BY <1>1 DEF IInv, Bundle
    <3> QED
      BY <2>6, <3>1, <3>2, <3>3, <3>4 DEF Resolves
  <2>7. CASE i # Len(base)
    <3>1. SubSeq(base, 1, i) \in Prefixes(base) \ {<<>>, base}
      BY <1>1, <2>4, <2>7, Above
    <3>2. Init_(SubSeq(base, 1, i)) \in DOMAIN tree => Init_(SubSeq(base, 1, i)) \in files
      BY <2>5, <3>1 DEF python_module, is_file
    <3> QED
      BY <2>7, <3>2
  <2> QED
    BY <2>6, <2>7
<1>2. IInv => ImportsResolve
  BY <1>1 DEF ImportsResolve, Automatic
<1> QED
  BY <1>2, Invariance, PTL
==============================================================================
