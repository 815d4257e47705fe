------------------------------- MODULE SourceDiscovery -------------------------------
(***************************************************************************)
(* Which files a design is uploaded with (_discovery.py, _project.py).     *)
(*                                                                         *)
(* A path is its directory below the root (a sequence of names), a stem    *)
(* and a suffix; a project maps the paths that are files to what the       *)
(* scanners extract from their text.  The order in which the files found   *)
(* are added is left open: it is the order of the archive, and an error    *)
(* anywhere ends the whole discovery, so neither the bundle nor whether    *)
(* there is one depends on it.                                             *)
(***************************************************************************)
EXTENDS Integers, Sequences, FiniteSetsExt, SequencesExt

CONSTANTS Projects,    \* [tree, entry, mode, sources]: what discover is called on
          SUFFIXES, MAX_FILES,
          MAX_BYTES,   \* of text scanned
          MAX_ENTRIES, \* of directory entries walked
          MAX_MANIFEST, MAX_BUNDLE, MAX_UPLOAD,
                       \* of the manifest, of it and the content, of the archive
          manifest(_, _), \* the size of one, for an entry and units
          Hidden,      \* names that begin with a dot
          Skipped,     \* directory names the walk leaves out besides
          Odd,         \* names with unsupported characters
          casefold(_)  \* of a name

ASSUME LimitAssumption == MAX_FILES \in Nat /\ MAX_BYTES \in Nat

\* A project has finitely many files; a name is a string.
ASSUME ProjectAssumption ==
    \A j \in Projects :
        /\ IsFiniteSet(DOMAIN j.tree)
        /\ \A p \in DOMAIN j.tree :
              /\ p.dir \in Seq(STRING)
              /\ \A s \in j.tree[p].imports : s.level \in Nat /\ s.parts \in Seq(STRING)

VARIABLES project,
          files,     \* the bundle so far
          queue,     \* files of it still to scan
          todo,      \* what is left of the file being scanned
          cache,     \* files read
          included,  \* files brought in textually
          indexed,   \* the module index was built
          phase,     \* "collect", then "done" or "error"
          units      \* the separate compilation units, at the end

vars == <<project, files, queue, todo, cache, included, indexed, phase, units>>

tree == project.tree
is_file(p) == p \in DOMAIN tree

\* os.path.abspath of target below dir: ".." takes back a directory, or leaves.
Join(dir, target) ==
    [target EXCEPT !.dir =
        FoldLeft(LAMBDA d, n : IF n = ".." /\ d # <<>> /\ d[Len(d)] # ".."
                                 THEN SubSeq(d, 1, Len(d) - 1) ELSE Append(d, n),
                 dir, target.dir)]
Root(target) == Join(<<>>, target)

InRoot(p) == p.dir = <<>> \/ p.dir[1] # ".."
\* The name in the bundle; only the entry may lie outside the root.
name_for(p) == IF InRoot(p) THEN p ELSE [p EXCEPT !.dir = <<>>]
Nameable(p) == InRoot(p) \/ p = project.entry
Names(p) == {p.stem} \cup {p.dir[i] : i \in DOMAIN p.dir}
Supported(p) == p.ext \in SUFFIXES /\ Names(p) \cap Odd = {}
Fold(p) == [dir |-> [i \in DOMAIN p.dir |-> casefold(p.dir[i])],
            stem |-> casefold(p.stem), ext |-> p.ext]

\* The directories a walk enters, and the source files it yields.
Entered(d) == \A i \in DOMAIN d : d[i] \notin Skipped \cup Hidden
walk == {p \in DOMAIN tree : InRoot(p) /\ Entered(p.dir) /\ p.stem \notin Hidden
                             /\ p.ext \in SUFFIXES /\ tree[p].link # "folder"}
Walked ==
    Cardinality({p \in DOMAIN tree : InRoot(p) /\ Entered(p.dir)})
      + Cardinality({d \in UNION {Prefixes(p.dir) : p \in DOMAIN tree} :
                       d # <<>> /\ d[1] # ".." /\ Entered(SubSeq(d, 1, Len(d) - 1))})
TooWide == Walked > MAX_ENTRIES

Add(p) == [do |-> "add", path |-> p]
Fail == [do |-> "fail"]
Index == [do |-> "index"]
OneOf(found) ==
    IF Cardinality(found) = 1 THEN {Add(p) : p \in found} ELSE {Fail}

--------------------------------------------------------------------------------------
(* What a scanned file asks for. *)
Module(parts) == [dir |-> SubSeq(parts, 1, Len(parts) - 1),
                  stem |-> parts[Len(parts)], ext |-> ".py"]
Init_(parts) == [dir |-> parts, stem |-> "__init__", ext |-> ".py"]

python_moduleAlone(parts) ==
    IF is_file(Module(parts)) THEN {Module(parts)}
    ELSE {q \in {Init_(parts)} : is_file(q)}

python_module(parts) ==
    (IF is_file(Module(parts)) THEN {Module(parts)}
     ELSE {q \in {Init_(parts)} : is_file(q)})
    \cup {q \in {Init_(d) : d \in Prefixes(parts) \ {<<>>, parts}} : is_file(q)}

\* An import statement: level 0 and the parts of a module, or the level of a relative
\* one; names are what "from" takes, each of which may be a module.
ImportBase(p, s) ==
    (IF s.level = 0 THEN <<>> ELSE SubSeq(p.dir, 1, Len(p.dir) - s.level + 1)) \o s.parts
py_import(p, s) ==
    IF s.level > Len(p.dir) THEN {Fail}
    ELSE {Add(q) : q \in python_module(ImportBase(p, s)) \cup
                         UNION {python_module(Append(ImportBase(p, s), n)) : n \in s.names}}

\* The file of a literal include: beside the includer, below the root, or the only one
\* of that name.
Beside(p, target, among) ==
    IF Join(p.dir, target) \in among THEN {Join(p.dir, target)}
    ELSE IF Root(target) \in among THEN {Root(target)}
    ELSE {}
SameName(target, among) ==
    {q \in among : target.dir = <<>> /\ q.stem = target.stem /\ q.ext = target.ext}
include(p, target) ==
    IF Beside(p, target, DOMAIN tree) # {} THEN Beside(p, target, DOMAIN tree)
    ELSE SameName(target, walk)
Walks(p, target) == Beside(p, target, DOMAIN tree) = {}

definitions(m) ==
    {d \in walk \X (1 .. 2) :
        d[1].ext = ".v" /\ d[2] \in DOMAIN tree[d[1]].defines
                       /\ tree[d[1]].defines[d[2]] = m}
instance_of(m) ==
    IF Cardinality(definitions(m)) > 1 THEN {Fail} ELSE {Add(d[1]) : d \in definitions(m)}

\* A garbled file is no UTF-8, or no Python.
ScanPython(p) ==
    IF tree[p].garbled THEN {Fail} ELSE UNION {py_import(p, s) : s \in tree[p].imports}
ScanVerilog(p) ==
    IF tree[p].macro \/ tree[p].garbled
         \/ (TooWide /\ \E t \in tree[p].includes : Walks(p, t)) THEN {Fail}
    ELSE (UNION {OneOf(include(p, t)) : t \in tree[p].includes})
           \cup {Add(Root(t)) : t \in tree[p].readmem}
           \cup (UNION {instance_of(m) : m \in tree[p].instances})
           \cup {Index}

Work(p) == CASE p.ext = ".py" -> ScanPython(p)
             [] p.ext \in {".v", ".vh"} -> ScanVerilog(p)
             [] OTHER -> {}

IncludedBy(p) == IF p.ext \in {".v", ".vh"}
                   THEN UNION {include(p, t) : t \in tree[p].includes} ELSE {}

--------------------------------------------------------------------------------------
Bytes(S) == MapThenSumSet(LAMBDA p : tree[p].size, S)
Readable(p) == Nameable(p) /\ is_file(p) /\ tree[p].link = "none"
               /\ Bytes(cache \cup {p}) <= MAX_BYTES

\* What the caller named besides the entry: an explicit list, a whole directory, or
\* nothing, and then the text of the files is followed.
ListedAlways(j) == {Add(p) : p \in walk}

Listed(j) ==
    CASE j.mode = "sources" ->
           IF \E i, k \in DOMAIN j.sources :
                 j.sources[i] = j.entry \/ (i # k /\ j.sources[i] = j.sources[k])
             THEN {Fail} ELSE {Add(j.sources[i]) : i \in DOMAIN j.sources}
      [] j.mode = "dir" -> IF TooWide THEN {Fail} ELSE {Add(p) : p \in walk}
      [] OTHER -> {}

Init ==
    /\ project \in Projects
    /\ files = {} /\ queue = {} /\ cache = {} /\ included = {} /\ units = {}
    /\ todo = {Add(project.entry)} \cup Listed(project)
    /\ indexed = FALSE /\ phase = "collect"

raise == phase' = "error" /\ UNCHANGED <<project, files, queue, todo, cache, included,
                                         indexed, units>>

SameEntry(q, p) == Fold(name_for(q)) = Fold(name_for(p))

AcceptableOneMore(p) ==
    /\ Nameable(p) /\ Supported(name_for(p)) /\ Readable(p)
    /\ \A q \in files : SameEntry(q, p) => q = p
    /\ p \in files \/ Cardinality(files) <= MAX_FILES

Acceptable(p) ==
    /\ Nameable(p) /\ Supported(name_for(p))
    /\ \A q \in files : SameEntry(q, p) => q = p
    /\ p \in files \/ (Cardinality(files) < MAX_FILES /\ Readable(p))

add(p) ==
    /\ Add(p) \in todo
    /\ IF Acceptable(p)
         THEN /\ files' = files \cup {p} /\ cache' = cache \cup {p}
              /\ queue' = IF p \in files THEN queue ELSE queue \cup {p}
              /\ todo' = todo \ {Add(p)}
              /\ UNCHANGED <<project, included, indexed, phase, units>>
         ELSE raise

\* The first Verilog file scanned has every .v file of the folder read for the modules
\* it defines: one that cannot be read ends the discovery, needed or not.
index ==
    /\ Index \in todo
    /\ LET vs == {p \in walk : p.ext = ".v"} IN
       IF indexed \/ (/\ ~TooWide /\ Bytes(cache \cup vs) <= MAX_BYTES
                       /\ \A p \in vs : tree[p].link = "none" /\ ~tree[p].garbled)
         THEN /\ cache' = (IF indexed THEN cache ELSE cache \cup vs) /\ indexed' = TRUE
              /\ todo' = todo \ {Index}
              /\ UNCHANGED <<project, files, queue, included, phase, units>>
         ELSE raise

fail == Fail \in todo /\ raise

scan(p) ==
    /\ project.mode = "auto" /\ todo = {} /\ p \in queue
    /\ queue' = queue \ {p} /\ todo' = Work(p)
    /\ included' = included \cup IncludedBy(p)
    /\ UNCHANGED <<project, files, cache, indexed, phase, units>>

\* The last pass looks the includes up among the bundled files only.
Bundled(p, target) ==
    IF Beside(p, target, files) # {} THEN Beside(p, target, files)
    ELSE SameName(target, files)
Texts == {p \in files : p.ext \in {".v", ".vh"}}
NoTextualIncludes == {}

TextualIncludes == UNION {UNION {Bundled(p, t) : t \in tree[p].includes} : p \in Texts}

Garbled == \E p \in Texts : tree[p].garbled
Units == {p \in files : p.ext = ".v" /\ p # project.entry
                         /\ p \notin included \cup TextualIncludes}

\* source_bundle: a lone file is uploaded as it is; of several the manifest, the
\* content with it and the archive have their limits.
Oversize ==
    /\ Cardinality(files) > 1
    /\ \/ manifest(project.entry, Units) > MAX_MANIFEST
       \/ manifest(project.entry, Units) + Bytes(files) > MAX_BUNDLE
       \/ MapThenSumSet(LAMBDA p : tree[p].packed, files) > MAX_UPLOAD

finish ==
    /\ phase = "collect" /\ todo = {} /\ (project.mode = "auto" => queue = {})
    /\ IF \/ \E p \in Texts : \E t \in tree[p].includes : Cardinality(Bundled(p, t)) > 1
          \/ Garbled
          \/ Oversize
         THEN raise
         ELSE /\ included' = included \cup TextualIncludes
              /\ units' = Units
              /\ phase' = "done"
              /\ UNCHANGED <<project, files, queue, todo, cache, indexed>>

Next ==
    \/ phase = "collect" /\ (index \/ fail)
    \/ phase = "collect" /\ \E w \in todo : w.do = "add" /\ add(w.path)
    \/ phase = "collect" /\ \E p \in queue : scan(p)
    \/ finish
Spec == Init /\ [][Next]_vars /\ WF_vars(Next)

--------------------------------------------------------------------------------------
BundleTypeOK ==
    /\ project \in Projects /\ phase \in {"collect", "done", "error"}
    /\ queue \subseteq files /\ files \subseteq cache
    /\ units \subseteq files /\ indexed \in BOOLEAN
    /\ Cardinality(files) <= MAX_FILES /\ Bytes(cache) <= MAX_BYTES

\* The files a file asks for.
Asked(p) == {w.path : w \in {x \in Work(p) : x.do = "add"}}
Closed(S) == \A p \in S : Asked(p) \subseteq S

\* An automatic bundle is exactly what the entry needs, directly or through other
\* files: nothing a bundled file asks for is missing, and no file is uploaded that no
\* bundled file asks for, in cycles and diamonds too.
BundleExact ==
    phase = "done" /\ project.mode = "auto" =>
        /\ project.entry \in files /\ Closed(files)
        /\ \A S \in SUBSET files : project.entry \in S /\ Closed(S) => S = files

\* Inside the bundle every import of a bundled Python file that resolves in the project
\* resolves again: the module or the package is there, and so is the __init__.py of
\* each package above it that has one.
Resolves(parts, among) ==
    \/ Module(parts) \in among
    \/ Init_(parts) \in among
ImportsResolve ==
    phase = "done" /\ project.mode = "auto" =>
        \A p \in files : p.ext = ".py" => \A s \in tree[p].imports :
            \A i \in 1 .. Len(ImportBase(p, s)) :
                LET above == SubSeq(ImportBase(p, s), 1, i)
                    last == i = Len(ImportBase(p, s))
                IN /\ Init_(above) \in DOMAIN tree =>
                        Init_(above) \in files \/ (last /\ Module(above) \in files)
                   /\ last /\ Resolves(above, DOMAIN tree) => Resolves(above, files)

\* Every bundled .v file but the entry is compiled once: as a unit of its own, or as
\* the text of the files that include it; and what an include means to the scanner, in
\* the project, it means to the compiler, which sees the unpacked bundle.
CompiledOnce ==
    phase = "done" =>
        /\ \A p \in files \ {project.entry} : p.ext = ".v" =>
              (p \in units <=> \A q \in Texts : \A t \in tree[q].includes :
                                   p \notin Bundled(q, t))
        /\ project.mode = "auto" =>
              \A q \in Texts : \A t \in tree[q].includes : include(q, t) = Bundled(q, t)
======================================================================================
