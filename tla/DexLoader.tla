------------------------------ MODULE DexLoader ------------------------------
(***************************************************************************)
(* The DEX loader (dex/loader/dex.cpp) and the name caches of the Dalvik   *)
(* assembler (dex/assembler/dalvik.cpp).                                   *)
(*                                                                         *)
(* A process opens files in contexts.  Every context has a DexLoader of    *)
(* its own; the caches are static, one per process.  load asks the user    *)
(* which classes matter, and other contexts are rendered while the dialog  *)
(* is open.                                                                *)
(*                                                                         *)
(* A file is a record: classes in file order (each with its methods, the   *)
(* direct ones first), the names of method and field entries by index      *)
(* (NoName where a string is missing), the function signature of each      *)
(* method, and the offsets its data segment spans.                         *)
(***************************************************************************)
EXTENDS Integers, Sequences, FiniteSetsExt

CONSTANTS
  Contexts,  \* the host's contexts
  Files,     \* the files a process may open
  NoFile,    \* model value: nothing opened
  NoName,    \* model value: no text
  KeyRange   \* number of keys of a cache (2^16)

ASSUME NoFileAssumption == NoFile \notin Files /\ KeyRange \in Nat \ {0}

ASSUME ClassesAssumption ==
  \A f \in Files : Len(f.classes) \in Nat /\ DOMAIN f.classes = 1 .. Len(f.classes)

\* Instructions hold 16-bit method and field indexes.
ASSUME IndexAssumption ==
  \A f \in Files : \A k \in {"method", "field"} : DOMAIN f.names[k] \subseteq 0 .. KeyRange - 1

VARIABLES
  file,          \* file[c]: the file loaded in c
  status,        \* status[c]: how far c has come
  checked,       \* checked[c]: classes ticked in the dialog, by position
  requests,      \* requests[c]: the names the document of c was given
  methodAt,      \* m_methodids, m_methodidx: code address -> method index
  cache,         \* m_methodcache, m_fieldcache: key -> text, per kind
  functionCache, \* m_functioncache: address -> text
  shown,         \* the text rendered last
  opened         \* every file the process has opened (history)

contextVars == <<file, status, checked, requests, methodAt, opened>>
cacheVars   == <<cache, functionCache>>
vars == <<contextVars, cacheVars, shown>>

Kinds == {"method", "field"}

EmptyMap == [x \in {} |-> NoName]

-----------------------------------------------------------------------------
(* Loading.                                                                *)

\* The classes the dialog lists, as filterClasses pushes them back; positions
\* in this list select them.
Listed(f) ==
  LET classdefs[n \in 0 .. Len(f.classes)] ==
        IF n = 0 THEN << >>
        ELSE IF f.classes[n].descriptor THEN Append(classdefs[n - 1], f.classes[n])
        ELSE classdefs[n - 1]
  IN  classdefs[Len(f.classes)]

\* Platform classes are not ticked at first.
Prechecked(f) == { i \in DOMAIN Listed(f) : ~Listed(f)[i].platform }

\* A method is loaded if it has code, at an offset inside a segment.
Loadable(f, m) == m.code # 0 /\ m.code \in f.data

\* The methods loadClass asks about, as <<listed class, method>>, in the order
\* of these pairs; a class whose data does not verify has none.
Entries(f) ==
  UNION { { <<i, j>> : j \in { k \in DOMAIN Listed(f)[i].methods :
                               Listed(f)[i].verified /\ Loadable(f, Listed(f)[i].methods[k]) } } :
          i \in DOMAIN Listed(f) }

MethodOf(f, e) == Listed(f)[e[1]].methods[e[2]]

Codes(f) == { MethodOf(f, e).code : e \in Entries(f) }

Request(f, e, chosen) ==
  [ call |-> IF chosen THEN "ExportedFunction" ELSE "Imported",
    address |-> MethodOf(f, e).code, idx |-> MethodOf(f, e).idx ]

\* Mutant: the user's choice is looked up by the class's place in the file.
RequestsShifted(f, selected) ==
  { Request(f, e, \E n \in selected : f.classes[n] = Listed(f)[e[1]]) : e \in Entries(f) }

\* What loadMethod asks of the document: a function where the class is ticked,
\* else an import.
Requests(f, selected) == { Request(f, e, e[1] \in selected) : e \in Entries(f) }

\* loadMethod records every method it has asked for; of methods that share
\* their code the last one stays.
Records(f, map) ==
  /\ DOMAIN map = Codes(f)
  /\ \A a \in DOMAIN map :
       \E e \in Entries(f) :
         /\ MethodOf(f, e).code = a
         /\ MethodOf(f, e).idx = map[a]
         /\ \A d \in Entries(f) :
              MethodOf(f, d).code = a => d[1] < e[1] \/ (d[1] = e[1] /\ d[2] <= e[2])

\* The maps from addresses to method indexes.
MethodMaps(f) ==
  UNION { [ A -> { MethodOf(f, e).idx : e \in Entries(f) } ] : A \in SUBSET Codes(f) }

\* load up to the dialog.
Load(c, f) ==
  /\ status[c] = "new"
  /\ file' = [file EXCEPT ![c] = f]
  /\ status' = [status EXCEPT ![c] = "asking"]
  /\ checked' = [checked EXCEPT ![c] = Prechecked(f)]
  /\ opened' = opened \cup {f}
  /\ UNCHANGED <<requests, methodAt, cacheVars, shown>>

\* The user ticks a class or unticks it.
Toggle(c, i) ==
  /\ status[c] = "asking"
  /\ i \in DOMAIN Listed(file[c])
  /\ checked' = [checked EXCEPT ![c] = SymDiff(@, {i})]
  /\ UNCHANGED <<file, status, requests, methodAt, opened, cacheVars, shown>>

\* The dialog is left: load fails, what it has set so far stays.
Cancel(c) ==
  /\ status[c] = "asking"
  /\ status' = [status EXCEPT ![c] = "cancelled"]
  /\ UNCHANGED <<file, checked, requests, methodAt, opened, cacheVars, shown>>

\* The rest of filterClasses: every listed class is loaded.
Confirm(c) ==
  /\ status[c] = "asking"
  /\ status' = [status EXCEPT ![c] = "loaded"]
  /\ requests' = [requests EXCEPT ![c] = Requests(file[c], checked[c])]
  /\ \E map \in MethodMaps(file[c]) :
       Records(file[c], map) /\ methodAt' = [methodAt EXCEPT ![c] = map]
  /\ UNCHANGED <<file, checked, opened, cacheVars, shown>>

\* rdplugin_free deletes the loader; the caches stay.
Free(c) ==
  /\ status[c] \in {"loaded", "cancelled"}
  /\ status' = [status EXCEPT ![c] = "freed"]
  /\ methodAt' = [methodAt EXCEPT ![c] = EmptyMap]
  /\ UNCHANGED <<file, checked, requests, opened, cacheVars, shown>>

-----------------------------------------------------------------------------
(* Rendering.                                                              *)

Answer(c, kind, i, text) == [context |-> c, kind |-> kind, index |-> i, text |-> text]

\* Mutant: entries are cached modulo a smaller range than the indexes have.
KeyNarrow(i) == i % 2

\* Mutant: the keys are signed.
KeySigned(i) == IF i % KeyRange < KeyRange \div 2 THEN i % KeyRange ELSE (i % KeyRange) - KeyRange

\* The caches' keys are u16, the indexes u32.
Key(i) == i % KeyRange

\* Mutant: methods and fields share one cache.
RenderIndexShared(c, kind, i) ==
  /\ status[c] = "loaded"
  /\ LET names == file[c].names[kind]
     IN  \/ /\ i \notin DOMAIN names
            /\ shown' = Answer(c, kind, i, NoName)
            /\ UNCHANGED cache
         \/ /\ i \in DOMAIN names
            /\ Key(i) \in DOMAIN cache["method"]
            /\ shown' = Answer(c, kind, i, cache["method"][Key(i)])
            /\ UNCHANGED cache
         \/ /\ i \in DOMAIN names
            /\ Key(i) \notin DOMAIN cache["method"]
            /\ shown' = Answer(c, kind, i, names[i])
            /\ cache' = [cache EXCEPT !["method"] =
                           [ k \in DOMAIN @ \cup {Key(i)} |->
                               IF k = Key(i) THEN names[i] ELSE @[k] ]]
  /\ UNCHANGED <<contextVars, functionCache>>

\* getMethodInfo and getFieldInfo: the index is compared with the own file's
\* table, then the cache is asked, then the own file.
RenderIndex(c, kind, i) ==
  /\ status[c] = "loaded"
  /\ LET names == file[c].names[kind]
     IN  \/ /\ i \notin DOMAIN names
            /\ shown' = Answer(c, kind, i, NoName)
            /\ UNCHANGED cache
         \/ /\ i \in DOMAIN names
            /\ Key(i) \in DOMAIN cache[kind]
            /\ shown' = Answer(c, kind, i, cache[kind][Key(i)])
            /\ UNCHANGED cache
         \/ /\ i \in DOMAIN names
            /\ Key(i) \notin DOMAIN cache[kind]
            /\ shown' = Answer(c, kind, i, names[i])
            /\ cache' = IF names[i] = NoName THEN cache
                        ELSE [cache EXCEPT ![kind] =
                                [ k \in DOMAIN @ \cup {Key(i)} |->
                                    IF k = Key(i) THEN names[i] ELSE @[k] ]]
  /\ UNCHANGED <<contextVars, functionCache>>

\* renderFunction: the cache is asked first.  A function that is neither
\* cached nor recorded, or has no name, shows nothing.
RenderFunction(c, a) ==
  /\ status[c] = "loaded"
  /\ \/ /\ a \in DOMAIN functionCache
        /\ shown' = Answer(c, "function", a, functionCache[a])
        /\ UNCHANGED functionCache
     \/ /\ a \notin DOMAIN functionCache
        /\ a \in DOMAIN methodAt[c]
        /\ LET text == file[c].signature[methodAt[c][a]]
           IN  /\ text # NoName
               /\ shown' = Answer(c, "function", a, text)
               /\ functionCache' = [ b \in DOMAIN functionCache \cup {a} |->
                                       IF b = a THEN text ELSE functionCache[b] ]
  /\ UNCHANGED <<contextVars, cache>>

-----------------------------------------------------------------------------

Nothing == Answer(NoFile, "method", 0, NoName)

Init ==
  /\ file = [c \in Contexts |-> NoFile]
  /\ status = [c \in Contexts |-> "new"]
  /\ checked = [c \in Contexts |-> {}]
  /\ requests = [c \in Contexts |-> {}]
  /\ methodAt = [c \in Contexts |-> EmptyMap]
  /\ cache = [k \in Kinds |-> EmptyMap]
  /\ functionCache = EmptyMap
  /\ shown = Nothing
  /\ opened = {}

\* What the host asks for: the indexes of instructions, and its functions.
Indexes(c) == UNION { DOMAIN file[c].names[k] : k \in Kinds } \cup {KeyRange - 1}
Functions(c) == { r.address : r \in { q \in requests[c] : q.call = "ExportedFunction" } }

User(c) ==
  \/ \E f \in Files : Load(c, f)
  \/ file[c] # NoFile /\ \E i \in DOMAIN Listed(file[c]) : Toggle(c, i)
  \/ Cancel(c)
  \/ Confirm(c)
  \/ Free(c)

Listing(c) ==
  \/ file[c] # NoFile /\ \E kind \in Kinds : \E i \in Indexes(c) : RenderIndex(c, kind, i)
  \/ \E a \in Functions(c) : RenderFunction(c, a)

Next == \E c \in Contexts : User(c) \/ Listing(c)

Spec == Init /\ [][Next]_vars

-----------------------------------------------------------------------------
(* Properties.                                                             *)

Names == INSTANCE DalvikNames

\* The state keeps its shape: ticks are positions of the dialog, caches hold
\* keys of their range, and only contexts that loaded a file have names.
TypeOK ==
  /\ file \in [Contexts -> Files \cup {NoFile}]
  /\ status \in [Contexts -> {"new", "asking", "loaded", "cancelled", "freed"}]
  /\ DOMAIN checked = Contexts
  /\ opened = { file[c] : c \in Contexts } \ {NoFile}
  /\ \A c \in Contexts : status[c] = "new" <=> file[c] = NoFile
  /\ \A c \in Contexts : file[c] # NoFile => checked[c] \subseteq DOMAIN Listed(file[c])
  /\ DOMAIN cache = Kinds
  /\ \A k \in Kinds : DOMAIN cache[k] \subseteq 0 .. KeyRange - 1

\* Each method with code becomes a function or an import as its own class was
\* left in the dialog, although the dialog numbers only the classes that have
\* a descriptor (dex.cpp, filterClasses).
LoadedAsAnswered ==
  \A c \in Contexts : status[c] = "loaded" =>
    \A p \in DOMAIN file[c].classes :
      LET class    == file[c].classes[p]
          position == Cardinality({ q \in 1 .. p : file[c].classes[q].descriptor })
      IN  (class.descriptor /\ class.verified) =>
            \A j \in DOMAIN class.methods :
              Loadable(file[c], class.methods[j]) =>
                [ call |-> IF position \in checked[c] THEN "ExportedFunction" ELSE "Imported",
                  address |-> class.methods[j].code,
                  idx |-> class.methods[j].idx ] \in requests[c]

\* What the document was told and what the loader remembers agree: every name
\* has a method recorded for its address and the other way round, so a function
\* of the document can be rendered (loadMethod, renderFunction).
RecordedAsRequested ==
  \A c \in Contexts : status[c] = "loaded" =>
    /\ DOMAIN methodAt[c] = { r.address : r \in requests[c] }
    /\ \A a \in DOMAIN methodAt[c] :
         \E r \in requests[c] : r.address = a /\ r.idx = methodAt[c][a]

\* A load leaves what the user asked for, in the document and in the loader.
SelectionRespected == LoadedAsAnswered /\ RecordedAsRequested

\* The caches outlive the contexts and are shared by all of them: the text shown
\* is at least the entry's name in some file this process has opened.
NamesOfOpenedFiles ==
  shown # Nothing =>
    \E f \in opened : shown.text \in Names!Texts(f, shown.kind, shown.index)

\* As long as the process has opened one file only, in however many contexts,
\* the cached listing shows what an uncached one would: every step is one of
\* the listing without caches (DalvikNames), or leaves it alone.
ShowsOwnNames ==
  /\ Names!Init
  /\ [][Cardinality(opened') <= 1 => [Names!Next]_(Names!vars)]_vars
=============================================================================
