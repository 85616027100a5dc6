----------------------------- MODULE MCPELoader -----------------------------
(***************************************************************************)
(* Small images for PELoader.  Addresses are small numbers: a section has  *)
(* a size of 8, the section alignment is 4 and a thunk is 1 or 2 units.     *)
(***************************************************************************)
EXTENDS PELoader

Section(name, va, vsize, ptr, raw, flags) ==
  [name |-> name, va |-> va, vsize |-> vsize, ptr |-> ptr, raw |-> raw, flags |-> flags]

Text == Section(".text", 4, 8, 2, 8, {"Code"})

NoDotNet    == [rva |-> 0, cb |-> FALSE, major |-> 2, meta |-> 0, valid |-> FALSE, methods |-> {}]
NoExports   == [rva |-> 0, tables |-> {}, base |-> 1, functions |-> <<>>, names |-> <<>>]
NoImports   == [rva |-> 0, descriptors |-> <<>>]
NoTLS       == [rva |-> 0, callbacks |-> <<>>]
NoConfig    == [rva |-> 0, cookie |-> 0]
NoException == [rva |-> 0, entries |-> <<>>]
NoDebug     == [rva |-> 0, codeview |-> FALSE]
NoResources == [rva |-> 0, rcdata |-> FALSE, entries |-> <<>>,
                misread |-> [producer |-> 1, unit |-> "none"]]

\* A native image with one code section and nothing else.
Plain ==
  [ sections |-> <<Text>>, align |-> 4, ep |-> 5, thunk |-> 1,
    dotnet |-> NoDotNet, exports |-> NoExports, imports |-> NoImports,
    tls |-> NoTLS, config |-> NoConfig, exceptions |-> NoException,
    coff |-> FALSE, debug |-> NoDebug, resources |-> NoResources,
    linker |-> [major |-> 0, minor |-> 0] ]

-----------------------------------------------------------------------------
(* Images that differ in what the classifier looks at. *)

\* 90 resolves nowhere: a descriptor whose thunks cannot be read.
Descriptors ==
  { [ft |-> 8, oft |-> o, lib |-> l, thunks |-> <<>>] :
      o \in {0, 9, 90}, l \in {"msvbvm60", "libstdcpp", "msvcr90", "msvcp140", "other"} }

ImportTables ==
  { [rva |-> 4, descriptors |-> ds] :
      ds \in {<<>>} \cup { <<d>> : d \in Descriptors }
                    \cup { <<d, e>> : d \in Descriptors, e \in Descriptors } }

CorHeaders ==
  { [rva |-> r, cb |-> c, major |-> m, meta |-> 6, valid |-> v,
     methods |-> {[rva |-> 7, name |-> <<"Main">>]}] :
      r \in {5, 90}, c \in BOOLEAN, m \in {1, 2}, v \in BOOLEAN }

ResourceTables ==
  { [rva |-> 6, rcdata |-> TRUE, entries |-> es, misread |-> [producer |-> 3, unit |-> "ImageHlp"]] :
      es \in { <<>>, <<[named |-> FALSE, label |-> "#1"]>>,
               <<[named |-> FALSE, label |-> "#1"], [named |-> TRUE, label |-> "PACKAGEINFO"]>> } }

Linkers == { [major |-> 2, minor |-> 25], [major |-> 6, minor |-> 0], [major |-> 14, minor |-> 1] }

ClassifiedImages ==
  { [Plain EXCEPT !.imports = i, !.debug = g, !.linker = l] :
      i \in ImportTables, l \in Linkers,
      g \in {NoDebug, [rva |-> 7, codeview |-> TRUE]} }
  \cup { [Plain EXCEPT !.dotnet = c, !.imports = i] :
      c \in CorHeaders, i \in {NoImports, [rva |-> 4, descriptors |-> <<[ft |-> 8, oft |-> 9, lib |-> "msvbvm60", thunks |-> <<>>]>>]} }
  \cup { [Plain EXCEPT !.resources = r, !.linker = l, !.imports = i] :
      r \in ResourceTables, l \in Linkers,
      i \in {NoImports, [rva |-> 4, descriptors |-> <<[ft |-> 8, oft |-> 9, lib |-> "msvbvm60", thunks |-> <<>>]>>]} }

-----------------------------------------------------------------------------
(* Images that differ in their layout and in the symbols they hold. *)

Layouts ==
  { <<Text>>,
    <<Text, Section(".data", 12, 6, 12, 3, {"Data"})>>,
    <<Text, Section(".bss", 12, 6, 0, 0, {"Data"})>>,
    <<Text, Section(".idata", 12, 0, 12, 7, {"Data"})>>,
    <<Text, Section("sect1", 12, 5, 10, 9, {})>> }

Thunks == { [ordinal |-> FALSE, value |-> 7, name |-> "a"],
            [ordinal |-> FALSE, value |-> 90, name |-> "b"],
            [ordinal |-> TRUE, value |-> 1, name |-> ""],
            [ordinal |-> TRUE, value |-> 2, name |-> ""] }

ThunkLists == { <<>> } \cup { <<t>> : t \in Thunks }
                \cup { <<t, u>> : t \in Thunks, u \in Thunks }

ExportTables ==
  { [rva |-> 5, tables |-> {5, 6}, base |-> 1, functions |-> fs, names |-> ns] :
      fs \in { <<6, 0, 13>>, <<6, 6>> },
      ns \in { <<>>, <<[ordinal |-> 0, name |-> <<"f">>]>>,
               <<[ordinal |-> 1, name |-> <<"g">>], [ordinal |-> 1, name |-> <<"h">>]>> } }

LaidOutImages ==
  { [Plain EXCEPT !.sections = s, !.ep = e, !.exports = x,
                  !.tls = [rva |-> 5, callbacks |-> <<24, 25>>],
                  !.config = [rva |-> 5, cookie |-> 28],
                  !.coff = (e = 5),
                  !.exceptions = [rva |-> 5, entries |->
                     <<[begin |-> 5, odd |-> FALSE, unwind |-> 6, chained |-> FALSE],
                       [begin |-> 6, odd |-> FALSE, unwind |-> 6, chained |-> TRUE]>>]] :
      s \in Layouts, e \in {0, 5, 13}, x \in ExportTables \cup {NoExports} }
  \cup { [Plain EXCEPT !.sections = s, !.thunk = w,
                       !.imports = [rva |-> 4, descriptors |->
                          <<[ft |-> 5, oft |-> o, lib |-> "other", thunks |-> t],
                            [ft |-> 9, oft |-> 0, lib |-> "msvcr90", thunks |-> u]>>]] :
      s \in {<<Text>>}, w \in {1, 2}, o \in {0, 7}, t \in ThunkLists, u \in ThunkLists }

AllImages == ClassifiedImages \cup LaidOutImages

Ordinals == { <<"other", 1>> }
=============================================================================
