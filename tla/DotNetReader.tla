---------------------------- MODULE DotNetReader ----------------------------
(***************************************************************************)
(* .NET metadata of a PE image (pe/dotnet): the tables are read one after  *)
(* the other with sizes computed from the row counts, then the types are   *)
(* walked and the methods of each are handed to the loader.                *)
(*                                                                         *)
(* The metadata of an image is                                             *)
(*   rows    row counts, of the tables the valid mask names                *)
(*   wide    heaps with 32-bit indexes                                     *)
(*   lists   the methodList of each type definition                        *)
(*   strings whether there is a string heap                                *)
(* Where a table lies in the image is the format's, not the reader's, and  *)
(* is said with the properties; the reader gets the values of a type only  *)
(* if its cursor is where they are.                                        *)
(***************************************************************************)
EXTENDS Integers, Sequences, SequencesExt, FiniteSetsExt

CONSTANTS
  ManagedImages,
  Strays,   \* values a methodList may have when read from elsewhere
  MaxRows,  \* images with more types or methods are not walked
  U32Range  \* 2^32, or less if it still exceeds every index and row count

ASSUME U32RangeAssumption ==
  /\ U32Range \in Nat
  /\ \A i \in ManagedImages : \A t \in DOMAIN i.rows : i.rows[t] \in Nat /\ i.rows[t] + 2 < U32Range

\* The format (ECMA-335, II.22.37): the first type is <Module>, and the methods
\* of the types lie one behind the other from the first method on.
ASSUME ListsAssumption ==
  \A i \in ManagedImages :
    LET methods == i.rows["MethodDef"]
    IN  /\ "TypeDef" \notin DOMAIN i.rows => i.lists = <<>>
        /\ ({"TypeDef", "MethodDef"} \subseteq DOMAIN i.rows /\ i.rows["TypeDef"] <= MaxRows /\ methods <= MaxRows) =>
             /\ i.lists \in Seq(1 .. methods + 1)
             /\ i.lists # <<>> /\ i.lists[1] = 1
             /\ \A k, n \in DOMAIN i.lists : k <= n => i.lists[k] <= i.lists[n]

VARIABLES
  metadata,
  stage,     \* "tables", "types", "done", "threw", "undefined"
  read,      \* tables whose rows were read
  cursor,    \* offset of the next row
  lists,     \* methodList of the types that were read
  type,      \* the type to walk next
  reported   \* <<type, method>>, in the order of the callbacks

readerVars == <<metadata, stage, read, cursor, lists, type, reported>>

Width == 65536

-----------------------------------------------------------------------------
(* Rows and columns.                                                       *)

Fixed(n)        == [kind |-> "fixed", size |-> n]
Heap(h)         == [kind |-> "heap", heap |-> h]
Index(t)        == [kind |-> "index", table |-> t]
Tagged(bits, s) == [kind |-> "tagged", values |-> 2 ^ bits, tables |-> s]

U16 == Fixed(2)
U32 == Fixed(4)

\* getStringIdx, getGuidIdx, getBlobIdx.
StringIdx == Heap("Strings")
GuidIdx   == Heap("GUID")
BlobIdx   == Heap("Blob")

TypeDefOrRef   == Tagged(2, {"TypeDef", "TypeRef", "TypeSpec"})
Implementation == Tagged(2, {"File", "AssemblyRef", "ExportedType"})
MethodOrRef    == Tagged(1, {"MethodDef", "MemberRef"})

CustomAttributeParents ==
  {"MethodDef", "FieldDef", "TypeRef", "TypeDef", "ParamDef", "InterfaceImpl", "MemberRef",
   "Module", "Property", "Event", "StandaloneSig", "ModuleRef", "TypeSpec", "Assembly",
   "AssemblyRef", "File", "ExportedType", "ManifestResource"}

\* The get* functions: what each takes from the cursor, column by column.
\* The parameter list of getTableIdx names one table, that of getTaggedField
\* the tables whose greatest row count decides.
TypeColumns == [
  Module           |-> << U16, StringIdx, GuidIdx, GuidIdx, GuidIdx >>,
  TypeRef          |-> << Tagged(2, {"Module", "ModuleRef", "Assembly", "AssemblyRef"}), StringIdx, StringIdx >>,
  TypeDef          |-> << U32, StringIdx, StringIdx, TypeDefOrRef, Index("FieldDef"), Index("MethodDef") >>,
  FieldDef         |-> << U16, StringIdx, BlobIdx >>,
  MethodDef        |-> << U32, U16, U16, StringIdx, BlobIdx, Index("ParamDef") >>,
  ParamDef         |-> << U16, U16, StringIdx >>,
  InterfaceImpl    |-> << Index("TypeDef"), TypeDefOrRef >>,
  MemberRef        |-> << Tagged(2, {"TypeDef", "TypeRef", "ModuleRef", "MethodDef", "TypeSpec"}), StringIdx, StringIdx >>,
  Constant         |-> << U16, Tagged(2, {"FieldDef", "ParamDef", "Property"}), BlobIdx >>,
  CustomAttribute  |-> << Tagged(5, CustomAttributeParents), Tagged(3, {"MethodDef", "MemberRef"}), BlobIdx >>
]

\* Constants of fields, layouts, events, properties, implementations.
MemberColumns == [
  FieldMarshal     |-> << Tagged(1, {"FieldDef", "ParamDef"}), BlobIdx >>,
  DeclSecurity     |-> << U16, Tagged(2, {"TypeDef", "MethodDef", "Assembly"}), BlobIdx >>,
  ClassLayout      |-> << U16, U32, Index("TypeDef") >>,
  FieldLayout      |-> << U32, Index("FieldDef") >>,
  StandaloneSig    |-> << BlobIdx >>,
  EventMap         |-> << Index("TypeDef"), Index("Event") >>,
  Event            |-> << U16, StringIdx, TypeDefOrRef >>,
  PropertyMap      |-> << Index("TypeDef"), Index("Property") >>,
  Property         |-> << U16, StringIdx, BlobIdx >>,
  MethodSemantics  |-> << U16, Index("MethodDef"), Tagged(1, {"Event", "Property"}) >>,
  MethodImpl       |-> << Index("TypeDef"), MethodOrRef, MethodOrRef >>,
  ModuleRef        |-> << StringIdx >>,
  TypeSpec         |-> << BlobIdx >>,
  ImplMap          |-> << U16, Tagged(1, {"FieldDef", "MethodDef"}), StringIdx, Index("ModuleRef") >>,
  FieldRVA         |-> << U32, Index("FieldDef") >>
]

\* The assembly, what it refers to, its files and generic parameters.
AssemblyColumns == [
  Assembly         |-> << U32, U16, U16, U16, U16, U32, BlobIdx, StringIdx, StringIdx >>,
  AssemblyProcessor |-> << U32 >>,
  AssemblyOS       |-> << U32, U32, U32 >>,
  AssemblyRef      |-> << U16, U16, U16, U16, U32, U32, BlobIdx, StringIdx, StringIdx, BlobIdx >>,
  AssemblyRefProcessor |-> << U32, Index("AssemblyRef") >>,
  AssemblyRefOS    |-> << U32, U32, U32, Index("AssemblyRef") >>,
  File             |-> << U32, StringIdx, BlobIdx >>,
  ExportedType     |-> << U32, U32, StringIdx, StringIdx, Implementation >>,
  ManifestResource |-> << U32, U32, StringIdx, Implementation >>,
  NestedClass      |-> << Index("TypeDef"), Index("TypeDef") >>,
  GenericParam     |-> << U16, U16, TypeDefOrRef, StringIdx >>,
  GenericParamConstraint |-> << Index("GenericParam"), TypeDefOrRef >>
]

Known == DOMAIN TypeColumns \cup DOMAIN MemberColumns \cup DOMAIN AssemblyColumns

Columns == [ t \in Known |->
  IF t \in DOMAIN TypeColumns THEN TypeColumns[t]
  ELSE IF t \in DOMAIN MemberColumns THEN MemberColumns[t] ELSE AssemblyColumns[t] ]

\* Tables in the order of their numbers.  Of those the reader does not know
\* two are looked at, MethodPtr and MethodSpec.
Order == <<
  "Module", "TypeRef", "TypeDef", "FieldDef", "MethodPtr", "MethodDef", "ParamDef",
  "InterfaceImpl", "MemberRef", "Constant", "CustomAttribute", "FieldMarshal", "DeclSecurity",
  "ClassLayout", "FieldLayout", "StandaloneSig", "EventMap", "Event", "PropertyMap", "Property",
  "MethodSemantics", "MethodImpl", "ModuleRef", "TypeSpec", "ImplMap", "FieldRVA", "Assembly",
  "AssemblyProcessor", "AssemblyOS", "AssemblyRef", "AssemblyRefProcessor", "AssemblyRefOS",
  "File", "ExportedType", "ManifestResource", "NestedClass", "GenericParam",
  "MethodSpec", "GenericParamConstraint" >>

Present(t) == t \in DOMAIN metadata.rows

\* Mutant: the limit is rounded to the number of values.
TaggedSizeRounded(c) ==
  IF \E t \in c.tables : Present(t) /\ metadata.rows[t] > Width \div c.values THEN 4 ELSE 2

\* getTaggedField, maxRows: the tables that are there and leave less than
\* their bits of room need 32 bits.
TaggedSize(c) ==
  IF \E t \in c.tables : Present(t) /\ metadata.rows[t] > Width \div c.values - 1 THEN 4 ELSE 2

\* getTableIdx: nothing is taken for a table that is not there.
IndexSize(c) ==
  IF ~Present(c.table) THEN 0 ELSE IF metadata.rows[c.table] > Width - 1 THEN 4 ELSE 2

ColumnSize(c) ==
  CASE c.kind = "fixed"  -> c.size
    [] c.kind = "heap"   -> IF c.heap \in metadata.wide THEN 4 ELSE 2
    [] c.kind = "index"  -> IndexSize(c)
    [] c.kind = "tagged" -> TaggedSize(c)

\* The sum of the first n sizes.
UpTo(n, sizes) ==
  LET sum[k \in 0 .. Len(sizes)] == IF k = 0 THEN 0 ELSE sum[k - 1] + sizes[k]
  IN  sum[n]

SizeOf(columns) == UpTo(Len(columns), [ k \in DOMAIN columns |-> ColumnSize(columns[k]) ])

-----------------------------------------------------------------------------
(* The format (ECMA-335, II.22 and II.24.2.6): the columns a row really has *)
(* and how wide they are.                                                  *)

Corrected == [
  TypeRef         |-> << Tagged(2, {"Module", "ModuleRef", "AssemblyRef", "TypeRef"}), StringIdx, StringIdx >>,
  MemberRef       |-> << Tagged(3, {"TypeDef", "TypeRef", "ModuleRef", "MethodDef", "TypeSpec"}), StringIdx, BlobIdx >>,
  CustomAttribute |-> << Tagged(5, CustomAttributeParents \cup {"GenericParam", "GenericParamConstraint", "MethodSpec"}),
                         Tagged(3, {"MethodDef", "MemberRef"}), BlobIdx >>,
  AssemblyRef     |-> << U16, U16, U16, U16, U32, BlobIdx, StringIdx, StringIdx, BlobIdx >>,
  GenericParam    |-> << U16, U16, Tagged(1, {"TypeDef", "MethodDef"}), StringIdx >>,
  MethodPtr       |-> << Index("MethodDef") >>,
  MethodSpec      |-> << MethodOrRef, BlobIdx >>
]

Format == [ t \in ToSet(Order) |-> IF t \in DOMAIN Corrected THEN Corrected[t] ELSE Columns[t] ]

Rows(t) == IF Present(t) THEN metadata.rows[t] ELSE 0

FormatColumnSize(c) ==
  CASE c.kind = "fixed"  -> c.size
    [] c.kind = "heap"   -> IF c.heap \in metadata.wide THEN 4 ELSE 2
    [] c.kind = "index"  -> IF Rows(c.table) < 2 ^ 16 THEN 2 ELSE 4
    [] c.kind = "tagged" -> IF \A t \in c.tables : Rows(t) < 2 ^ 16 \div c.values THEN 2 ELSE 4

FormatRowSize(t) == UpTo(Len(Format[t]), [ k \in DOMAIN Format[t] |-> FormatColumnSize(Format[t][k]) ])

FormatTableSize(t) == Rows(t) * FormatRowSize(t)

\* Offset of the first row of the k-th table.
FormatStart(k) == UpTo(k - 1, [ n \in DOMAIN Order |-> FormatTableSize(Order[n]) ])

-----------------------------------------------------------------------------
(* getTables.                                                              *)

RowSize(t) == SizeOf(Columns[t])

\* The places in Order of the tables still to read.
Unread == { k \in DOMAIN Order : Present(Order[k]) /\ Order[k] \notin read }

\* What the type rows hold, read at the cursor.
ListsRead ==
  IF cursor = FormatStart(Min(Unread)) /\ RowSize("TypeDef") = FormatRowSize("TypeDef")
  THEN {metadata.lists}
  ELSE [1 .. Len(metadata.lists) -> Strays]

ReadTable ==
  /\ stage = "tables"
  /\ Unread # {}
  /\ LET t == Order[Min(Unread)]
     IN  /\ t \in Known
         /\ read' = read \cup {t}
         /\ cursor' = cursor + metadata.rows[t] * RowSize(t)
         /\ lists' \in (IF t = "TypeDef" THEN ListsRead ELSE {lists})
  /\ UNCHANGED <<metadata, stage, type, reported>>

\* All tables are read, or one is unknown: the result is not looked at.
EndTables ==
  /\ stage = "tables"
  /\ Unread # {} => Order[Min(Unread)] \notin Known
  /\ stage' = "types"
  /\ UNCHANGED <<metadata, read, cursor, lists, type, reported>>

-----------------------------------------------------------------------------
(* iterateTypes.                                                           *)

Walkable == Rows("TypeDef") <= MaxRows /\ Rows("MethodDef") <= MaxRows

\* getTableRows is a map's at().
TablesMissing ==
  /\ stage = "types"
  /\ ~(Present("TypeDef") /\ Present("MethodDef"))
  /\ stage' = "threw"
  /\ UNCHANGED <<metadata, read, cursor, lists, type, reported>>

Methods == IF "MethodDef" \in read THEN Rows("MethodDef") ELSE 0

\* Mutant: the count of a type includes its successor's first method.
ListCountOver(i) ==
  LET index == lists[i] % U32Range
      lastindex == IF i < Len(lists) THEN Min({Methods, (lists[i + 1] + 1) % U32Range}) ELSE Methods
  IN  (lastindex - index) % U32Range

\* getListCount, in unsigned arithmetic.
ListCount(i) ==
  LET index == (lists[i] + 1) % U32Range
      lastindex == IF i < Len(lists) THEN Min({Methods, (lists[i + 1] + 1) % U32Range}) ELSE Methods
  IN  (lastindex - index) % U32Range

\* DOTNET_INDEX: where the type's methods start, from 0.
First(i) == (lists[i] - 1) % U32Range

\* iterateMethods: up to the count or the table's end.
MethodsOf(i) == [ k \in 1 .. Min({ListCount(i), Methods - First(i)}) |-> <<i, First(i) + k>> ]

WalkType ==
  /\ stage = "types"
  /\ Walkable /\ Present("MethodDef") /\ type <= Len(lists)
  /\ First(type) <= Methods
  /\ reported' = reported \o MethodsOf(type)
  /\ type' = type + 1
  /\ UNCHANGED <<metadata, stage, read, cursor, lists>>

\* std::advance goes beyond the end of the methods, or a name is read from
\* m_corstrings, which the constructor left as it was.
WalkAstray ==
  /\ stage = "types"
  /\ Walkable /\ Present("MethodDef") /\ type <= Len(lists)
  /\ First(type) > Methods \/ ~metadata.strings
  /\ stage' = "undefined"
  /\ UNCHANGED <<metadata, read, cursor, lists, type, reported>>

EndTypes ==
  /\ stage = "types"
  /\ Walkable /\ Present("TypeDef") /\ Present("MethodDef")
  /\ type > Len(lists)
  /\ stage' = "done"
  /\ UNCHANGED <<metadata, read, cursor, lists, type, reported>>

ReaderInit ==
  /\ metadata \in ManagedImages
  /\ stage = "tables"
  /\ read = {}
  /\ cursor = 0
  /\ lists = <<>>
  /\ type = 1
  /\ reported = <<>>

ReaderNext == ReadTable \/ EndTables \/ TablesMissing \/ WalkType \/ WalkAstray \/ EndTypes

ReaderSpec == ReaderInit /\ [][ReaderNext]_readerVars

-----------------------------------------------------------------------------
(* Properties.                                                             *)

\* Tables whose rows the reader takes to be of another size than the format:
\* an index into an absent table is skipped, the flags of an assembly
\* reference are read twice, and some tags have other widths or tables.
Misjudged(t) ==
  \/ t = "AssemblyRef"
  \/ \E c \in ToSet(Columns[t]) : c.kind = "index" /\ ~Present(c.table)
  \/ t = "TypeRef" /\ (Rows("TypeRef") > 16383 \/ Rows("Assembly") > 16383)
  \/ t = "MemberRef" /\ \/ \E u \in Columns.MemberRef[1].tables : Rows(u) > 8191
                        \/ ("Strings" \in metadata.wide) # ("Blob" \in metadata.wide)
  \/ t = "CustomAttribute" /\ \E u \in {"GenericParam", "GenericParamConstraint", "MethodSpec"} : Rows(u) > 2047
  \/ t = "GenericParam" /\ \/ \E u \in TypeDefOrRef.tables : Rows(u) > 16383
                           \/ Rows("MethodDef") > 32767

\* Up to the first such table, every table is read where the format has it,
\* whatever the row counts and heaps: all widths of indexes and tags, at
\* their limits, add up.
RowsInPlace ==
  (stage = "tables" /\ Unread # {} /\ \A t \in read : ~Misjudged(t)) =>
    cursor = FormatStart(Min(Unread))

\* The type whose methods, from its methodList to the next one's, include m.
Owner(m) == CHOOSE i \in DOMAIN metadata.lists :
              /\ metadata.lists[i] <= m
              /\ i < Len(metadata.lists) => m < metadata.lists[i + 1]

\* If the types were read in place, every method is reported once, under the
\* type it belongs to; not so the last two of the table, which getListCount
\* leaves out or gives to an empty type.
MethodsOfTheirTypes ==
  (stage = "done" /\ lists = metadata.lists /\ "MethodDef" \in read) =>
    \A m \in 1 .. Methods - 2 :
      { reported[k] : k \in { j \in DOMAIN reported : reported[j][2] = m } } = { <<Owner(m), m>> }
      /\ Cardinality({ j \in DOMAIN reported : reported[j][2] = m }) = 1

\* Walking the types leaves the method table only if the types were read out
\* of place, the methods not at all, or there is no string heap.
AstrayOnlyIfMisread ==
  stage = "undefined" =>
    lists # metadata.lists \/ "MethodDef" \notin read \/ ~metadata.strings

\* The walk over the types reports what the tables hold, and nothing else as
\* long as the tables were read.
MethodsReported == MethodsOfTheirTypes /\ AstrayOnlyIfMisread

\* getListCount's comment: methodList is the last index of its type.
MethodListIsLast ==
  \A k \in DOMAIN reported :
    lists = metadata.lists => reported[k][2] <= metadata.lists[reported[k][1]]
=============================================================================
