---------------------------- MODULE PEClassifier ----------------------------
(***************************************************************************)
(* The compiler classifier of the PE loader (pe/classifier.cpp).           *)
(*                                                                         *)
(* The C++ object is one field, m_classification, which every step of the  *)
(* load overwrites in its own way.  Each member function is an operator    *)
(* from the old classification and the evidence it looks at to the new     *)
(* one; PELoader.tla calls them in the order in which pe.cpp does.         *)
(*                                                                         *)
(* A library name is the family its lower-case prefix selects ("msvbvm50", *)
(* "libstdc++", "msvcr90", ...); every other name is "other".              *)
(***************************************************************************)
EXTENDS Naturals

VisualBasic == {"VisualBasic_5", "VisualBasic_6"}
DotNet      == {"DotNet_1", "DotNet"}

VisualStudio ==
  { "VisualStudio", "VisualStudio_4", "VisualStudio_5", "VisualStudio_6",
    "VisualStudio_2002", "VisualStudio_2003", "VisualStudio_2005",
    "VisualStudio_2008", "VisualStudio_2010", "VisualStudio_2012",
    "VisualStudio_2013", "VisualStudio_2015", "VisualStudio_2017" }

Delphi ==
  { "BorlandDelphi", "BorlandDelphi_3", "BorlandDelphi_6", "BorlandDelphi_7",
    "BorlandDelphi_9_10", "BorlandDelphi_XE", "BorlandDelphi_XE2_6" }

Classifications ==
  {"Unclassified", "MinGW", "BorlandCpp"}
    \cup VisualBasic \cup VisualStudio \cup DotNet \cup Delphi

-----------------------------------------------------------------------------

IsClassified(c)  == c # "Unclassified"
IsVisualBasic(c) == c \in VisualBasic
IsDotNet(c)      == c \in DotNet
\* checkBorland compares with the two unversioned values only.
IsBorland(c)     == c \in {"BorlandDelphi", "BorlandCpp"}

\* Libraries that decide at once, whatever was decided before.
Marker ==
  [ msvbvm50 |-> "VisualBasic_5",
    msvbvm60 |-> "VisualBasic_6",
    libstdcpp |-> "MinGW" ]

\* Microsoft runtimes that decide only an image nothing more precise did.
Runtime ==
  [ msvcp50 |-> "VisualStudio_5",
    msvcp60 |-> "VisualStudio_6",     msvcrt |-> "VisualStudio_6",
    msvcp70 |-> "VisualStudio_2002",  msvcr70 |-> "VisualStudio_2002",
    msvcp71 |-> "VisualStudio_2003",  msvcr71 |-> "VisualStudio_2003",
    msvcp80 |-> "VisualStudio_2005",  msvcr80 |-> "VisualStudio_2005",
    msvcp90 |-> "VisualStudio_2008",  msvcr90 |-> "VisualStudio_2008",
    msvcp100 |-> "VisualStudio_2010", msvcr100 |-> "VisualStudio_2010",
    msvcp110 |-> "VisualStudio_2012", msvcr110 |-> "VisualStudio_2012",
    msvcp120 |-> "VisualStudio_2013", msvcr120 |-> "VisualStudio_2013",
    msvcp140 |-> "VisualStudio_2015", vcruntime140 |-> "VisualStudio_2015" ]

Libraries == DOMAIN Marker \cup DOMAIN Runtime \cup {"other"}

ClassifyImport(c, lib) ==
  CASE lib \in DOMAIN Marker -> Marker[lib]
    [] lib \in DOMAIN Runtime /\ c \in {"Unclassified", "VisualStudio"} ->
         Runtime[lib]
    [] OTHER -> c

\* Called when the debug directory holds CodeView data.
ClassifyVisualStudio(c) == IF IsClassified(c) THEN c ELSE "VisualStudio"

\* cor is the record behind the .NET directory: cb tells whether its size
\* field reaches sizeof(ImageCorHeader).
ClassifyDotNet(c, cor) ==
  IF ~cor.cb THEN c
  ELSE IF cor.major = 1 THEN "DotNet_1" ELSE "DotNet"

-----------------------------------------------------------------------------
(***************************************************************************)
(* PACKAGEINFO, the resource the Borland tools leave behind.  producer is  *)
(* bits 26..27 of its flags: 0 pre-V4, 2 C++, 3 Pascal.  unit is the first *)
(* of the unit names getSignature searches for that the resource contains. *)
(***************************************************************************)
Units == {"System.SysUtils", "ExcUtils", "StrUtils", "ImageHlp", "SysInit", "none"}

GetSignature(info) ==
  IF info.producer = 0 THEN "delphi3"
  ELSE [ u \in Units |->
           CASE u = "System.SysUtils" -> "delphiXE2_6"
             [] u = "ExcUtils"        -> "delphiXE"
             [] u = "StrUtils"        -> "delphi9_10"
             [] u = "ImageHlp"        -> "delphi6"
             [] u = "SysInit"         -> "delphi7"
             [] OTHER                 -> "" ][info.unit]

BorlandSignatures ==
  {"", "delphi3", "delphi6", "delphi7", "delphi9_10", "delphiXE", "delphiXE2_6"}

IsPascal(info) == info.producer \in {0, 3}
IsCpp(info)    == info.producer = 2

\* The chain of comparisons names "delphi6" twice, so "delphi7" takes the
\* last branch.
ClassifyDelphi(c, info) ==
  LET s == GetSignature(info)
  IN  IF IsPascal(info)
      THEN CASE s = "delphi3"     -> "BorlandDelphi_3"
             [] s = "delphiXE2_6" -> "BorlandDelphi_XE2_6"
             [] s = "delphiXE"    -> "BorlandDelphi_XE"
             [] s = "delphi9_10"  -> "BorlandDelphi_9_10"
             [] s = "delphi6"     -> "BorlandDelphi_6"
             [] OTHER             -> "BorlandDelphi"
      ELSE IF IsCpp(info) THEN "BorlandCpp" ELSE c

-----------------------------------------------------------------------------

CheckLinkerVersion(c, major, minor) ==
  CASE major = 4  -> "VisualStudio_4"
    [] major = 5  -> "VisualStudio_5"
    [] major = 6  -> "VisualStudio_6"
    [] major = 7  -> IF minor < 10 THEN "VisualStudio_2002" ELSE "VisualStudio_2003"
    [] major = 8  -> "VisualStudio_2005"
    [] major = 9  -> "VisualStudio_2008"
    [] major = 10 -> "VisualStudio_2010"
    [] major = 11 -> "VisualStudio_2012"
    [] major = 12 -> "VisualStudio_2013"
    [] major = 14 -> IF minor = 0 THEN "VisualStudio_2015" ELSE "VisualStudio_2017"
    [] OTHER      -> c

\* Mutant: the linker version asked only when nothing else decided.
ClassifyLast(c, major, minor) ==
  IF ~IsClassified(c) THEN CheckLinkerVersion(c, major, minor) ELSE c

Classify(c, major, minor) ==
  IF ~IsVisualBasic(c) \/ ~IsClassified(c)
  THEN CheckLinkerVersion(c, major, minor)
  ELSE c

\* The signature files classify() asks the host to load.
SignaturesFor(c, borlandsignature) ==
  CASE IsBorland(c) -> {borlandsignature} \ {""}
    [] c = "VisualStudio_6"    -> {"msvc6"}
    [] c = "VisualStudio_2003" -> {"msvc2003"}
    [] c = "VisualStudio_2005" -> {"msvc2005"}
    [] c = "VisualStudio_2008" -> {"msvc2008"}
    [] c = "VisualStudio_2017" -> {"msvc2017"}
    [] OTHER -> {}

\* applyABI: the ABI the context is left with ("none" when it sets nothing).
ABI(c) ==
  CASE c \in VisualBasic \cup VisualStudio -> "MSVC"
    [] c \in DotNet -> "DotNET"
    [] c \in Delphi \cup {"BorlandCpp"} -> "Borland"
    [] c = "MinGW" -> "GNU"
    [] OTHER -> "none"

-----------------------------------------------------------------------------
(* The analyzers the plugin offers for a loaded image (pe.cpp, rdplugin_init). *)

WndProcEnabled(c) == ~IsBorland(c) /\ ~IsDotNet(c) /\ ~IsVisualBasic(c)

VBEnabled(c) == IsVisualBasic(c)
=============================================================================
