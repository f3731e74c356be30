-------------------------- MODULE DataDictionary --------------------------
(***************************************************************************)
(* The data dictionary: RunDictionary of internal/engine/dictionary.go and *)
(* the workbook it builds -- one sheet per database with a section per     *)
(* table, and an overview whose rows link to the sections through defined  *)
(* names.  A name is a sequence of characters; formatting is left out.     *)
(***************************************************************************)
EXTENDS Naturals, Sequences, FiniteSets, SequencesExt

CONSTANTS SheetLimit,     \* characters of a sheet name (31 in Excel)
          RowLimit,       \* rows of a sheet (1048576 in Excel)
          Overview,       \* the name of the overview sheet
          BookCases       \* the selections explored: see BookInit

VARIABLES bookCase,     \* [dbs, whole, faulty]: databases, each [name, tables]
          bookStep,     \* "plan", "describe", "sheets", "written", "failed"
          unplanned,    \* databases not looked at yet, in order
          described,    \* databases of the book: [name, tables], tables [name, cols, failed]
          undescribed,  \* planned databases whose tables are still to be described
          sheets,       \* sheet name -> its rows: [kind, table, cols]
          named,        \* defined name -> <<sheet, row>>
          linkOf,       \* <<database, table>> -> defined name
          overview,     \* the rows of the overview: [db, table, link]
          bookUnits     \* [total, done]

bookVars == <<bookCase, bookStep, unplanned, described, undescribed, sheets, named, linkOf,
              overview, bookUnits>>

BookInit ==
  /\ bookCase \in BookCases
  /\ bookStep = "plan"
  /\ unplanned = bookCase.dbs
  /\ described = <<>> /\ undescribed = <<>>
  /\ sheets = [s \in {} |-> <<>>] /\ named = [n \in {} |-> <<>>] /\ linkOf = [p \in {} |-> <<>>]
  /\ overview = <<>>
  /\ bookUnits = [total |-> 0, done |-> 0]

-----------------------------------------------------------------------------
(* Planning and describing                                                 *)

(* A database that cannot be reached ends the run unless nothing of it was *)
(* chosen by name; one without tables is left out.                         *)
PlanBook ==
  /\ bookStep = "plan" /\ unplanned # <<>>
  /\ unplanned' = Tail(unplanned)
  /\ LET d == Head(unplanned)
     IN \/ undescribed' = (IF d.tables = <<>> THEN undescribed ELSE Append(undescribed, d))
           /\ UNCHANGED bookStep
        \/ bookCase.faulty /\ d.whole /\ UNCHANGED <<undescribed, bookStep>>
        \/ bookCase.faulty /\ ~ d.whole /\ bookStep' = "failed" /\ UNCHANGED undescribed
  /\ UNCHANGED <<bookCase, described, sheets, named, linkOf, overview, bookUnits>>

Tables(dbs) == FoldSeq(LAMBDA d, n : n + Len(d.tables), 0, dbs)

BeginBook ==
  /\ bookStep = "plan" /\ unplanned = <<>>
  /\ bookStep' = IF undescribed = <<>> THEN "failed" ELSE "describe"
  /\ bookUnits' = [total |-> Tables(undescribed), done |-> 0]
  /\ UNCHANGED <<bookCase, unplanned, described, undescribed, sheets, named, linkOf, overview>>

(* A table whose structure cannot be read stays in the book as a row that  *)
(* says so.                                                                *)
Describe ==
  /\ bookStep = "describe" /\ undescribed # <<>>
  /\ LET d == Head(undescribed)
     IN \E bad \in IF bookCase.faulty THEN SUBSET DOMAIN d.tables ELSE {{}} :
          described' = Append(described,
            [name |-> d.name,
             tables |-> [i \in DOMAIN d.tables |->
                           [name |-> d.tables[i].name, failed |-> i \in bad,
                            cols |-> IF i \in bad THEN 0 ELSE d.tables[i].cols]]])
  /\ undescribed' = Tail(undescribed)
  /\ bookUnits' = [bookUnits EXCEPT !.done = @ + Len(Head(undescribed).tables)]
  /\ UNCHANGED <<bookCase, bookStep, unplanned, sheets, named, linkOf, overview>>

BeginSheets ==
  /\ bookStep = "describe" /\ undescribed = <<>>
  /\ bookStep' = "sheets"
  /\ sheets' = [s \in {Overview} |-> <<>>]
  /\ UNCHANGED <<bookCase, unplanned, described, undescribed, named, linkOf, overview, bookUnits>>

-----------------------------------------------------------------------------
(* Names                                                                   *)

NotInSheets == {"[", "]", ":", "*", "?", "/", "\\"}
InNames(c) == c \notin NotInSheets \cup {"-", "~", " "}

Replaced(name, ok(_)) == [i \in DOMAIN name |-> IF ok(name[i]) THEN name[i] ELSE "_"]
Cut(s, n) == SubSeq(s, 1, IF Len(s) < n THEN Len(s) ELSE n)

(* The first name that is not used, with a counter from 2 on.              *)
FirstFree(base, suffixed(_), used) ==
  IF base \notin used THEN base
  ELSE LET free == {i \in 2 .. Cardinality(used) + 2 : suffixed(i) \notin used}
       IN suffixed(CHOOSE i \in free : \A j \in free : i <= j)

(* A counter takes the place of the last two characters.                   *)
dictSheetName(name, used) ==
  LET base == Cut(Replaced(name, LAMBDA c : c \notin NotInSheets), SheetLimit)
  IN FirstFree(base, LAMBDA i : Cut(base, SheetLimit - 2) \o <<"~", ToString(i)>>, used)

(* Database and table share the underscore that separates them.            *)
dictDefinedNameAlways(d, t, used) == Replaced(d \o <<"_">> \o t, InNames)

dictDefinedName(d, t, used) ==
  LET base == Replaced(d \o <<"_">> \o t, InNames)
  IN FirstFree(base, LAMBDA i : base \o <<"_", ToString(i)>>, used)

-----------------------------------------------------------------------------
(* The workbook                                                            *)

Title(t) == [kind |-> "title", table |-> t.name, cols |-> t.cols]
Section(t) ==
  <<Title(t)>> \o
  (IF t.failed THEN <<[kind |-> "unread", table |-> t.name, cols |-> 0]>>
   ELSE [i \in 1 .. t.cols |-> [kind |-> "column", table |-> t.name, cols |-> i]])

(* The head line is the first row; a section that would pass the last row  *)
(* ends the run.                                                           *)
Add(sheet, acc, d, t) ==
  LET row == Len(acc.rows)
      name == dictDefinedName(d, t.name, DOMAIN acc.names)
  IN IF acc.over \/ row + 1 + t.cols > RowLimit THEN [acc EXCEPT !.over = TRUE]
     ELSE [over |-> FALSE,
           rows |-> acc.rows \o Section(t),
           names |-> [n \in DOMAIN acc.names \cup {name} |->
                        IF n = name THEN <<sheet, row + 1>> ELSE acc.names[n]],
           links |-> [p \in DOMAIN acc.links \cup {<<d, t.name>>} |->
                        IF p = <<d, t.name>> THEN name ELSE acc.links[p]]]

HeadLine == [kind |-> "head", table |-> <<>>, cols |-> 8]

writeDictDetailSheet ==
  /\ bookStep = "sheets" /\ Cardinality(DOMAIN sheets) <= Len(described)
  /\ LET d == described[Cardinality(DOMAIN sheets)]
         sheet == dictSheetName(d.name, DOMAIN sheets)
         page == FoldLeft(LAMBDA acc, t : Add(sheet, acc, d.name, t),
                          [over |-> FALSE, rows |-> <<HeadLine>>, names |-> named,
                           links |-> linkOf],
                          d.tables)
     IN /\ bookStep' = IF page.over THEN "failed" ELSE bookStep
        /\ sheets' = [s \in DOMAIN sheets \cup {sheet} |->
                        IF s = sheet THEN page.rows ELSE sheets[s]]
        /\ named' = page.names
        /\ linkOf' = page.links
  /\ UNCHANGED <<bookCase, unplanned, described, undescribed, overview, bookUnits>>

writeDictOverviewSheet ==
  /\ bookStep = "sheets" /\ Cardinality(DOMAIN sheets) > Len(described)
  /\ overview' = FlattenSeq([i \in DOMAIN described |->
                   [j \in DOMAIN described[i].tables |->
                      LET d == described[i].name t == described[i].tables[j].name
                      IN [db |-> d, table |-> t, link |-> linkOf[<<d, t>>]]]])
  /\ bookStep' = "written"
  /\ UNCHANGED <<bookCase, unplanned, described, undescribed, sheets, named, linkOf, bookUnits>>

BookOver == bookStep \in {"written", "failed"} /\ UNCHANGED bookVars

BookNext == \/ PlanBook \/ BeginBook \/ Describe \/ BeginSheets
            \/ writeDictDetailSheet \/ writeDictOverviewSheet \/ BookOver

BookSpec == BookInit /\ [][BookNext]_bookVars

-----------------------------------------------------------------------------
(* Properties                                                              *)

(* Every variable holds values of the kind the code gives it, and no sheet *)
(* name or sheet is longer than Excel takes.                               *)
BookTypeOK ==
  /\ bookStep \in {"plan", "describe", "sheets", "written", "failed"}
  /\ bookUnits.done <= bookUnits.total
  /\ \A s \in DOMAIN sheets : Len(s) <= SheetLimit /\ Len(sheets[s]) <= RowLimit + 1
  /\ DOMAIN named = Range(linkOf)

(* The link of a row of the overview leads to the section of that table:   *)
(* its title, in the sheet that holds the tables of its database and no    *)
(* others, followed by one row per column or by the row that says the      *)
(* table could not be read -- whatever the names are cut and cleaned to.   *)
Leads(o, d, t) ==
  LET at == named[o.link]
      rows == sheets[at[1]]
  IN /\ o.db = d.name /\ o.table = t.name
     /\ at[2] + Len(Section(t)) <= Len(rows) + 1
     /\ SubSeq(rows, at[2], at[2] + Len(Section(t)) - 1) = Section(t)
     /\ Len(rows) = 1 + FoldSeq(LAMBDA x, n : n + Len(Section(x)), 0, d.tables)

LinksLead ==
  bookStep = "written" =>
    /\ Len(overview) = Tables(described) /\ bookUnits.done = bookUnits.total
    /\ Cardinality(DOMAIN sheets) = Len(described) + 1
    /\ \A i \in DOMAIN described : \A j \in DOMAIN described[i].tables :
         \E o \in Range(overview) : Leads(o, described[i], described[i].tables[j])
=============================================================================
