------------------------------- MODULE Selector -------------------------------
(***************************************************************************)
(* The list of tasks that `vp run` shows when it has no task to run:       *)
(* Session::handle_no_task, and vt_select with the terminal under it.      *)
(*                                                                         *)
(* A text stands for its width.  How well a query matches a label is       *)
(* nucleo's affair.  The terminal keeps its size and has more rows than a  *)
(* frame has lines, and a character is a column wide.                      *)
(***************************************************************************)
EXTENDS Integers, SequencesExt, FiniteSetsExt

CONSTANTS
  None,
  EntryLists,     \* the tasks of a graph: sequences of entries
  Score(_, _),    \* of a query and a label, None where it does not match
  Letters,        \* what may be typed
  Widths,         \* of the terminal
  PageSize,       \* rows of the list on a page
  Texts,          \* widths of the header, the prompt and the other lines
  MaxQuery,       \* bound: letters of a query
  MaxStale        \* bound: lines that overlong ones leave behind

VARIABLES
  entries,        \* the tasks, in the order of packages and names
  interactive,    \* both ends are terminals
  notFound,       \* the name that is no task, None for a bare `vp run`
  width,          \* of the terminal
  query, rows, itemCount, selected, scroll,
  frame,          \* the lines last written
  screen,         \* the lines from the widget's first one down
  raw,            \* the terminal is in raw mode
  hidden,         \* its cursor is hidden
  overlong,       \* history: a line was longer than the terminal is wide
  outcome

selectVars == <<entries, interactive, notFound, width, query, rows, itemCount, selected,
                scroll, frame, screen, raw, hidden, overlong, outcome>>
given == <<entries, interactive, notFound, width>>
list == <<query, rows, itemCount, selected, scroll>>

AtLeast(a, b) == IF a < b THEN b ELSE a
Less(a, b) == IF a < b THEN 0 ELSE a - b

-----------------------------------------------------------------------------
(* The items (session/mod.rs).  Names of packages are numbered in order.   *)
SortEntries(es) ==
  SortSeq(es, LAMBDA a, b : \/ a.package < b.package
                            \/ (a.package = b.package /\ a.task < b.task))

Item(e) ==
  [label |-> IF e.current THEN <<e.task>> ELSE <<e.package, e.task>>,
   name  |-> IF interactive \/ e.current THEN e.width ELSE e.width + Texts.package,
   desc  |-> e.command,
   group |-> IF e.current THEN None ELSE e.path]

Items == [i \in DOMAIN entries |-> Item(entries[i])]

-----------------------------------------------------------------------------
(* Rows: fuzzy_match, group_filtered and build_display_rows.               *)
FuzzyMatch(q) ==
  LET all == [i \in DOMAIN entries |-> i] score(i) == Score(q, Items[i].label) IN
  IF q = <<>> THEN all
  ELSE SortSeq(SelectSeq(all, LAMBDA i : score(i) # None),
               LAMBDA i, j : score(i) > score(j) \/ (score(i) = score(j) /\ i < j))

Distinct(s) == FoldSeq(LAMBDA e, seen : IF e \in ToSet(seen) THEN seen ELSE Append(seen, e),
                       <<>>, s)

(* Groups by their best item, that of the current package first.           *)
GroupOrder(found) ==
  LET groups == Distinct([i \in DOMAIN found |-> Items[found[i]].group]) IN
  IF None \in ToSet(groups) THEN <<None>> \o SelectSeq(groups, LAMBDA g : g # None) ELSE groups

Header(g) == [item |-> 0, group |-> g]

RowsOf(g, found) ==
  LET own == SelectSeq(found, LAMBDA i : Items[i].group = g)
      lines == [k \in DOMAIN own |-> [item |-> own[k], group |-> g]] IN
  IF g = None THEN lines ELSE <<Header(g)>> \o lines

DisplayRows(q) ==
  LET found == FuzzyMatch(q) order == GroupOrder(found) IN
  FlattenSeq([k \in DOMAIN order |-> RowsOf(order[k], found)])

IsItem(row) == row.item # 0
ItemsIn(some) == Len(SelectSeq(some, IsItem))

-----------------------------------------------------------------------------
(* The state of the list.                                                  *)

(* Mutant: the page stays where it was.                                    *)
RefilterInPlace(q) ==
  /\ query' = q /\ rows' = DisplayRows(q) /\ itemCount' = ItemsIn(DisplayRows(q))
  /\ selected' = 0 /\ UNCHANGED scroll

Refilter(q) ==
  /\ query' = q /\ rows' = DisplayRows(q) /\ itemCount' = ItemsIn(DisplayRows(q))
  /\ selected' = 0 /\ scroll' = 0

(* The row of the n-th item, counted from zero; 0 if there is none.        *)
RowOfItem(n) ==
  LET at == {i \in DOMAIN rows : IsItem(rows[i]) /\ ItemsIn(SubSeq(rows, 1, i)) = n + 1} IN
  IF at = {} THEN 0 ELSE CHOOSE i \in at : TRUE

(* Mutant: the last row of the page counts as below it one row too late.   *)
VisibleLate(i) ==
  IF i > scroll + PageSize + 1 THEN i - PageSize ELSE IF i <= scroll THEN i - 1 ELSE scroll

(* The header of a group comes into view with its first item.              *)
EnsureVisible(i) ==
  CASE i = 0 -> 0
    [] i # 0 /\ i <= scroll -> IF i > 1 /\ ~IsItem(rows[i - 1]) THEN i - 2 ELSE i - 1
    [] i > scroll + PageSize -> i - PageSize
    [] OTHER -> scroll

Select(n) ==
  /\ selected' = n /\ scroll' = EnsureVisible(RowOfItem(n))
  /\ UNCHANGED <<query, rows, itemCount>>

MoveUp == IF selected > 0 THEN Select(selected - 1) ELSE UNCHANGED list
MoveDown ==
  IF itemCount > 0 /\ selected < itemCount - 1 THEN Select(selected + 1) ELSE UNCHANGED list

-----------------------------------------------------------------------------
(* Rendering.                                                              *)
CommandColumn(shown) ==
  (IF \E r \in ToSet(shown) : ~IsItem(r) THEN 6 ELSE 4)
    + Max({0} \cup {Items[r.item].name : r \in {x \in ToSet(shown) : IsItem(x)}}) + 1

Truncated(desc, room) == IF desc <= room THEN desc ELSE AtLeast(room, 1)

Line(kind, w) == [kind |-> kind, item |-> 0, marked |-> FALSE, width |-> w]

ItemLine(row, column, marked) ==
  [kind |-> "item", item |-> row.item, marked |-> marked,
   width |-> column + Truncated(Items[row.item].desc, Less(width, column))]

(* The lines of one frame.  The mark counts items from the first row.      *)
Frame(shown, q, sel, first) ==
  LET last == Min({first + PageSize, Len(shown)})
      column == CommandColumn(shown)
      line(i) == IF ~IsItem(shown[i]) THEN Line("group", 4 + Texts.group)
                 ELSE ItemLine(shown[i], column, ItemsIn(SubSeq(shown, 1, i)) = sel + 1)
      below == ItemsIn(SubSeq(shown, last + 1, Len(shown))) IN
  (IF notFound = None THEN <<>> ELSE <<Line("header", Texts.header)>>)
  \o <<Line("prompt", Texts.prompt + (IF q = <<>> THEN 0 ELSE 1 + Len(q))), Line("blank", 0)>>
  \o [k \in 1 .. last - first |-> line(first + k)]
  \o (IF below > 0 THEN <<[Line("more", Texts.more) EXCEPT !.item = below]>> ELSE <<>>)
  \o (IF ItemsIn(shown) = 0 THEN <<Line("nothing", Texts.nothing)>> ELSE <<>>)

(* A line that is too long goes on in the next row of the terminal.        *)
OnScreen(lines) ==
  FlattenSeq([k \in DOMAIN lines |->
    [n \in 1 .. AtLeast(1, (lines[k].width + width - 1) \div width) |-> lines[k]]])

(* The cursor goes up as many rows as lines were written.                  *)
Cleared == SubSeq(screen, 1, Len(screen) - Len(frame))

(* Mutant: the last line is forgotten, be it the count of hidden items.    *)
RenderUnfooted(shown, q, sel, first) ==
  LET lines == Frame(shown, q, sel, first) IN
  /\ frame' = Front(lines)
  /\ screen' = Cleared \o OnScreen(lines)
  /\ overlong' = (overlong \/ \E l \in ToSet(lines) : l.width > width)

Render(shown, q, sel, first) ==
  LET lines == Frame(shown, q, sel, first) IN
  /\ frame' = lines
  /\ screen' = Cleared \o OnScreen(lines)
  /\ overlong' = (overlong \/ \E l \in ToSet(lines) : l.width > width)

-----------------------------------------------------------------------------
Running == outcome.kind = "choosing"

SelectInit ==
  /\ \E es \in EntryLists : entries = SortEntries(es)
  /\ interactive \in BOOLEAN
  /\ notFound \in {None} \cup {<<c>> : c \in Letters}
  /\ width \in Widths
  /\ query = <<>> /\ rows = <<>> /\ itemCount = 0 /\ selected = 0 /\ scroll = 0
  /\ frame = <<>> /\ screen = <<>> /\ raw = FALSE /\ hidden = FALSE /\ overlong = FALSE
  /\ outcome = [kind |-> "none"]

InitialQuery == IF notFound = None THEN <<>> ELSE notFound

(* Not interactive: the list is printed, without headers of groups, and    *)
(* the status says whether a task was not found.                           *)
PrintList ==
  /\ outcome.kind = "none" /\ ~interactive
  /\ LET shown == SelectSeq(DisplayRows(InitialQuery), IsItem)
         head == IF notFound = None THEN <<>> ELSE <<Line("header", Texts.header)>> IN
     screen' = head \o [k \in DOMAIN shown |->
       [kind |-> "item", item |-> shown[k].item, marked |-> FALSE,
        width |-> Items[shown[k].item].name + 4 + Items[shown[k].item].desc]]
  /\ outcome' = [kind |-> "exit", code |-> IF notFound = None THEN 0 ELSE 1]
  /\ UNCHANGED <<given, list, frame, raw, hidden, overlong>>

NoTasks ==
  /\ outcome.kind = "none" /\ interactive /\ entries = <<>>
  /\ outcome' = [kind |-> "failed"]
  /\ UNCHANGED <<given, list, frame, screen, raw, hidden, overlong>>

Open ==
  /\ outcome.kind = "none" /\ interactive /\ entries # <<>>
  /\ raw' = TRUE /\ hidden' = TRUE
  /\ Refilter(InitialQuery)
  /\ Render(rows', query', 0, 0)
  /\ outcome' = [kind |-> "choosing"]
  /\ UNCHANGED given

(* A key that changes the list, and the next frame.                        *)
Key(change) ==
  /\ Running /\ Len(Cleared) <= MaxStale /\ change
  /\ Render(rows', query', selected', scroll')
  /\ UNCHANGED <<given, raw, hidden, outcome>>

Escape == Key(Refilter(<<>>))
Up == Key(MoveUp)
Down == Key(MoveDown)
Type(c) == Len(query) < MaxQuery /\ Key(Refilter(Append(query, c)))
Backspace == Key(Refilter(IF query = <<>> THEN <<>> ELSE Front(query)))

(* cleanup, and the guard of the raw mode.                                 *)
Leave(how) ==
  /\ screen' = Cleared /\ raw' = FALSE /\ hidden' = FALSE
  /\ outcome' = how
  /\ UNCHANGED <<given, list, frame, overlong>>

(* The entry's folder, not its name, says which package it is.             *)
Enter ==
  /\ Running /\ RowOfItem(selected) # 0
  /\ LET e == entries[rows[RowOfItem(selected)].item] IN
     Leave([kind |-> "run", path |-> e.path, task |-> e.task])

CtrlC == Running /\ Leave([kind |-> "exit", code |-> 130])

(* Reading or writing the terminal fails: only the guard cleans up.        *)
TerminalFails ==
  /\ Running
  /\ raw' = FALSE /\ outcome' = [kind |-> "failed"]
  /\ UNCHANGED <<given, list, frame, screen, hidden, overlong>>

SelectNext ==
  \/ PrintList \/ NoTasks \/ Open \/ Escape \/ Up \/ Down \/ Backspace
  \/ Enter \/ CtrlC \/ TerminalFails
  \/ \E c \in Letters : Type(c)

-----------------------------------------------------------------------------
(* One item is marked, if any is shown, and it is the one that Enter runs: *)
(* the frame counts items from the first row on the page, and the list     *)
(* from its first row.                                                     *)
PicksMarked ==
  LET marked == SelectSeq(frame, LAMBDA l : l.marked) IN
  /\ Running => IF itemCount = 0 THEN marked = <<>> ELSE Len(marked) = 1
  /\ outcome.kind = "run" =>
       LET e == entries[marked[1].item] IN outcome.path = e.path /\ outcome.task = e.task

(* Every task that matches is in one row, behind the header of its group   *)
(* unless its package is the current one, whose tasks come first; groups   *)
(* are not torn apart, and what is below the page is counted.              *)
ListWhole ==
  Running =>
    LET found == ToSet(FuzzyMatch(query)) IN
    /\ {rows[i].item : i \in DOMAIN rows} \ {0} = found
    /\ itemCount = Cardinality(found)
    /\ \A i, j \in DOMAIN rows :
         i < j => /\ rows[i] # rows[j]
                  /\ rows[j].group = None => rows[i].group = None
                  /\ rows[i].group = rows[j].group =>
                       \A k \in i .. j : rows[k].group = rows[i].group
    /\ \A i \in DOMAIN rows :
         IsItem(rows[i]) /\ rows[i].group # None =>
           \E j \in 1 .. i - 1 : rows[j] = Header(rows[i].group)
    /\ \A l \in ToSet(frame) :
         l.kind = "more" => l.item = itemCount - ItemsIn(SubSeq(rows, 1, scroll + PageSize))

(* While every line has fit, the terminal shows one frame and nothing of   *)
(* those before it; the line of an item does fit wherever its name leaves  *)
(* room for a character.                                                   *)
ScreenIsFrame ==
  /\ Running /\ ~overlong => screen = frame
  /\ Running => \A l \in ToSet(frame) :
       l.kind = "item" /\ width > CommandColumn(rows) => l.width <= width

(* Whatever way the widget ends, the terminal is as before: but for the    *)
(* cursor after an error, which stays hidden.                              *)
TerminalRestored ==
  outcome.kind \in {"run", "exit", "failed"} =>
    /\ ~raw
    /\ hidden => outcome.kind = "failed"
    /\ outcome.kind # "failed" /\ interactive /\ ~overlong => screen = <<>>

ChoiceShown == PicksMarked /\ ListWhole /\ ScreenIsFrame /\ TerminalRestored
=============================================================================
