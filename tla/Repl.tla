---------------------------------- MODULE Repl ----------------------------------
(***************************************************************************)
(* The screens of the REPL: a stack of pages over a command line.  A page   *)
(* shows the rows of a query made when it was opened, filters them by what  *)
(* is typed and has one of them in focus; Enter opens a page about that     *)
(* row, Escape goes back.  Other processes go on changing the database.    *)
(*                                                                         *)
(* A text is a sequence of characters; what a list prints of a row is      *)
(* Text[row].  After each key the screen is drawn, which may move the       *)
(* focus.                                                                  *)
(***************************************************************************)
EXTENDS Integers, SequencesExt, Lists

CONSTANTS
  Articles, Users,  \* ids of rows
  Text,             \* [Articles \cup Users -> Seq(Chars)]
  Chars, Colon, MaxTyped

(* Assumed of the constants where the module is instantiated.               *)
ReplParams ==
  /\ IsFiniteSet(Articles \cup Users) /\ Articles \cap Users = {}
  /\ Colon \in Chars /\ MaxTyped \in Nat
  /\ Text \in [Articles \cup Users -> Seq(Chars)]

VARIABLES
  rows,    \* articles in the database
  stack,   \* Seq(Page), the current one last
  buffer,  \* the command on the command line
  mother,  \* whether the prompt asks mother
  opened   \* the row of the page that Enter opened last

vars == <<rows, stack, buffer, mother, opened>>

Commands == {"mine", "school", "user", "other"}
None == "none"

(* A row of a page.  What is typed in the list of a user's profile finds    *)
(* its header and the two section titles, which have no text to match.     *)
Titles == {"followers", "following"}

(* What a page is: the rows, the focus, the filter, and on what of a review *)
(* the focus is.                                                           *)
Page(kind, about, items) ==
  [kind |-> kind, about |-> about, items |-> items, focus |-> 1, filter |-> <<>>,
   on |-> "body"]

Matches(item, filter) ==
  /\ item \in DOMAIN Text
  /\ \E k \in 0 .. Len(Text[item]) - Len(filter) :
       \A n \in DOMAIN filter : Text[item][k + n] = filter[n]

Shown(page) ==
  IF page.filter = <<>> THEN page.items
  ELSE Kept(page.items, {i \in DOMAIN page.items : Matches(page.items[i], page.filter)})

(* focused_item: a focus past the end goes to the first row.               *)
Focused(page) ==
  IF Shown(page) = <<>> THEN None
  ELSE Shown(page)[IF page.focus <= Len(Shown(page)) THEN page.focus ELSE 1]

(* What a list marks on the screen; a profile prints all its rows.          *)
Printed(page) == IF page.kind = "profile" THEN page.items ELSE Shown(page)
Marked(page) == IF page.focus \in DOMAIN Printed(page) THEN Printed(page)[page.focus] ELSE None

(* Drawing the list of articles or reviews asks for the focused row for    *)
(* the status bar, as Enter and Delete do, and so corrects the focus.       *)
Corrected(page) ==
  IF Shown(page) # <<>> /\ page.focus > Len(Shown(page))
  THEN [page EXCEPT !.focus = 1] ELSE page

Drawn(page) == IF page.kind \in {"articles", "reviews"} THEN Corrected(page) ELSE page

-----------------------------------------------------------------------------
Init ==
  /\ rows = Articles
  /\ stack = <<>>
  /\ buffer = None /\ mother = FALSE
  /\ opened = None

CommandMode == stack = <<>>
Top == Last(stack)

Now(page) == stack' = Append(Front(stack), Drawn(page))

(* push and pop; the page that is returned to loses its filter.             *)
Push(page) == stack' = Append(stack, Drawn(page))

Pop ==
  stack' = IF Len(stack) <= 1 THEN <<>>
           ELSE LET below == stack[Len(stack) - 1] IN
                Append(SubSeq(stack, 1, Len(stack) - 2), Drawn([below EXCEPT !.filter = <<>>]))

-----------------------------------------------------------------------------
(* The command line.                                                       *)
TypeCommand(c) ==
  /\ CommandMode
  /\ buffer = None
  /\ buffer' = c
  /\ UNCHANGED <<rows, stack, mother, opened>>

(* "?" on an empty line.                                                   *)
AskMother ==
  /\ CommandMode
  /\ buffer = None
  /\ mother' = TRUE
  /\ UNCHANGED <<rows, stack, buffer, opened>>

Erase ==
  /\ CommandMode
  /\ buffer' = None
  /\ mother' = FALSE
  /\ UNCHANGED <<rows, stack, opened>>

Listed == SetToSeqs(rows)

(* account.search answers with "user_id", and the page asks for "id": the   *)
(* profile is about the text that was typed.                               *)
Profile(about) == Page("profile", about, <<about>> \o SetToSeq(Titles))

(* _dispatch_command: "mine" and "feed", "school" and "user" open a page if *)
(* there is something to show; other commands run in a session of their    *)
(* own and leave the screen alone.                                         *)
Dispatch ==
  /\ CommandMode
  /\ buffer # None
  /\ buffer' = None
  /\ CASE buffer = "mine" ->
            IF rows = {} THEN UNCHANGED stack
            ELSE \E s \in Listed : Push(Page("articles", None, s))
       [] buffer = "school" -> Push(Page("school", None, SetToSeq(Users)))
       [] buffer = "user" -> \E found \in BOOLEAN :
                               IF found THEN Push(Profile("typed")) ELSE UNCHANGED stack
       [] OTHER -> UNCHANGED stack
  /\ UNCHANGED <<rows, mother, opened>>

-----------------------------------------------------------------------------
(* A page.                                                                 *)
Move(step) ==
  /\ ~CommandMode
  /\ LET n == Len(Shown(Top)) IN
       IF n = 0 THEN UNCHANGED stack
       ELSE Now([Top EXCEPT !.focus = ((@ - 1 + step) % n) + 1])
  /\ UNCHANGED <<rows, buffer, mother, opened>>

IsCommand(page) == page.filter # <<>> /\ page.filter[1] = Colon

(* Mutant: a character that narrows the list leaves the focus.             *)
TypedFocusKept(page, c) == [page EXCEPT !.filter = Append(@, c)]

(* A colon starts a command of the page, which is kept in the filter.      *)
Typed(page, c) ==
  IF IsCommand(page) \/ (c = Colon /\ page.filter = <<>>)
  THEN [page EXCEPT !.filter = Append(@, c)]
  ELSE [page EXCEPT !.filter = Append(@, c), !.focus = 1]

TypeFilter(c) ==
  /\ ~CommandMode
  /\ Len(Top.filter) < MaxTyped
  /\ Now(Typed(Top, c))
  /\ UNCHANGED <<rows, buffer, mother, opened>>

Backspace ==
  /\ ~CommandMode
  /\ Top.filter # <<>>
  /\ Now([Top EXCEPT !.filter = Front(@)])
  /\ UNCHANGED <<rows, buffer, mother, opened>>

Tab ==
  /\ ~CommandMode
  /\ Top.kind = "reviews"
  /\ Now([Top EXCEPT !.on = IF @ = "body" THEN "reviewer" ELSE "body"])
  /\ UNCHANGED <<rows, buffer, mother, opened>>

(* The command that is typed on a page also filters it, colon and all, and  *)
(* is about the row that is then in focus; with none left nothing is done.  *)
(* The rows of the list of articles have no "get", so it fails there, and    *)
(* stays in the filter.                                                    *)
PageCommand ==
  /\ ~CommandMode
  /\ IsCommand(Top)
  /\ Now(IF Top.kind = "articles" /\ Focused(Top) # None THEN Corrected(Top)
         ELSE [Corrected(Top) EXCEPT !.filter = <<>>])
  /\ UNCHANGED <<rows, buffer, mother, opened>>

(* The reviews of an article.  review.list names them "reviews", and the    *)
(* page takes "items", of which there are none.                            *)
Reviews(a) == Page("reviews", a, <<>>)

(* handle_key("enter") of a page with rows to open.                        *)
PageAbout(item) == IF Top.kind = "articles" THEN Reviews(item) ELSE Profile(item)

Open ==
  /\ ~CommandMode
  /\ ~IsCommand(Top)
  /\ LET item == Focused(Top) IN
       /\ item \in IF Top.kind = "articles" THEN rows ELSE Users
       /\ Top.kind \in {"articles", "school"}
       /\ stack' = Front(stack) \o <<Corrected(Top), Drawn(PageAbout(item))>>
       /\ opened' = item
  /\ UNCHANGED <<rows, buffer, mother>>

(* The article has been deleted meanwhile, or the page opens nothing.       *)
OpenNothing ==
  /\ ~CommandMode
  /\ ~IsCommand(Top)
  /\ \/ Top.kind = "articles" /\ Focused(Top) \notin rows
     \/ Top.kind \in {"reviews", "profile"}
     \/ Focused(Top) = None
  /\ Now(Corrected(Top))
  /\ UNCHANGED <<rows, buffer, mother, opened>>

Escape ==
  /\ IF CommandMode THEN UNCHANGED stack ELSE Pop
  /\ buffer' = None
  /\ mother' = FALSE
  /\ UNCHANGED <<rows, opened>>

(* Delete: the rows of other lists are not articles, and those of the list  *)
(* of articles have no "get"; nothing is deleted.                          *)
DeleteFocused ==
  /\ ~CommandMode
  /\ Now(Corrected(Top))
  /\ UNCHANGED <<rows, buffer, mother, opened>>

(* Another process creates or deletes an article.                          *)
Elsewhere(a) ==
  /\ rows' = IF a \in rows THEN rows \ {a} ELSE rows \cup {a}
  /\ UNCHANGED <<stack, buffer, mother, opened>>

Next ==
  \/ \E c \in Commands : TypeCommand(c)
  \/ AskMother \/ Erase \/ Dispatch \/ Backspace \/ Tab \/ PageCommand
  \/ Open \/ OpenNothing \/ DeleteFocused \/ Escape
  \/ \E step \in {-1, 1} : Move(step)
  \/ \E c \in Chars : TypeFilter(c)
  \/ \E a \in Articles : Elsewhere(a)

Spec == Init /\ [][Next]_vars

-----------------------------------------------------------------------------
Rows == Articles \cup Users \cup Titles \cup {"typed"}

TypeOK ==
  /\ rows \subseteq Articles
  /\ buffer \in Commands \cup {None} /\ mother \in BOOLEAN
  /\ opened \in Rows \cup {None}
  /\ \A n \in DOMAIN stack :
       /\ stack[n].items \in Seq(Rows) /\ stack[n].about \in Rows \cup {None}
       /\ stack[n].filter \in Seq(Chars) /\ Len(stack[n].filter) <= MaxTyped
       /\ stack[n].focus \in 1 .. Len(stack[n].items) + 1
       /\ stack[n].on \in {"body", "reviewer"}

(* Enter opens the row that the screen marks, whatever was typed, erased    *)
(* and scrolled before (the render functions compare focus_index, the       *)
(* handlers ask focused_item).                                             *)
OpensTheMarked ==
  [][stack # <<>> /\ Len(stack') > Len(stack) => opened' = Marked(Top)]_vars
=============================================================================
