------------------------------ MODULE Dialogs ------------------------------
(***************************************************************************)
(* The dialogs in which a browser edits a list before it sends it: the     *)
(* users and the organizations of an application with their roles, the     *)
(* members of an organization, the administrators, and the applications    *)
(* that are trusted.  What happens to the list on the server is the        *)
(* subject of AppAuthorization, Organizations, Accounts and Applications.  *)
(*                                                                         *)
(* A dialog is rows on a page, most of them with a list beside them; the   *)
(* server's answers, the timer of the search field and the end of a row's  *)
(* fading come between the clicks.                                         *)
(***************************************************************************)
EXTENDS Integers, FiniteSets

CONSTANTS
    DialogKinds,    \* which of the dialogs
    Subjects,       \* users, organizations or applications in a list
    Marks,          \* of each dialog: the roles that a row can be marked with; of an
                    \* organization's row, for its owners or for its members
    Lists,          \* of each dialog: what the server's list may be
    Copies,         \* rows there may be of one subject
    MaxActs         \* what the user does before the page is gone

\* A list without roles has only subjects, and the role of a member that is picked is one
\* of the marks.
WithRoles == {"users", "organizations", "members"}
ASSUME DialogAssumption ==
    /\ MaxActs \in Nat /\ Copies # {}
    /\ \A k \in WithRoles \intersect DialogKinds :
        /\ IsFiniteSet(Marks[k])
        /\ \A answer \in Lists[k] : answer \subseteq Subjects \X Marks[k]
    /\ \A k \in DialogKinds \ WithRoles : \A answer \in Lists[k] : answer \subseteq Subjects
    /\ "members" \in DialogKinds => "member" \in Marks["members"]

VARIABLES
    dialog,     \* which one
    open,       \* whether it is shown
    rows,       \* rows in the column, as <<subject, copy>>
    fading,     \* those that a click removed and that have not gone yet
    fades,      \* subjects whose row's fading has not ended
    row,        \* the global variable that handlers keep a row in
    on,         \* pairs of rows and the marks they show
    list,       \* the list the form will send: pairs of subjects and marks
    count,      \* how many marks each subject has; NaN after counting from nothing
    found,      \* the column of what the search found
    timer,      \* the key that the search waits with
    asked,      \* requests for the list and for the search, not answered yet
    doubtful,   \* rows with a warning about a missing role
    confirm,    \* the button says Confirm
    sent,       \* what the form sent
    acts,       \* what the user has done so far
    hasty,      \* history: a click came while a row was fading
    reopened    \* history: an answer came to a dialog that had rows already, or a failed
                \* one opened it

dialogVars == <<dialog, open, rows, fading, fades, row, on, list, count, found, timer,
                asked, doubtful, confirm, sent, acts, hasty, reopened>>

DialogRow == Subjects \X Copies
NaN == -1
Unsent == [done |-> FALSE, list |-> {}]
NoRow == <<"none">>

DialogTypeOK ==
    /\ dialog \in DialogKinds /\ rows \subseteq DialogRow /\ fading \subseteq rows
    /\ on \subseteq rows \X Marks[dialog] /\ list \subseteq Subjects \X Marks[dialog]
    /\ DOMAIN count \subseteq Subjects /\ found \subseteq Subjects
    /\ doubtful \subseteq rows /\ fades \subseteq Subjects

RowsOf(s) == {r \in rows : r[1] = s}
Visible == rows \ fading
MarksOf(r) == {m \in Marks[dialog] : <<r, m>> \in on}
FreshRow(s) == <<s, CHOOSE n \in Copies : <<s, n>> \notin rows>>
CountOf(s) == IF s \in DOMAIN count THEN count[s] ELSE NaN
Started(s) == IF CountOf(s) = NaN THEN 0 ELSE CountOf(s)
Without(s) == [x \in DOMAIN count \ {s} |-> count[x]]
WithCount(s, n) == [x \in DOMAIN count \union {s} |-> IF x = s THEN n ELSE count[x]]

Page == <<open, found, timer, asked, sent, reopened>>
Column == <<rows, fading, fades, row, on, list, count, doubtful, confirm>>
Waits == ~sent.done /\ UNCHANGED <<acts, dialog>>
Acts == ~sent.done /\ acts < MaxActs /\ acts' = acts + 1 /\ UNCHANGED dialog
Click == Acts /\ open /\ hasty' = (hasty \/ fades # {})

(***************************************************************************)
(* Opening, the list's arrival, and the ways to leave.                     *)
(***************************************************************************)
\* Elements taken off the page are no longer the ones a later row has.
Emptied ==
    /\ rows' = {} /\ fading' = {} /\ on' = {} /\ doubtful' = {}
    /\ found' = {} /\ confirm' = FALSE /\ row' = NoRow
ExitUsers == dialog = "users" /\ Emptied /\ count' = [s \in {} |-> 0] /\ UNCHANGED list
ExitOrganizations ==
    dialog = "organizations" /\ Emptied /\ count' = [s \in {} |-> 0] /\ UNCHANGED list
ExitMembers == dialog = "members" /\ Emptied /\ list' = {} /\ UNCHANGED count
ExitAdministrators == dialog = "administrators" /\ Emptied /\ UNCHANGED <<list, count>>
ExitTrusted == dialog = "trusted" /\ Emptied /\ UNCHANGED <<list, count>>
Exit ==
    ExitUsers \/ ExitOrganizations \/ ExitMembers \/ ExitAdministrators \/ ExitTrusted

\* What an answer adds to the column.
RoomFor(subjects) == \A s \in subjects : \E n \in Copies : <<s, n>> \notin rows
AddRows(subjects) == rows' = rows \union {FreshRow(s) : s \in subjects}
Shown == UNCHANGED <<fading, fades, row, doubtful, confirm, found>>
                /\ reopened' = (reopened \/ rows # {})

\* Roles are counted on top of what there was.
Tally(answer) ==
    [s \in DOMAIN count \union {a[1] : a \in answer} |->
        LET more == {a \in answer : a[1] = s} IN
        IF more = {} THEN CountOf(s) ELSE Started(s) + Cardinality(more)]
ShowRoles(answer) ==
    LET new == {s \in {a[1] : a \in answer} : RowsOf(s) = {}} IN
    /\ RoomFor(new) /\ AddRows(new)
    /\ on' = on \union {x \in rows' \X Marks[dialog] : <<x[1][1], x[2]>> \in answer}
    /\ list' = answer /\ count' = Tally(answer)
ShowUsers == dialog = "users" /\ Shown /\ \E answer \in Lists[dialog] : ShowRoles(answer)
ShowOrganizations ==
    dialog = "organizations" /\ Shown /\ \E answer \in Lists[dialog] : ShowRoles(answer)

\* Who is on the list already gets no second row: of a user with both roles, the one that
\* the answer has first.
ShowMembers ==
    /\ dialog = "members" /\ Shown /\ UNCHANGED count
    /\ \E answer \in Lists[dialog] :
       \E new \in SUBSET {a \in answer : \A x \in list : x[1] # a[1]} :
        /\ \A a, b \in new : a[1] = b[1] => a = b
        /\ \A a \in answer : \E b \in list \union new : b[1] = a[1]
        /\ RoomFor({a[1] : a \in new}) /\ AddRows({a[1] : a \in new})
        /\ on' = on \union {<<FreshRow(a[1]), a[2]>> : a \in new}
        /\ list' = list \union new

\* These add a row for every entry of the list.
ShowAgain(subjects) ==
    Shown /\ RoomFor(subjects) /\ AddRows(subjects) /\ UNCHANGED <<on, list, count>>
ShowAdministrators ==
    dialog = "administrators" /\ \E answer \in Lists[dialog] : ShowAgain(answer)
ShowTrusted == dialog = "trusted" /\ \E answer \in Lists[dialog] : ShowAgain(answer)
Show == ShowUsers \/ ShowOrganizations \/ ShowMembers \/ ShowAdministrators

\* The applications trusted are on the page already.
Open ==
    /\ Acts /\ ~open
    /\ open' = TRUE
    /\ IF dialog = "trusted"
       THEN ShowTrusted /\ UNCHANGED asked
       ELSE /\ asked.list < 2
            /\ asked' = [asked EXCEPT !.list = @ + 1]
            /\ UNCHANGED <<Column, found, reopened>>
    /\ UNCHANGED <<timer, sent, hasty>>

\* A failed request toggles the dialog, which opens one that was closed.
Answered ==
    /\ Waits /\ asked.list > 0
    /\ asked' = [asked EXCEPT !.list = @ - 1]
    /\ \/ Show /\ UNCHANGED open
       \/ /\ Exit
          /\ open' = ~open /\ reopened' = (reopened \/ ~open)
          /\ UNCHANGED fades
    /\ UNCHANGED <<timer, sent, hasty>>

Cancel ==
    /\ Acts /\ open /\ open' = FALSE
    /\ Exit
    /\ UNCHANGED <<fades, timer, asked, sent, hasty, reopened>>

\* A click beside the dialog closes it, and nothing is put back.
Dismiss ==
    /\ Acts /\ open /\ open' = FALSE
    /\ UNCHANGED <<Column, found, timer, asked, sent, hasty, reopened>>

(***************************************************************************)
(* The search: half a second after the last key, if there are two of them. *)
(* Answers are appended in the order they come.                            *)
(***************************************************************************)
Detached(r) == IF r[1] = "found" THEN NoRow ELSE r

Type ==
    /\ Acts /\ open
    /\ \E key \in {"short", "long"} : timer' = key
    /\ UNCHANGED <<Column, open, found, asked, sent, hasty, reopened>>
SearchStarts ==
    /\ timer' = "none" /\ found' = {} /\ row' = Detached(row)
    /\ IF timer = "long"
       THEN asked.search < 1 /\ asked' = [asked EXCEPT !.search = @ + 1]
       ELSE UNCHANGED asked
    /\ UNCHANGED <<open, rows, fading, fades, on, list, count, doubtful, confirm,
                   sent, hasty, reopened>>
SearchEnds ==
    /\ asked' = [asked EXCEPT !.search = @ - 1]
    /\ \E s \in Subjects : found' = found \union {s}
    /\ UNCHANGED <<Column, open, timer, sent, hasty, reopened>>
Searches ==
    /\ Waits
    /\ \/ timer # "none" /\ SearchStarts
       \/ asked.search > 0 /\ SearchEnds
AvailableUsers == dialog \in {"users", "members", "administrators"} /\ Searches
AvailableOrganizations == dialog = "organizations" /\ Searches
AvailableApplications == dialog = "trusted" /\ Searches

\* The field above the column shows again whatever it matches.
Filter ==
    /\ Acts /\ open /\ dialog # "members"
    /\ fading' = {r \in fading : r[1] \in fades}
    /\ UNCHANGED <<Page, rows, fades, row, on, list, count, doubtful, confirm, hasty>>

(***************************************************************************)
(* Clicks on rows.                                                         *)
(***************************************************************************)
Pick(s) == row' = <<"found", s>> /\ UNCHANGED <<Page, fading, fades, doubtful, confirm>>
AlreadyAdded(s) == RowsOf(s) # {} /\ UNCHANGED <<rows, on, list, count>>
Added(s) == RowsOf(s) = {} /\ AddRows({s})

PickWithoutRoles ==
    /\ Click
    /\ \E s \in found :
        /\ Pick(s)
        /\ \/ AlreadyAdded(s)
           \/ Added(s) /\ count' = WithCount(s, Started(s)) /\ UNCHANGED <<on, list>>
PickUser == dialog = "users" /\ PickWithoutRoles
PickOrganization == dialog = "organizations" /\ PickWithoutRoles
PickMember ==
    /\ dialog = "members" /\ Click
    /\ \E s \in found :
        /\ Pick(s)
        /\ \/ AlreadyAdded(s)
           \/ /\ Added(s) /\ UNCHANGED count
              /\ on' = on \union {<<FreshRow(s), "member">>}
              /\ list' = list \union {<<s, "member">>}
PickRow ==
    /\ Click
    /\ \E s \in found :
        /\ Pick(s)
        /\ \/ AlreadyAdded(s)
           \/ Added(s) /\ UNCHANGED <<on, list, count>>
PickAdministrator == dialog = "administrators" /\ PickRow
PickTrusted == dialog = "trusted" /\ PickRow

Fade(r) ==
    /\ row' = <<"row", r>>
    /\ fading' = fading \union {r} /\ fades' = fades \union {r[1]}
    /\ UNCHANGED <<Page, rows, on, doubtful, confirm>>
RemoveCounted ==
    /\ Click
    /\ \E r \in Visible :
        Fade(r) /\ list' = {x \in list : x[1] # r[1]} /\ count' = Without(r[1])
RemoveUser == dialog = "users" /\ RemoveCounted
RemoveOrganization == dialog = "organizations" /\ RemoveCounted

\* (mutant) The row goes, and the list keeps its member.
RemoveMemberRow ==
    dialog = "members" /\ Click /\ \E r \in Visible : Fade(r) /\ UNCHANGED <<list, count>>

RemoveMember ==
    /\ dialog = "members" /\ Click
    /\ \E r \in Visible :
        Fade(r) /\ list' = {x \in list : x[1] # r[1]} /\ UNCHANGED count
RemoveRow == Click /\ \E r \in Visible : Fade(r) /\ UNCHANGED <<list, count>>
RemoveAdministrator == dialog = "administrators" /\ RemoveRow
RemoveTrustedRow == dialog = "trusted" /\ RemoveRow

\* At the end of a row's fading the row that goes is the one the handlers' variable holds
\* by then.
FadedOut ==
    /\ Waits
    /\ \E s \in fades : fades' = fades \ {s}
    /\ LET taken == IF row[1] = "row" THEN {row[2]} ELSE {} IN
        /\ rows' = rows \ taken
        /\ fading' = fading \ taken
        /\ doubtful' = doubtful \ taken
        /\ on' = {x \in on : x[1] \notin taken}
        /\ found' = IF row[1] = "found" THEN found \ {row[2]} ELSE found
    /\ row' = NoRow
    /\ UNCHANGED <<open, timer, asked, sent, hasty, reopened, list, count, confirm>>

Counted(s, by) == IF CountOf(s) = NaN THEN NaN ELSE CountOf(s) + by

\* A row that fades can still be clicked on.
ToggleMark ==
    /\ Click
    /\ \E r \in rows, m \in Marks[dialog] :
        IF <<r, m>> \in on
        THEN /\ on' = on \ {<<r, m>>}
             /\ list' = list \ {<<r[1], m>>}
             /\ count' = WithCount(r[1], Counted(r[1], -1))
        ELSE /\ on' = on \union {<<r, m>>}
             /\ list' = list \union {<<r[1], m>>}
             /\ count' = WithCount(r[1], Counted(r[1], 1))
    /\ UNCHANGED <<Page, rows, fading, fades, row, doubtful, confirm>>
AssignRole == dialog = "users" /\ ToggleMark
AssignOrganizationRole == dialog = "organizations" /\ ToggleMark

\* Marks of a member exclude each other.  Taking the mark off a row whose subject has
\* left the list takes the last member off it.
AssignMember ==
    /\ dialog = "members" /\ Click
    /\ \E r \in rows, m \in Marks[dialog] :
        LET others == {x \in list : x[1] # r[1]} IN
        IF <<r, m>> \in on
        THEN /\ on' = on \ {<<r, m>>}
             /\ IF others # list \/ list = {} THEN list' = others
                ELSE \E x \in list : list' = list \ {x}
        ELSE /\ on' = {x \in on : x[1] # r} \union {<<r, m>>}
             /\ list' = others \union {<<r[1], m>>}
    /\ UNCHANGED <<Page, rows, fading, fades, row, count, doubtful, confirm>>

(***************************************************************************)
(* Saving.                                                                 *)
(***************************************************************************)
\* A warning about rows is shown once: the second click sends.
SendForm(what) == sent' = [done |-> TRUE, list |-> what] /\ UNCHANGED confirm
AskOrSend(what) ==
    /\ IF doubtful' = {} \/ confirm THEN SendForm(what) ELSE confirm' = TRUE /\ UNCHANGED sent
    /\ UNCHANGED <<open, found, timer, asked, reopened,
                   rows, fading, fades, row, on, list, count>>
SubmitCounted ==
    /\ Click
    /\ doubtful' = doubtful \union {r \in rows : r[1] \in DOMAIN count /\ count[r[1]] = 0}
    /\ AskOrSend(list)
SubmitUsers == dialog = "users" /\ SubmitCounted
SubmitOrganizations == dialog = "organizations" /\ SubmitCounted
SubmitMembers ==
    /\ dialog = "members" /\ Click
    /\ doubtful' = {r \in rows : MarksOf(r) = {}}
    /\ AskOrSend(list)

\* What is sent is what is on the page.
SubmitRows == Click /\ doubtful' = {} /\ AskOrSend({r[1] : r \in rows})
SubmitAdministrators == dialog = "administrators" /\ SubmitRows
SubmitTrusted == dialog = "trusted" /\ SubmitRows

DialogStep ==
    \/ Open \/ Answered \/ Cancel \/ Dismiss \/ Type \/ Filter \/ FadedOut
    \/ AvailableUsers \/ AvailableOrganizations \/ AvailableApplications
    \/ PickUser \/ PickOrganization \/ PickMember \/ PickAdministrator \/ PickTrusted
    \/ RemoveUser \/ RemoveOrganization \/ RemoveMember
    \/ RemoveAdministrator \/ RemoveTrustedRow
    \/ AssignRole \/ AssignOrganizationRole \/ AssignMember
    \/ SubmitUsers \/ SubmitOrganizations \/ SubmitMembers
    \/ SubmitAdministrators \/ SubmitTrusted

DialogInit ==
    /\ dialog \in DialogKinds
    /\ open = FALSE /\ rows = {} /\ fading = {} /\ fades = {} /\ row = NoRow
    /\ on = {} /\ list = {} /\ count = [s \in {} |-> 0] /\ found = {} /\ timer = "none"
    /\ asked = [list |-> 0, search |-> 0] /\ doubtful = {} /\ confirm = FALSE
    /\ sent = Unsent /\ acts = 0 /\ hasty = FALSE /\ reopened = FALSE

DialogSpec == DialogInit /\ [][DialogStep]_dialogVars

(***************************************************************************)
(* Properties.                                                             *)
(***************************************************************************)
\* A dialog sends the list it shows, whatever was found, added, marked, removed, cancelled
\* and opened again before, and never drops a row that shows no role without asking; as
\* long as the list that was asked for has come, nobody clicks while a row is fading, a
\* dialog that was left by a click beside it, or before its list came, is not opened again,
\* and a failed request does not open it.
DialogSendsWhatItShows ==
    sent.done /\ asked.list = 0 /\ ~hasty /\ ~reopened =>
        /\ sent.list = IF dialog \in WithRoles
                       THEN {<<x[1][1], x[2]>> : x \in {y \in on : y[1] \in Visible}}
                       ELSE {r[1] : r \in Visible}
        /\ dialog \in WithRoles =>
            confirm \/ \A r \in Visible : MarksOf(r) # {}
=============================================================================
