------------------------------- MODULE Beszel -------------------------------
(***************************************************************************)
(* Reading the systems of a Beszel hub (fetchSystems and its parts): page  *)
(* by page from the PocketBase collection, or else from the first of the   *)
(* older routes that answers.  The hub may gain and lose systems between   *)
(* two requests.  It answers every page in the same form and from what it  *)
(* holds at that moment.                                                   *)
(***************************************************************************)
EXTENDS Outcomes

CONSTANTS
    Wanted,       \* the system that the binding names
    Others,       \* other systems
    PageSize,     \* beszelPageSize, which the hub keeps to
    MaxPages,     \* maxBeszelPages
    MaxRecords,   \* maxBeszelRecords
    MaxSystems,   \* bound: systems of the hub
    MaxChanges    \* bound: changes of the hub during a collection

BeszelAssumption ==
    /\ PageSize \in Nat \ {0} /\ MaxPages \in Nat \ {0}
    /\ MaxRecords \in Nat /\ MaxSystems \in Nat /\ MaxChanges \in Nat

VARIABLES
    at,        \* "page", "alternate", "done"
    number,    \* pageNumber, or how many alternate routes were asked
    all,       \* the systems read so far
    expected,  \* expectedPages and expectedTotalItems, of the first page
    listed,    \* what fetchSystems returns: an error or the list
    hub,       \* the systems of the hub, in the order it lists them
    form,      \* the form of its pages
    changes,   \* history: how often the hub changed
    totals     \* history: the totals that the pages stated

hubVars == <<hub, form, changes>>
vars == <<at, number, all, expected, listed, hub, form, changes, totals>>

Systems == {Wanted} \cup Others

Hubs == {s \in UNION {[1..n -> Systems] : n \in 0..MaxSystems} :
            \A i, j \in DOMAIN s : s[i] = s[j] => i = j}

(* An array or an envelope without metadata, or with one of the totals or  *)
(* with both.                                                              *)
Forms == {"plain", "items", "pages", "both"}

Pages(n) == (n + PageSize - 1) \div PageSize

(* The answer of the hub to a request for a page.                          *)
PageOf(n) ==
    [items |-> IF form = "plain" THEN hub
               ELSE SubSeq(hub, (n - 1) * PageSize + 1,
                           IF n * PageSize < Len(hub) THEN n * PageSize
                           ELSE Len(hub)),
     paginated |-> form # "plain",
     hasTotalItems |-> form \in {"items", "both"},
     hasTotalPages |-> form \in {"pages", "both"},
     page |-> n, totalItems |-> Len(hub), totalPages |-> Pages(Len(hub))]

----------------------------------------------------------------------------
(* decodeSystemPage *)

(* The number of pages that the metadata states, or 0 when it does not.    *)
TotalPages(p) ==
    CASE p.hasTotalPages /\ p.totalPages > 0 -> p.totalPages
      [] p.hasTotalPages /\ p.totalPages = 0 ->
            IF p.hasTotalItems /\ p.totalItems = 0 /\ p.items = << >>
            THEN 1 ELSE 0
      [] ~ p.hasTotalPages /\ p.hasTotalItems ->
            IF Pages(p.totalItems) = 0 THEN 1 ELSE Pages(p.totalItems)
      [] OTHER -> 0

Decodes(p) ==
    p.paginated => /\ TotalPages(p) > 0
                   /\ p.page <= TotalPages(p)
                   /\ p.hasTotalItems => Len(p.items) <= p.totalItems

Metadata(p) ==
    [pages |-> TotalPages(p), hasTotalItems |-> p.hasTotalItems,
     totalItems |-> IF p.hasTotalItems THEN p.totalItems ELSE 0]

----------------------------------------------------------------------------
NotListed == [err |-> "none", systems |-> << >>]
ListError(err) == [err |-> err, systems |-> << >>]

Init ==
    /\ at = "page" /\ number = 1
    /\ all = << >> /\ expected = [pages |-> 1, hasTotalItems |-> FALSE,
                                  totalItems |-> 0]
    /\ listed = NotListed
    /\ hub \in Hubs /\ form \in Forms /\ changes = 0
    /\ totals = << >>

Done(result) ==
    /\ at' = "done" /\ listed' = result
    /\ UNCHANGED <<number, expected>>

TooMany(p) ==
    \/ p.hasTotalItems /\ p.totalItems > MaxRecords
    \/ Len(p.items) > MaxRecords - Len(all)
    \/ p.paginated /\ number = 1 /\ TotalPages(p) > MaxPages

(* The first page states what the later ones must repeat.                  *)
Expected(p) == IF number = 1 THEN Metadata(p) ELSE expected

\* Mutant: the loop ends before the last page.
StopsBeforeLast(p) == number + 1 >= Expected(p).pages

LastPage(p) == number >= Expected(p).pages

Counted(p) ==
    Expected(p).hasTotalItems =>
        Len(all) + Len(p.items) = Expected(p).totalItems

Usable(p) == Decodes(p) /\ ~ TooMany(p)

Agrees(p) == Metadata(p) = Expected(p)

(* One page of the PocketBase collection that is answered with 200.        *)
PageRefused ==
    /\ at = "page"
    /\ LET p == PageOf(number)
       IN  /\ ~ (Usable(p) /\ (p.paginated => Agrees(p) /\
                                   (LastPage(p) => Counted(p))))
           /\ totals' = Append(totals, Len(hub))
    /\ Done(ListError("upstream"))
    /\ UNCHANGED <<all, hub, form, changes>>

ReadPage ==
    /\ at = "page"
    /\ LET p == PageOf(number)
       IN  /\ Usable(p) /\ p.paginated /\ Agrees(p) /\ ~ LastPage(p)
           /\ expected' = Expected(p)
           /\ all' = all \o p.items
    /\ totals' = Append(totals, Len(hub))
    /\ number' = number + 1
    /\ UNCHANGED <<at, listed, hub, form, changes>>

ReadLast ==
    /\ at = "page"
    /\ LET p == PageOf(number)
       IN  /\ Usable(p)
           /\ p.paginated => Agrees(p) /\ LastPage(p) /\ Counted(p)
           /\ all' = all \o p.items
           /\ Done([err |-> "none", systems |-> all \o p.items])
    /\ totals' = Append(totals, Len(hub))
    /\ UNCHANGED hubVars

(* The last error of a list that is given up: no response, in time or at   *)
(* all, or a 404.                                                          *)
Lost == \E err \in {"timeout", "upstream"} : Done(ListError(err))

(* No response or a 404: on the first page the older routes are tried.     *)
PageLost ==
    /\ at = "page"
    /\ IF number = 1
       THEN at' = "alternate" /\ number' = 0 /\ UNCHANGED <<expected, listed>>
       ELSE Lost
    /\ UNCHANGED <<all, hub, form, changes, totals>>

Refused ==
    /\ at \in {"page", "alternate"}
    /\ \E err \in {"authentication", "upstream"} : Done(ListError(err))
    /\ UNCHANGED <<all, hub, form, changes, totals>>

AlternateLost ==
    /\ at = "alternate"
    /\ IF number < 2
       THEN number' = number + 1 /\ UNCHANGED <<at, expected, listed>>
       ELSE Lost
    /\ UNCHANGED <<all, hub, form, changes, totals>>

(* An older route answers, in any form: decodeSystems takes the rows of    *)
(* the answer and does not look for further pages.                         *)
ReadAlternate ==
    /\ at = "alternate"
    /\ LET p == PageOf(1)
       IN  Done(IF Decodes(p) THEN [err |-> "none", systems |-> p.items]
                ELSE ListError("upstream"))
    /\ UNCHANGED <<all, hub, form, changes, totals>>

Change ==
    /\ at # "done" /\ changes < MaxChanges
    /\ hub' \in Hubs \ {hub}
    /\ changes' = changes + 1
    /\ UNCHANGED <<at, number, all, expected, listed, form, totals>>

Next ==
    \/ ReadPage \/ ReadLast \/ PageRefused \/ PageLost \/ Refused
    \/ AlternateLost \/ ReadAlternate
    \/ Change

Spec == Init /\ [][Next]_vars

----------------------------------------------------------------------------
(* Client.Status, Client.Evidence and the collectors around them.          *)
FindSystem(list) == {k \in DOMAIN list : list[k] = Wanted}

BeszelAnswer(inWindow) ==
    IF listed.err # "none" THEN [NoAnswer EXCEPT !.err = listed.err]
    ELSE [NoAnswer EXCEPT !.items =
            <<[missing |-> FindSystem(listed.systems) = {},
               inWindow |-> inWindow]>>]

----------------------------------------------------------------------------
(* Properties *)

TypeOK ==
    /\ at \in {"page", "alternate", "done"}
    /\ number \in 0..MaxPages + 1
    /\ hub \in Hubs /\ form \in Forms /\ changes \in 0..MaxChanges
    /\ Len(all) <= MaxRecords
    /\ listed.err \in Errors \cup {"none"}

Listed == at = "done" /\ listed.err = "none"

(* Whatever pages it took, a collection of a hub that did not change holds *)
(* exactly the systems of the hub, so that the status of the bound system  *)
(* is complete exactly if the hub has it; and a collection that is         *)
(* returned has as many systems as every page said there were, when the    *)
(* pages said so.  (An older route is not read page by page.)              *)
PagesAgree ==
    Listed /\ totals # << >> =>
        /\ changes = 0 =>
              /\ listed.systems = hub
              /\ Collected("beszel_status", "live", "live",
                           BeszelAnswer(TRUE), FALSE).complete
                    <=> Wanted \in Range(hub)
        /\ form \in {"items", "both"} =>
              \A k \in DOMAIN totals : totals[k] = Len(listed.systems)
=============================================================================
