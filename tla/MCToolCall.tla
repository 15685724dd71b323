----------------------------- MODULE MCToolCall -----------------------------
(* Small instances of ToolCall for TLC.                                    *)
EXTENDS ToolCall, TLC

Item(missing, inWindow) == [missing |-> missing, inWindow |-> inWindow]

OneItem == [NoAnswer EXCEPT !.items = <<Item(FALSE, TRUE)>>]

(* An answer, and a failure.                                               *)
FewAnswers == {OneItem, [NoAnswer EXCEPT !.err = "upstream"]}

(* Every answer with at most two items.                                    *)
Items == [missing : BOOLEAN, inWindow : BOOLEAN]
AllAnswers ==
    {[NoAnswer EXCEPT !.err = e] : e \in Errors}
    \cup {[NoAnswer EXCEPT !.items = s, !.upstream = u, !.local = l,
                           !.discarded = d] :
            s \in {<< >>} \cup {<<i>> : i \in Items}
                  \cup {<<i, i>> : i \in Items},
            u \in BOOLEAN, l \in BOOLEAN, d \in 0..1}

(* The bound object is known to the source, or is not.                     *)
FoundOrMissing ==
    {OneItem, [NoAnswer EXCEPT !.items = <<Item(TRUE, TRUE)>>]}

LokiAndGatus == {{"loki", "gatus"}}
OneLoki == {{"loki"}}
EachKind == {{k} : k \in Kinds}
EachPair == {{k, "ntfy"} : k \in Kinds}

AnyPair == LokiAndGatus \cup EachPair

Alone == Cardinality({c \in Calls : bpc[c] # "idle" \/ call[c] # NoCall}) <= 1

FewInstances ==
    \A c \in Calls :
        /\ call[c].service \in LokiAndGatus \cup {{}}
        /\ \A k \in DOMAIN answers[c] :
              answers[c][k] \in FewAnswers \/ answers[c][k].err = "timeout"

Refused == {c \in Calls : bpc[c] = "idle" /\ audits[c] > 0}

(* Two calls that overlap have few answers, one alone has all of them.     *)
(* The next minute sees calls one after the other.  Nothing is followed    *)
(* beyond the refusal of a caller while another one collects.              *)
Modest ==
    /\ Alone \/ FewInstances
    /\ now > 0 => Alone /\ FewInstances
    /\ Refused # {} => FewInstances /\ \A c \in Calls : call[c].phase # "collecting"

CallSymmetry == Permutations(Calls)
============================================================================
