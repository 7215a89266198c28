------------------------------- MODULE Browser -------------------------------
(***************************************************************************)
(* What the pages of the web client share: the preferences that the        *)
(* settings store keeps for all of them, the confirmation dialog           *)
(* (hooks/useConfirm.tsx), and the bounds.                                 *)
(*                                                                         *)
(*   - The user acts MaxActs times at most, and MaxUpsets things happen    *)
(*     that the client does not see coming: other clients and runs change  *)
(*     the server, requests and streams fail.                              *)
(*   - A request goes through "sent", "done" (the server has acted) and    *)
(*     its answer; a failing one is lost on either way.                    *)
(***************************************************************************)
EXTENDS Naturals, Sequences

CONSTANTS None, MaxActs, MaxUpsets

ASSUME BoundsAssumption == MaxActs \in Nat /\ MaxUpsets \in Nat

VARIABLES
    route,          \* the page on screen
    systemSettings, \* the preferences, in the store of the settings
    acts, upsets

bounds == <<acts, upsets>>

Themes  == {"dark", "light"}
Numbers == {1, 5, 51}
SystemSettings == [theme : Themes, confirmBeforeDelete : BOOLEAN, maxConcurrentExecutions : Numbers]
DefaultSettings == [theme |-> "dark", confirmBeforeDelete |-> TRUE, maxConcurrentExecutions |-> 5]

User(name)  == route = name /\ acts < MaxActs /\ acts' = acts + 1 /\ UNCHANGED upsets
Upset(name) == route = name /\ upsets < MaxUpsets /\ upsets' = upsets + 1 /\ UNCHANGED acts
Request(name) == route = name /\ UNCHANGED bounds

\* The slots for requests of a kind are alike: the next one takes the first.
Free(requests) == \E k \in DOMAIN requests : requests[k].step = "idle"
Slot(requests) == CHOOSE k \in DOMAIN requests : requests[k].step = "idle"

\* What of a list is kept, in its order (Array.filter, and WHERE in a query).
Filtered(list, kept) ==
    LET upTo[k \in 0 .. Len(list)] ==
            IF k = 0 THEN <<>>
            ELSE IF list[k] \in kept THEN Append(upTo[k - 1], list[k]) ELSE upTo[k - 1]
    IN upTo[Len(list)]

\* confirm: a dangerous action needs no dialog when the preference is off.
NeedsDialog(danger) == ~danger \/ systemSettings.confirmBeforeDelete
=============================================================================
