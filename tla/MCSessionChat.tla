--------------------------- MODULE MCSessionChat ---------------------------
(***************************************************************************)
(* Small instances of a gateway session and of the chat server's channels. *)
(* They share no state and are explored one at a time: part says which one *)
(* runs; the other one stays in one initial state, where no fair action of *)
(* it is enabled.                                                          *)
(***************************************************************************)
EXTENDS GatewaySession, ChatChannels

CONSTANTS p1, p2, p3

VARIABLE part

\* Lost connections and battleground requests multiply each other: the first
\* two budgets are about connections (with a second login, with a second loss),
\* the third is about battlegrounds.
Budget(l, d, e) == [logins |-> l, drops |-> d, enqueues |-> e]
MCBudgets == {Budget(2, 1, 0), Budget(1, 2, 0), Budget(1, 0, 1)}

\* Seed rows: nobody; an owner and a member; with a moderator besides.
MCInitials == {<<>>, p1 :> {"owner"} @@ p2 :> {}, p1 :> {"owner"} @@ p2 :> {} @@ p3 :> {"mod"}}
ChannelBudget(r, e, c, s) == [requests |-> r, errors |-> e, cleanups |-> c, restarts |-> s]
MCChannelBudgets == {ChannelBudget(2, 1, 0, 1), ChannelBudget(3, 0, 1, 0)}

One(S) == CHOOSE x \in S : TRUE

MCInit ==
  /\ part \in {"session", "channels"}
  /\ Init /\ (part # "session" => left = One(Budgets))
  /\ ChatInit
  /\ part # "channels" => remaining = One(ChannelBudgets) /\ active = Nil

MCNext ==
  \/ part = "session" /\ Next /\ UNCHANGED <<chatVars, part>>
  \/ part = "channels" /\ ChatNext /\ UNCHANGED <<vars, part>>

MCSpec == MCInit /\ [][MCNext]_<<vars, chatVars, part>> /\ Fairness
=============================================================================
