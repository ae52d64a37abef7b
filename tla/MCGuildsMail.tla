---------------------------- MODULE MCGuildsMail ----------------------------
(***************************************************************************)
(* Small instances of the guild server and of the mail server.  They share *)
(* no state and are explored one at a time: part says which one runs.      *)
(***************************************************************************)
EXTENDS MailServer, GuildServer

CONSTANTS s, r, i1, f1, o1, m1, f2, g1, g2

VARIABLE part

\* The sender of the mails has an item; cash on delivery needs a second id.
MCFirstOwner == i1 :> s

\* The guild g1 of a founder, an officer and a member; the founder of g2.
MCFounder == g1 :> f1 @@ g2 :> f2
MCRow(g, rank) == [g |-> g, rank |-> rank, note |-> Nothing]
MCFirstMember == f1 :> MCRow(g1, 0) @@ o1 :> MCRow(g1, 1) @@ m1 :> MCRow(g1, 2)
                   @@ f2 :> MCRow(g2, 0)
MCFirstInvite == [c \in GuildChars |-> IF c = m1 THEN g2 ELSE Nothing]
MCAll == {"empty", "invite", "remove", "promote", "demote", "motd", "note", "offnote"}
MCFirstRights == g1 :> (0 :> MCAll @@ 1 :> MCAll @@ 2 :> {"empty"})
                   @@ g2 :> (0 :> MCAll @@ 1 :> {"empty"})
MCRightsChoices == {{}}

MCInit == part \in {"guilds", "mail"} /\ Init /\ GuildInit

MCNext ==
  \/ part = "mail" /\ Next /\ UNCHANGED <<guildVars, part>>
  \/ part = "guilds" /\ GuildNext /\ UNCHANGED <<vars, part>>

MCSpec == MCInit /\ [][MCNext]_<<vars, guildVars, part>>
=============================================================================
