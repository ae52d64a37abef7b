----------------------------- MODULE MailServer -----------------------------
(***************************************************************************)
(* Mail end to end: the mailbox handlers of the gateway session            *)
(* (apps/gateway/session/mail.go), the mail server's service and MySQL     *)
(* repository (apps/mailserver), the cleanup ticker, and the player's      *)
(* purse and bags, which the game server keeps.                            *)
(*                                                                         *)
(* Nothing spans two of these steps: a handler is a sequence of calls to   *)
(* the game server and of statements, and any of them may fail or be the   *)
(* last one before a crash.  A session handles one packet at a time, so a  *)
(* character has one handler in flight; the ticker runs beside them.       *)
(***************************************************************************)
EXTENDS Integers, FiniteSets, FiniteSetsExt, Sequences, SequencesExt

CONSTANTS Chars,       \* characters
          Items,       \* item guids
          FirstOwner,  \* FirstOwner[i]: who has item i in the bags at first
          Purse,       \* money every character has at first
          CostForOneMail, \* 30 in the code
          Prices,      \* amounts a client may send or ask for on delivery
          MaxMails,    \* bound on the ids of mails
          MaxPackets,  \* bound on the packets of a behaviour
          MaxFaults,   \* bound on failing calls and statements
          MaxExpirations, \* bound on how often mails expire
          None         \* no mail, no item

MailIds == 1 .. MaxMails

\* A row of mail with its rows of mail_items.
Rows == [id : MailIds, from : Chars, to : Chars, money : Nat, cod : Nat, items : SUBSET Items,
         has : BOOLEAN, returned : BOOLEAN, expired : BOOLEAN]

ASSUME MailAssumption ==
  /\ IsFiniteSet(Chars) /\ IsFiniteSet(Items)
  /\ Purse \in Nat /\ Prices \subseteq Nat /\ FirstOwner \in [Items -> Chars]
  /\ MaxMails \in Nat /\ MaxPackets \in Nat /\ MaxFaults \in Nat
  /\ CostForOneMail \in Nat /\ MaxExpirations \in Nat
  /\ None \notin Rows

VARIABLES
  purse,    \* money of each character (game server)
  bags,     \* bags[c][i]: how often c carries item i (game server)
  mails,    \* the rows of mail with their rows of mail_items, or None
  calls,    \* the handler each character's session runs, or Idle
  ticker,   \* MailsCleanupTicker: [at, mails]: its pass and what it read
  nextId,   \* AUTO_INCREMENT of mail
  left,     \* packets that may still come
  faults,   \* failures that may still happen
  lives,    \* how often a mail has expired (history)
  half,     \* items handed over and not yet removed when the call failed (history)
  stale     \* mails a session and a cleanup pass worked on at once (history)

world   == <<purse, bags>>
bounds  == <<left, faults>>
history == <<lives, half, stale>>
vars    == <<world, mails, nextId, calls, ticker, bounds, history>>

Idle == [at |-> "idle"]
Rest == [at |-> "rest", mails |-> {}]

\* What a letter costs, or each of its attachments - in uint8 arithmetic.
Postage(n) == IF n = 0 THEN CostForOneMail ELSE (CostForOneMail * n) % 256

Init ==
  /\ purse = [c \in Chars |-> Purse]
  /\ bags = [c \in Chars |-> [i \in Items |-> IF FirstOwner[i] = c THEN 1 ELSE 0]]
  /\ mails = [m \in MailIds |-> None]
  /\ calls = [c \in Chars |-> Idle]
  /\ ticker = Rest /\ nextId = 1
  /\ left = MaxPackets /\ faults = MaxFaults
  /\ lives = [m \in MailIds |-> 0]
  /\ half = {} /\ stale = {}
-----------------------------------------------------------------------------
GoOn(c, r) == calls' = [calls EXCEPT ![c] = r]
At(c, pc) == calls[c].at = pc

\* A packet arrives and its handler starts with the record r, on mail m.
Starts(c, r, m) ==
  /\ calls[c] = Idle /\ left > 0
  /\ left' = left - 1
  /\ GoOn(c, r)
  /\ stale' = stale \cup {x \in {m} : \E y \in ticker.mails : y.id = x}
  /\ UNCHANGED <<nextId, world, mails, ticker, faults, lives, half>>
\* The handler goes on with r, and nothing else happens.
Quietly(c, r) ==
  GoOn(c, r) /\ UNCHANGED <<nextId, world, mails, ticker, bounds, history>>

\* StmtUpdateMailByID: every column but has_items, by id.
UpdateMail(row) ==
  LET old == mails[row.id]
  IN  [mails EXCEPT ![row.id] = IF old = None THEN None
         ELSE [row EXCEPT !.items = old.items, !.has = old.has]]

\* AddMail, one transaction: a new row, and one row per attachment.
AddMail(from, to, money, cod, items) ==
  /\ nextId \in MailIds
  /\ nextId' = nextId + 1
  /\ mails' = [mails EXCEPT ![nextId] =
       [id |-> nextId, from |-> from, to |-> to, money |-> money, cod |-> cod,
        items |-> items, has |-> items # {}, returned |-> FALSE, expired |-> FALSE]]
-----------------------------------------------------------------------------
(* HandleSendMail: the money is checked, the items leave the bags, the     *)
(* money leaves the purse, the mail is stored.                             *)

SendChecked(c) ==
  \E to \in Chars, money \in Prices \cup {0}, cod \in Prices \cup {0}, items \in SUBSET Items :
    /\ \A i \in items : bags[c][i] > 0
    /\ Postage(Cardinality(items)) + money <= purse[c]
    /\ Starts(c, [at |-> "s_items", to |-> to, money |-> money, cod |-> cod, items |-> items], None)

SendTakesItems(c) ==
  /\ At(c, "s_items")
  /\ bags' = [bags EXCEPT ![c] = [i \in Items |-> IF i \in calls[c].items THEN @[i] - 1 ELSE @[i]]]
  /\ GoOn(c, [calls[c] EXCEPT !.at = "s_money"])
  /\ UNCHANGED <<nextId, purse, mails, ticker, bounds, history>>

SendTakesMoney(c) ==
  /\ At(c, "s_money")
  /\ LET cost == Postage(Cardinality(calls[c].items)) + calls[c].money
     IN  purse' = [purse EXCEPT ![c] = @ - cost]
  /\ GoOn(c, [calls[c] EXCEPT !.at = "s_send"])
  /\ UNCHANGED <<nextId, bags, mails, ticker, bounds, history>>

SendStores(c) ==
  /\ At(c, "s_send")
  /\ LET call == calls[c] IN AddMail(c, call.to, call.money, call.cod, call.items)
  /\ GoOn(c, Idle)
  /\ UNCHANGED <<world, ticker, bounds, history>>
-----------------------------------------------------------------------------
(* HandleMailTakeMoney and RemoveMailMoneyForPlayer: read the row, write it *)
(* back without the money, then pay it out.                                *)

\* What is read of the mail is what is written back and paid out.
TakeMoneyReads(c) ==
  \E m \in MailIds :
    /\ mails[m] # None /\ mails[m].to = c /\ mails[m].money > 0
    /\ Starts(c, [at |-> "m_upd", row |-> mails[m]], m)

\* Fault: the row keeps the money.
TakeMoneyKeeps(c) ==
  /\ At(c, "m_upd")
  /\ LET row == calls[c].row
     IN  /\ mails' = mails
         /\ GoOn(c, IF mails[row.id] = None THEN Idle ELSE [at |-> "m_pay", row |-> row])
  /\ UNCHANGED <<nextId, world, ticker, bounds, history>>

TakeMoneyEmpties(c) ==
  /\ At(c, "m_upd")
  /\ LET row == calls[c].row
     IN  /\ mails' = UpdateMail([row EXCEPT !.money = 0])
         /\ GoOn(c, IF mails[row.id] = None THEN Idle ELSE [at |-> "m_pay", row |-> row])
  /\ UNCHANGED <<nextId, world, ticker, bounds, history>>

TakeMoneyPays(c) ==
  /\ At(c, "m_pay")
  /\ purse' = [purse EXCEPT ![c] = @ + calls[c].row.money]
  /\ GoOn(c, Idle)
  /\ UNCHANGED <<nextId, bags, mails, ticker, bounds, history>>
-----------------------------------------------------------------------------
(* HandleMailTakeItem: read the mail, pay on delivery, put the item into   *)
(* the bags, and only then RemoveMailItem of the mail server.              *)

TakeItemReads(c) ==
  \E m \in MailIds, i \in Items :
    /\ mails[m] # None /\ mails[m].to = c /\ i \in mails[m].items
    /\ Starts(c, [at |-> "i_pay", id |-> m, item |-> i, cod |-> mails[m].cod], m)

TakeItemPays(c) ==
  /\ At(c, "i_pay")
  /\ IF purse[c] >= calls[c].cod
     THEN purse' = [purse EXCEPT ![c] = @ - calls[c].cod]
          /\ GoOn(c, [calls[c] EXCEPT !.at = "i_add"])
     ELSE GoOn(c, Idle) /\ UNCHANGED purse
  /\ UNCHANGED <<nextId, bags, mails, ticker, bounds, history>>

\* AddExistingItemToPlayer: the bags may be full, the money is gone then.
TakeItemAdds(c) ==
  /\ At(c, "i_add")
  /\ \/ /\ bags' = [bags EXCEPT ![c][calls[c].item] = @ + 1]
        /\ GoOn(c, [calls[c] EXCEPT !.at = "i_read"])
     \/ GoOn(c, Idle) /\ UNCHANGED bags
  /\ UNCHANGED <<nextId, purse, mails, ticker, bounds, history>>

\* RemoveMailItem of the service reads the mail again ...
RemoveMailItemReads(c) ==
  /\ At(c, "i_read")
  /\ LET row == mails[calls[c].id]
     IN  Quietly(c, IF row = None \/ row.to # c THEN Idle
                    ELSE [at |-> "i_del", row |-> row, item |-> calls[c].item, cod |-> calls[c].cod])

\* Fault: the row of mail_items stays.
RemoveMailItemKeeps(c) ==
  /\ At(c, "i_del")
  /\ GoOn(c, [calls[c] EXCEPT !.at = "i_cod"])
  /\ UNCHANGED <<nextId, world, mails, ticker, bounds, history>>

\* ... deletes the row of mail_items (no row: error) ...
RemoveMailItemDeletes(c) ==
  /\ At(c, "i_del")
  /\ LET m == calls[c].row.id
     IN  IF mails[m] # None /\ calls[c].item \in mails[m].items
         THEN /\ mails' = [mails EXCEPT ![m].items = @ \ {calls[c].item}]
              /\ GoOn(c, [calls[c] EXCEPT !.at = "i_cod"])
         ELSE GoOn(c, Idle) /\ UNCHANGED mails
  /\ UNCHANGED <<nextId, world, ticker, bounds, history>>

\* ... sends the payment to the sender, and writes back the mail as it was read,
\* with no cash on delivery.  The flag has_items is not part of the statement.
CodPaid(call) == call.cod > 0 /\ call.row.cod > 0
NeedsUpdate(call) == CodPaid(call) \/ (call.row.has /\ call.row.items = {call.item})
RemoveMailItemSendsCod(c) ==
  /\ At(c, "i_cod")
  /\ LET row == calls[c].row
     IN  IF CodPaid(calls[c]) THEN AddMail(row.to, row.from, row.cod, 0, {})
                              ELSE UNCHANGED <<mails, nextId>>
  /\ GoOn(c, [calls[c] EXCEPT !.at = "i_upd"])
  /\ UNCHANGED <<world, ticker, bounds, history>>

RemoveMailItemUpdates(c) ==
  /\ At(c, "i_upd")
  /\ LET row == calls[c].row
     IN  mails' = IF NeedsUpdate(calls[c])
                  THEN UpdateMail([row EXCEPT !.cod = IF CodPaid(calls[c]) THEN 0 ELSE @])
                  ELSE mails
  /\ GoOn(c, Idle)
  /\ UNCHANGED <<nextId, world, ticker, bounds, history>>
-----------------------------------------------------------------------------
(* HandleDeleteMail and DeleteMail: the attachments that were read go,     *)
(* with their items, then the mail.                                        *)

DeleteReads(c) ==
  \E m \in MailIds :
    /\ mails[m] # None /\ mails[m].to = c /\ mails[m].cod = 0
    /\ Starts(c, [at |-> "d_read", id |-> m], m)
DeleteReadsAgain(c) ==
  /\ At(c, "d_read")
  /\ LET row == mails[calls[c].id]
     IN  Quietly(c, IF row = None THEN Idle ELSE [at |-> "d_items", row |-> row])
DeleteItems(c) ==
  /\ At(c, "d_items")
  /\ LET row == calls[c].row
     IN  mails' = [m \in MailIds |-> IF mails[m] = None THEN None
                   ELSE [mails[m] EXCEPT !.items = @ \ row.items]]
  /\ GoOn(c, [calls[c] EXCEPT !.at = "d_mail"])
  /\ UNCHANGED <<nextId, world, ticker, bounds, history>>
DeleteTheMail(c) ==
  /\ At(c, "d_mail")
  /\ mails' = [mails EXCEPT ![calls[c].row.id] = None]
  /\ GoOn(c, Idle)
  /\ UNCHANGED <<nextId, world, ticker, bounds, history>>

\* A call of the handler fails, or its process dies: whatever is done stays done.
Handed(call) == IF call.at \in {"i_read", "i_del"} THEN {call.item} ELSE {}
CallFails(c) ==
  /\ calls[c] # Idle /\ faults > 0
  /\ faults' = faults - 1
  /\ half' = half \cup Handed(calls[c])
  /\ GoOn(c, Idle)
  /\ UNCHANGED <<nextId, world, mails, ticker, left, lives, stale>>
-----------------------------------------------------------------------------
(* ProcessExpiredMails, one statement a step.                              *)

\* Time passes, and a mail is past its expiration.
Expire(m) ==
  /\ mails[m] # None /\ ~mails[m].expired
  /\ MapThenSumSet(LAMBDA x : lives[x], MailIds) < MaxExpirations
  /\ mails' = [mails EXCEPT ![m].expired = TRUE]
  /\ lives' = [lives EXCEPT ![m] = @ + 1]
  /\ UNCHANGED <<nextId, world, calls, ticker, left, faults, half, stale>>

HasContents(row) == row.money # 0 \/ row.has

\* The mail a handler works on.
MailOf(call) ==
  CASE "id" \in DOMAIN call  -> {call.id}
    [] "row" \in DOMAIN call -> {call.row.id}
    [] OTHER                 -> {}

ExpiredMails ==
  /\ ticker = Rest
  /\ LET rows == {mails[m] : m \in {x \in MailIds : mails[x] # None /\ mails[x].expired}}
     IN  /\ rows # {}
         /\ ticker' = [at |-> "empty", mails |-> rows]
         /\ stale' = stale \cup {r.id : r \in
              {x \in rows : \E c \in Chars : x.id \in MailOf(calls[c])}}
  /\ UNCHANGED <<nextId, world, mails, calls, left, faults, lives, half>>

DeleteEmpty ==
  /\ ticker.at = "empty"
  /\ LET empty == {r \in ticker.mails : ~HasContents(r)}
     IN  /\ mails' = [m \in MailIds |-> IF \E r \in empty : r.id = m THEN None ELSE mails[m]]
         /\ ticker' = [at |-> "return", mails |-> ticker.mails \ empty]
  /\ UNCHANGED <<nextId, world, calls, bounds, history>>

\* Fault: the returned mail keeps its old expiry.
ReturnedRowStillExpired(row) == [row EXCEPT !.to = row.from, !.returned = TRUE]

\* The mails not returned before go back, one by one: the row as it was read,
\* with the sender as receiver, the flag, and a whole new lifetime.
ReturnedRow(row) == [row EXCEPT !.to = row.from, !.returned = TRUE, !.expired = FALSE]
ReturnOne ==
  /\ ticker.at = "return"
  /\ \E row \in {r \in ticker.mails : ~r.returned} :
       /\ mails' = UpdateMail(ReturnedRow(row))
       /\ ticker' = [ticker EXCEPT !.mails = @ \ {row}]
  /\ UNCHANGED <<nextId, world, calls, bounds, history>>

DeleteReturned ==
  /\ ticker.at = "return"
  /\ \A r \in ticker.mails : r.returned
  /\ IF ticker.mails = {} THEN ticker' = Rest /\ UNCHANGED mails
     ELSE /\ mails' = [m \in MailIds |->
                         IF mails[m] = None \/ ~\E r \in ticker.mails : r.id = m THEN mails[m]
                         ELSE [mails[m] EXCEPT !.items = {}]]
          /\ ticker' = [ticker EXCEPT !.at = "mails"]
  /\ UNCHANGED <<nextId, world, calls, bounds, history>>

DeleteReturnedMails ==
  /\ ticker.at = "mails"
  /\ mails' = [m \in MailIds |-> IF \E r \in ticker.mails : r.id = m THEN None ELSE mails[m]]
  /\ ticker' = Rest
  /\ UNCHANGED <<nextId, world, calls, bounds, history>>

\* A statement fails: the pass ends, the next tick starts over.
TickerFails ==
  /\ ticker # Rest /\ faults > 0
  /\ faults' = faults - 1
  /\ ticker' = Rest
  /\ UNCHANGED <<nextId, world, mails, calls, left, history>>

Ticker == \/ ExpiredMails \/ DeleteEmpty \/ ReturnOne
          \/ DeleteReturned \/ DeleteReturnedMails \/ TickerFails

Session(c) ==
  \/ SendChecked(c) \/ SendTakesItems(c) \/ SendTakesMoney(c) \/ SendStores(c)
  \/ TakeMoneyReads(c) \/ TakeMoneyEmpties(c) \/ TakeMoneyPays(c)
  \/ TakeItemReads(c) \/ TakeItemPays(c) \/ TakeItemAdds(c)
  \/ RemoveMailItemReads(c) \/ RemoveMailItemDeletes(c)
  \/ RemoveMailItemSendsCod(c) \/ RemoveMailItemUpdates(c)
  \/ DeleteReads(c) \/ DeleteReadsAgain(c) \/ DeleteItems(c) \/ DeleteTheMail(c)
  \/ CallFails(c)

Next == \/ \E c \in Chars : Session(c)
        \/ Ticker
        \/ \E m \in MailIds : Expire(m)

Spec == Init /\ [][Next]_vars
-----------------------------------------------------------------------------
\* Money on its way: taken from somewhere and not yet put elsewhere.
OnTheWay(call) ==
  CASE call.at = "s_send" -> call.money
    [] call.at = "m_pay"  -> call.row.money
    [] call.at \in {"i_add", "i_read", "i_del", "i_cod"} -> call.cod
    [] OTHER -> 0
Total(S, f(_)) == MapThenSumSet(f, S)
Money ==
  Total(Chars, LAMBDA c : purse[c] + OnTheWay(calls[c]))
    + Total(MailIds, LAMBDA m : IF mails[m] = None THEN 0 ELSE mails[m].money)

\* Money does not come from nothing: whatever fails between the steps that move
\* it (taking it out of a mail, paying on delivery, posting it), purses, mails and
\* running handlers never hold more than at the start - unless the cleanup wrote
\* back a mail it had read before a session changed it (RemoveMailMoneyForPlayer,
\* RemoveMailItem with handleCOD, HandleSendMail).
NoMoneyFromNothing == stale = {} => Money <= Purse * Cardinality(Chars)

\* An item is in one place: carried once or attached to one mail, and in both
\* only while the handler that moves it runs, or after it failed between putting
\* it into the bags and RemoveMailItem - unless the cleanup interfered.
Places(i) == {<<"bags", c>> : c \in {x \in Chars : bags[x][i] > 0}}
               \cup {<<"mail", m>> : m \in {x \in MailIds : mails[x] # None /\ i \in mails[x].items}}
IsSingle(i) == (\A c \in Chars : bags[c][i] <= 1) /\ (\A x, y \in Places(i) : x = y)
ItemIsMoving(i) == \E c \in Chars : i \in Handed(calls[c])
ItemsAreUnique ==
  stale = {} => \A i \in Items : IsSingle(i) \/ ItemIsMoving(i) \/ i \in half

\* The cleanup destroys what a mail contains only after the mail went back to its
\* sender and expired there too, in whatever order it meets the handlers' stale
\* writes (ProcessExpiredMails; its comment B70 tells of the lifetime that was lost).
DestroysExpiredTwice ==
  \A m \in MailIds :
    /\ ticker # Rest /\ calls' = calls /\ mails[m] # None
    /\ mails[m].items # {} \/ mails[m].money > 0
    /\ mails'[m] = None \/ (mails'[m].items # mails[m].items)
    => lives[m] >= 2
ReturnedBeforeDestroyed == [][DestroysExpiredTwice]_vars

\* What the code does not keep: the flag of RemoveMailItem ("mail.HasItemAttachments
\* = false") is not in the UPDATE statement, so an emptied mail is sent back.
FlagIsKept ==
  \A m \in MailIds :
    faults = MaxFaults /\ ticker = Rest /\ mails[m] # None /\ mails[m].has /\ mails[m].items = {} =>
    \E c \in Chars : m \in MailOf(calls[c])
\* The payment on delivery is taken before the bags are known to have space.
PaidIsDelivered ==
  [][\A c \in Chars : At(c, "i_add") /\ calls[c].cod > 0 /\ faults' = faults
       => calls'[c].at # "idle"]_vars
=============================================================================
