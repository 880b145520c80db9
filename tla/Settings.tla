------------------------------- MODULE Settings -------------------------------
(***************************************************************************)
(* What a user wants to be notified of.  Saving preferences replaces all   *)
(* rows of the user in one transaction, a DELETE and an INSERT per type    *)
(* and channel; do-not-disturb and author subscriptions are one upsert.    *)
(* The transactions run under READ COMMITTED: a DELETE removes what was    *)
(* committed when it began, and waits for whoever has locked such a row;   *)
(* an INSERT waits for an uncommitted row with its key and fails if one is *)
(* there.  One user, from several clients; the three tables have nothing   *)
(* in common, so a behaviour is about one of them.                         *)
(***************************************************************************)
EXTENDS Naturals, Sequences, SequencesExt

CONSTANTS
    Types,      \* notification types
    Channels,   \* IN_APP, WEBSOCKET, EMAIL and SMS
    Clients,    \* concurrent saves
    Nobody

VARIABLES
    table,    \* which table the behaviour is about
    rows,     \* notification_user_preference: type, channel and who saved it
    single,   \* the row of notification_user_dnd or notification_author_subscription
    tx,       \* transactions
    last      \* history: what the last save wrote, and whether it ran alone

vars == <<table, rows, single, tx, last>>

Row == [type : Types, channel : Channels, by : Clients]
Idle == [step |-> "Idle", todo |-> << >>, left |-> Channels, gone |-> {}, new |-> {}, alone |-> TRUE]

Init ==
    /\ table \in {"preference", "dnd", "subscription"}
    /\ rows = {} /\ single = Nobody
    /\ tx = [c \in Clients |-> Idle]
    /\ last = [rows |-> {}, alone |-> TRUE]

\* The rows of a type that one save wrote, one for each channel
RowsOf(c, t, channels) == {[type |-> t, channel |-> h, by |-> c] : h \in channels}

Key(r) == <<r.type, r.channel>>
Others(c) == Clients \ {c}

WrongDeleted(c, types) == {r \in rows : r.type \in ToSet(types)}

\* All rows of the user, whatever types the request names
Deleted(c, types) == rows

\* A type may be named twice: its second row is refused by the first.
SaveNotificationPreferences(c) ==
    /\ table = "preference" /\ tx[c] = Idle
    /\ \E types \in BoundedSeq(Types, 2) :
          tx' = [d \in Clients |->
              IF d = c THEN [step |-> "Delete", todo |-> types, left |-> Channels, new |-> {},
                             gone |-> Deleted(c, types), alone |-> \A e \in Others(c) : tx[e] = Idle]
              ELSE [tx[d] EXCEPT !.alone = @ /\ tx[d] = Idle]]
    /\ UNCHANGED <<table, rows, single, last>>

DeleteRows(c) ==
    /\ tx[c].step = "Delete"
    /\ \A d \in Others(c) : tx[d].step = "Delete" \/ tx[d].gone \cap tx[c].gone = {}
    /\ tx' = [tx EXCEPT ![c].step = "Insert"]
    /\ UNCHANGED <<table, rows, single, last>>

\* Keys that an INSERT finds taken, and those it has to wait for
Taken(c) == {Key(r) : r \in (rows \ tx[c].gone) \cup tx[c].new}
Awaited(c) == {Key(r) : r \in UNION {tx[d].new \cup (IF tx[d].step = "Insert" THEN tx[d].gone ELSE {}) :
                                     d \in Others(c)}}

\* Four rows per item, the items in the order of the request, the channels in one order
InsertRow(c) ==
    LET h == CHOOSE h \in tx[c].left : TRUE
        r == [type |-> Head(tx[c].todo), channel |-> h, by |-> c]
        left == tx[c].left \ {h}
    IN
    /\ tx[c].step = "Insert" /\ tx[c].todo # << >>
    /\ Key(r) \notin Awaited(c) /\ Key(r) \notin Taken(c)
    /\ tx' = [tx EXCEPT ![c].new = @ \cup {r},
                        ![c].todo = IF left = {} THEN Tail(@) ELSE @,
                        ![c].left = IF left = {} THEN Channels ELSE left]
    /\ UNCHANGED <<table, rows, single, last>>

\* Rows that it deleted are gone for those who waited to delete them too.  The cache of
\* the preferences is deleted after the commit; if that fails the client is told that
\* saving failed.
Commit(c) ==
    /\ tx[c].step = "Insert" /\ tx[c].todo = << >>
    /\ rows' = (rows \ tx[c].gone) \cup tx[c].new
    /\ last' = [rows |-> tx[c].new, alone |-> tx[c].alone]
    /\ tx' = [d \in Clients |-> IF d = c THEN Idle ELSE [tx[d] EXCEPT !.gone = @ \ tx[c].gone]]
    /\ UNCHANGED <<table, single>>

\* A taken key, a deadlock that PostgreSQL resolves, a failed call or a lost connection
Rollback(c) ==
    /\ tx[c] # Idle /\ tx' = [tx EXCEPT ![c] = Idle]
    /\ UNCHANGED <<table, rows, single, last>>

Upsert(c, t) == table = t /\ single' = c /\ UNCHANGED <<table, rows, tx, last>>

SaveNotificationDND(c) == Upsert(c, "dnd")
SaveAuthorSubscription(c) == Upsert(c, "subscription")

Next == \E c \in Clients :
    \/ SaveNotificationPreferences(c) \/ DeleteRows(c) \/ InsertRow(c) \/ Commit(c) \/ Rollback(c)
    \/ SaveNotificationDND(c) \/ SaveAuthorSubscription(c)

Spec == Init /\ [][Next]_vars

-----------------------------------------------------------------------------
TypeOK == rows \subseteq Row /\ single \in Clients \cup {Nobody}

\* The channels of a type are those of one save, however many saves overlapped or failed;
\* and what the user has after a save that overlapped no other is what it asked for.
PreferencesOfOneSave ==
    /\ \A t \in Types :
          LET of == {r \in rows : r.type = t} IN
          \/ of = {}
          \/ \E c \in Clients : of = RowsOf(c, t, Channels)
    /\ last.alone => rows = last.rows

-----------------------------------------------------------------------------
(* The inductive invariant *)

Tx == [step : {"Delete", "Insert"}, todo : Seq(Types), left : (SUBSET Channels) \ {{}},
       gone : SUBSET Row, new : SUBSET Row, alone : BOOLEAN]

OfType(set, t) == {r \in set : r.type = t}
Keys(set) == {Key(r) : r \in set}

\* A save has written all rows of a type, none, or those it has come to.
WrittenInOrder == \A c \in Clients : tx[c] # Idle => \A t \in Types :
    IF tx[c].todo # << >> /\ tx[c].left # Channels /\ t = Head(tx[c].todo)
    THEN OfType(tx[c].new, t) = RowsOf(c, t, Channels \ tx[c].left)
    ELSE OfType(tx[c].new, t) \in {{}, RowsOf(c, t, Channels)}

\* What it removes are whole types of what is there, in the place of which it writes.
WholeTypes == \A c \in Clients :
    /\ tx[c].gone \subseteq rows
    /\ \A t \in Types : OfType(tx[c].gone, t) \in {{}, OfType(rows, t)}
    /\ tx[c].step = "Delete" => tx[c].new = {}
    /\ Keys(tx[c].new) \cap Keys(rows \ tx[c].gone) = {}

\* Two saves never remove or write the same.
Apart == \A c, d \in Clients : c # d =>
    /\ Keys(tx[c].new) \cap Keys(tx[d].new) = {}
    /\ tx[c].step = "Insert" /\ tx[d].step = "Insert" => tx[c].gone \cap tx[d].gone = {}

\* A save that runs alone removes all there is.
AloneRemovesAll == \A c \in Clients :
    tx[c] # Idle /\ tx[c].alone => tx[c].gone = rows /\ \A d \in Others(c) : tx[d] = Idle

IInv ==
    /\ TypeOK /\ last.alone \in BOOLEAN /\ tx \in [Clients -> Tx \cup {Idle}]
    /\ WrittenInOrder /\ WholeTypes /\ Apart /\ AloneRemovesAll /\ PreferencesOfOneSave
=============================================================================
