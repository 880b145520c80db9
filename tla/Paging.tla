------------------------------- MODULE Paging -------------------------------
(***************************************************************************)
(* Lists that clients read page by page while they change.  A list is a    *)
(* set of rows with a key: most lists show the newest first and continue    *)
(* after the key and id of the last row shown; the comment and the admin   *)
(* lists count rows instead.  One client reads one list.                   *)
(***************************************************************************)
EXTENDS Naturals, FiniteSets

CONSTANTS
    Ids,          \* rows, numbers: the order that breaks ties
    Sizes,        \* page sizes clients ask for
    DefaultSize,
    MaxSize,
    MaxTime,      \* bounds the model
    MaxChanges    \* changes of the list while it is read (bounds the model)

VARIABLES
    list,     \* which list
    size,     \* the size asked for
    key,      \* time of each row, 0 when it is not in the list
    grouped,  \* whether the group state of the recipient exists
    now,
    cursor,   \* the row the next page starts after; [key |-> 0, id |-> 0] at first
    page,     \* pages read so far
    total,    \* what the last answer said of the number of pages (offset lists)
    shown,    \* how often each row was shown
    done,     \* whether the client was told that there is no more
    kept,     \* history: rows that were in the list all the time with one key, none
              \* when the group state was missing
    placed,   \* history: the time each row has, or had when it was in the list last
    falls,    \* history: how often each row was moved down
    changes   \* history: changes since the first page

vars == <<list, size, key, grouped, now, cursor, page, total, shown, done, kept,
          placed, falls, changes>>

Start == [key |-> 0, id |-> 0]
Ascending == {"tags"}
OffsetLists == {"comments", "replies", "adminPosts"}
KeysetLists == {"published", "tagged", "author", "tags", "groups", "actors", "deliveries"}
\* Keys that never change once a row has one
FixedKeys == {"tags", "deliveries", "comments", "replies"}
\* Keys that only rise: a publication reads the clock after the one before it ended, and
\* the time of an actor is the newest of their events.
RisingKeys == {"published", "tagged", "actors"}

-----------------------------------------------------------------------------
(* Sizes *)

Clamped(s) ==
    IF s = 0 THEN DefaultSize ELSE IF s <= MaxSize THEN s ELSE MaxSize

\* Asking for too much is refused
Refusing(s) ==
    IF s = 0 THEN {DefaultSize} ELSE {s} \cap 1..MaxSize

Uncapped(s) == IF s = 0 THEN DefaultSize ELSE s

-----------------------------------------------------------------------------
(* Pages *)

RowAt(i, k) == [key |-> IF list \in Ascending THEN i ELSE k, id |-> i]
Row(i) == RowAt(i, key[i])
Rows == {Row(i) : i \in {j \in Ids : key[j] # 0}}

\* Row comparison of SQL, in the direction of the list
Precedes(a, b) ==
    IF list \in Ascending
    THEN a.key < b.key \/ (a.key = b.key /\ a.id < b.id)
    ELSE a.key > b.key \/ (a.key = b.key /\ a.id > b.id)

\* A cursor that kept the time only
WrongAfter(r) == cursor = Start \/ (r.key # cursor.key /\ Precedes(cursor, r))

\* WHERE: rows after the cursor
After(r) == cursor = Start \/ Precedes(cursor, r)

Rank(rows, r) == Cardinality({s \in rows : Precedes(s, r)})

\* LIMIT n OFFSET m
Limit(rows, m, n) == {r \in rows : Rank(rows, r) >= m /\ Rank(rows, r) < m + n}

Last(rows) == CHOOSE r \in rows : \A s \in rows : s = r \/ Precedes(s, r)

Show(rows) == shown' = [i \in Ids |-> IF Row(i) \in rows THEN shown[i] + 1 ELSE shown[i]]

\* One row more than asked for tells whether there is another page; the cursor is
\* the last row that is shown.
KeysetPage(rows, n) ==
    LET fetched == Limit({r \in rows : After(r)}, 0, n + 1)
        items   == Limit(fetched, 0, n)
        hasMore == Cardinality(fetched) > n
    IN
    /\ Show(items)
    /\ done' = ~hasMore
    /\ cursor' = IF hasMore THEN Last(items) ELSE Start
    /\ page' = page + 1 /\ UNCHANGED total

\* (page - 1) * size rows are skipped; page is one less than the page that is read
Offset(n) == page * n

\* The client stops at the number of pages that the answer gives.
OffsetPage(n, pages) ==
    LET items == Limit(Rows, Offset(n), n) IN
    /\ Show(items)
    /\ page' = page + 1 /\ total' = pages /\ done' = (page' >= pages)
    /\ UNCHANGED cursor

PageCount(rows, n) == (Cardinality(rows) + n - 1) \div n

Reading == ~done /\ UNCHANGED <<list, size, key, grouped, now, kept, placed, falls, changes>>

ListPublishedPosts == list = "published" /\ Reading /\ KeysetPage(Rows, Clamped(size))
ListPostsByTag     == list = "tagged" /\ Reading /\ KeysetPage(Rows, Clamped(size))
ListAuthorPosts    == list = "author" /\ Reading /\ KeysetPage(Rows, Clamped(size))
ListTags           == list = "tags" /\ Reading /\ KeysetPage(Rows, Clamped(size))
ListGroupActors    == list = "actors" /\ Reading /\ KeysetPage(Rows, Clamped(size))
ListDeliveries     == list = "deliveries" /\ Reading /\ KeysetPage(Rows, Uncapped(size))

\* While the group state of a recipient is missing the inbox is grouped instead, on
\* the first page only: later pages are read from the group state, whatever the
\* first one was made of.
ListAggregated ==
    /\ list = "groups" /\ Reading
    /\ IF grouped \/ cursor = Start
       THEN KeysetPage(Rows, Clamped(size)) ELSE KeysetPage({}, Clamped(size))

ListTopLevelComments ==
    /\ list = "comments" /\ Reading
    /\ \E n \in Refusing(size) : OffsetPage(n, PageCount(Rows, n))

ListReplies ==
    /\ list = "replies" /\ Reading
    /\ \E n \in Refusing(size) : OffsetPage(n, PageCount(Rows, n))

\* The total is a column of the rows: past the end there is none.
ListAdminPosts ==
    /\ list = "adminPosts" /\ Reading
    /\ LET n == Clamped(size) IN
       OffsetPage(n, IF Offset(n) < Cardinality(Rows) THEN PageCount(Rows, n) ELSE 0)

-----------------------------------------------------------------------------
(* What other requests do to the list *)

Changing(i) ==
    /\ changes < MaxChanges /\ changes' = changes + 1 /\ kept' = kept \ {i}
    /\ UNCHANGED <<list, size, now, cursor, page, total, shown, done>>

\* The time of a row is not that of the change: it comes from a clock which was read
\* before the transaction, and a group has that of the event that was consumed last,
\* which may be an old one that comes late.
Times(i) ==
    {t \in 1..now : /\ list \in RisingKeys => t >= placed[i]
                    /\ list \in FixedKeys /\ placed[i] # 0 => t = placed[i]}

\* A row gets a time.  One that is consumed while the group state is missing makes a
\* state with its group alone.
Put(i, t) ==
    /\ key' = [j \in Ids |-> IF j = i THEN t ELSE IF grouped THEN key[j] ELSE 0]
    /\ placed' = [placed EXCEPT ![i] = t]
    /\ falls' = IF placed[i] # 0 /\ Precedes(RowAt(i, placed[i]), RowAt(i, t))
                THEN [falls EXCEPT ![i] = @ + 1] ELSE falls
    /\ grouped' = TRUE /\ Changing(i)

Insert(i) == key[i] = 0 /\ \E t \in Times(i) : Put(i, t)
Touch(i)  == key[i] # 0 /\ list \notin FixedKeys /\ \E t \in Times(i) : Put(i, t)
Delete(i) ==
    /\ key[i] # 0 /\ key' = [key EXCEPT ![i] = 0]
    /\ Changing(i) /\ UNCHANGED <<grouped, placed, falls>>

\* Rebuilding the group state has no caller yet.
Rebuild ==
    /\ ~grouped /\ grouped' = TRUE
    /\ UNCHANGED <<list, size, key, now, cursor, page, total, shown, done, kept, placed, falls,
                   changes>>

Tick ==
    /\ now < MaxTime /\ now' = now + 1
    /\ UNCHANGED <<list, size, key, grouped, cursor, page, total, shown, done, kept, placed, falls,
                   changes>>

-----------------------------------------------------------------------------
Init ==
    /\ list \in KeysetLists \cup OffsetLists
    /\ size \in Sizes /\ now = 2
    /\ key \in [Ids -> 0..2]
    /\ grouped \in (IF list = "groups" THEN BOOLEAN ELSE {TRUE})
    /\ cursor = Start /\ page = 0 /\ total = 0 /\ done = FALSE /\ changes = 0
    /\ shown = [i \in Ids |-> 0]
    /\ kept = {i \in Ids : key[i] # 0 /\ grouped}
    /\ placed = key /\ falls = [i \in Ids |-> 0]

Next ==
    \/ ListPublishedPosts \/ ListPostsByTag \/ ListAuthorPosts \/ ListTags
    \/ ListGroupActors \/ ListDeliveries \/ ListAggregated
    \/ ListTopLevelComments \/ ListReplies \/ ListAdminPosts
    \/ \E i \in Ids : Insert(i) \/ Delete(i) \/ Touch(i)
    \/ Rebuild \/ Tick

Spec == Init /\ [][Next]_vars

-----------------------------------------------------------------------------
\* Whoever reads a keyset list to its end has seen every row that stayed where it
\* was exactly once, whatever was added, removed or moved up or down in the meantime,
\* and any other row once more at most for each time that it was moved down, which is
\* never in most lists: the cursor of one page and the comparison of the next must
\* agree on ties.
KeysetComplete ==
    list \in KeysetLists =>
        /\ \A i \in Ids : shown[i] <= 1 + falls[i]
        /\ list \in RisingKeys \cup FixedKeys => \A i \in Ids : shown[i] <= 1
        /\ done => \A i \in kept : shown[i] = 1

\* An offset list promises the same for a list that does not change.
OffsetComplete ==
    list \in OffsetLists /\ changes = 0 =>
        /\ \A i \in Ids : shown[i] <= 1
        /\ done => \A i \in kept : shown[i] = 1

TraversalComplete == KeysetComplete /\ OffsetComplete

-----------------------------------------------------------------------------
(* What the above follows from, by induction *)

TypeOK ==
    /\ list \in KeysetLists \cup OffsetLists /\ size \in Sizes
    /\ now \in Nat \ {0} /\ key \in [Ids -> 0..now]
    /\ grouped \in BOOLEAN /\ done \in BOOLEAN
    /\ cursor = Start \/ \E i \in Ids, k \in 1..now : cursor = RowAt(i, k)
    /\ page \in Nat /\ changes \in Nat /\ shown \in [Ids -> Nat]
    /\ kept \subseteq Ids /\ placed \in [Ids -> 0..now] /\ falls \in [Ids -> Nat]

\* What the histories say of the rows
HistoriesFit == \A i \in Ids :
    /\ key[i] # 0 => placed[i] = key[i]
    /\ shown[i] # 0 => placed[i] # 0
    /\ list \in RisingKeys \cup FixedKeys => falls[i] = 0
    /\ i \in kept => key[i] # 0 /\ grouped /\ falls[i] = 0

\* A row that was shown as often as it may be is not after the cursor, nor will it be
\* if it comes back where it was or further up.
ShownIsPassed ==
    list \in KeysetLists /\ ~done =>
        \A i \in Ids : shown[i] > falls[i] => ~After(RowAt(i, placed[i]))

\* A row that stayed was shown when the cursor has passed it.
PassedIsShown ==
    list \in KeysetLists =>
        \A i \in kept : done \/ ~After(Row(i)) => shown[i] = 1

PageSize == IF list = "adminPosts" THEN Clamped(size) ELSE IF size = 0 THEN DefaultSize ELSE size

\* The pages of a list that does not change are the ranks of its rows, cut in pieces.
PagesCoverRanks ==
    list \in OffsetLists /\ changes = 0 =>
        /\ \A i \in Ids :
              shown[i] = IF key[i] # 0 /\ Rank(Rows, Row(i)) < page * PageSize THEN 1 ELSE 0
        /\ done => page * PageSize >= Cardinality(Rows)

IInv ==
    /\ TypeOK /\ HistoriesFit /\ TraversalComplete
    /\ ShownIsPassed /\ PassedIsShown /\ PagesCoverRanks
=============================================================================
