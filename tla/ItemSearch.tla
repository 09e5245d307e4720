----------------------------- MODULE ItemSearch -----------------------------
(* The searches of a reader among the items of one size that a writer goes on  *)
(* sending: for a tvutimestamp or a pts with a binary search over what it      *)
(* noted of each slot (CLibShmMediaCtx::PollReadDateWithTvutimestamp,          *)
(* SearchItemWithTvutimestamp), and for a pts in order (SetReadIndex)          *)
(* (libshmmedia/src/libshm_media.cpp, libshm_media_item_info.cpp).             *)
(*   items    what the writer sends, its index, its slots,                     *)
(*   handle   the reader's index, and what it noted: for each slot the index   *)
(*            it was read for and the item that was found there,               *)
(*   search   the search under way,                                            *)
(*   answer   what the last search answered, and the index of the writer then. *)
(* An item is written in two steps, its slot being empty between them; the     *)
(* index moves with the second.                                                *)
EXTENDS SearchConstants

VARIABLES items, handle, search, answer, calls
vars == <<items, handle, search, answer, calls>>

NoItem == -1
Refused == [length |-> -1, pts |-> 0, stamp |-> NoStamp]

-----------------------------------------------------------------------------
(* Time stamps: a frame rate and an index of frames.                           *)
StampValid(t) == t.fps \in DOMAIN Rates
InvalidTime == 1000000
StampTime(t) == IF StampValid(t) THEN t.index * Rates[t.fps] ELSE InvalidTime

Sign(n) == IF n > 0 THEN 1 ELSE IF n < 0 THEN -1 ELSE 0

(* _cmpMatchingTvutimestamp, _cmpMatchingPts: how the time of an item is to     *)
(* what is asked.                                                              *)
TimeOf(by, item) == IF by \in {"stamp", "exact"} THEN StampTime(item.stamp) ELSE item.pts
Wanted(by, ask) == IF by \in {"stamp", "exact"} THEN StampTime(ask.stamp) ELSE ask.pts
CompareItem(by, item, ask) == Sign(TimeOf(by, item) - Wanted(by, ask))

-----------------------------------------------------------------------------
(* The writer.  Item i of the feed is sent at index i; a slot holds its number. *)
SlotOf(i) == i % Count
Data(i) == IF i = NoItem THEN Refused ELSE items.feed[i + 1]

Begin ==
  /\ ~items.busy /\ items.w < Len(items.feed)
  /\ items' = [items EXCEPT !.busy = TRUE, !.slots[SlotOf(items.w)] = NoItem]
  /\ UNCHANGED <<handle, search, answer, calls>>

Finish ==
  /\ items.busy
  /\ items' = [items EXCEPT !.busy = FALSE, !.w = @ + 1,
                            !.slots[SlotOf(items.w)] = items.w]
  /\ UNCHANGED <<handle, search, answer, calls>>

-----------------------------------------------------------------------------
(* What the reader noted.  A note counts for the index it was made for.        *)
NodeOf(nodes, i) == nodes[SlotOf(i)]

(* The index of the note is not looked at (mutant of IsReadingSuccess).        *)
IsReadingAny(node, i) == Data(node.item).length > 0
IsReadingSuccess(node, i) == Data(node.item).length > 0 /\ node.idx = i

HasTime(by, node, i) ==
  IsReadingSuccess(node, i) /\ (by \in {"stamp", "exact"} => Data(node.item).stamp # NoStamp)

ReadOut(nodes, i) ==
  IF IsReadingSuccess(NodeOf(nodes, i), i) THEN nodes
  ELSE [nodes EXCEPT ![SlotOf(i)] = [idx |-> i, item |-> items.slots[SlotOf(i)]]]

Result(nodes, i) ==
  [idx |-> i,
   cmp |-> IF HasTime(search.by, NodeOf(nodes, i), i)
             THEN CompareItem(search.by, Data(NodeOf(nodes, i).item), search.ask) ELSE 0]
NoResult == [idx |-> -1, cmp |-> 0]

-----------------------------------------------------------------------------
Idle == [step |-> "idle", by |-> "none", ask |-> <<>>, start |-> 0, end |-> -1,
         first |-> NoResult, last |-> NoResult, left |-> 0, right |-> 0, match |-> NoResult]

NoAnswer == [by |-> "none", ask |-> <<>>, start |-> 0, end |-> -1, idx |-> -1, item |-> NoItem,
             now |-> 0]

Answered(by, idx, item) ==
  /\ answer' = [by |-> by, ask |-> search.ask, start |-> search.start, end |-> search.end,
                idx |-> idx, item |-> item, now |-> items.w + (IF items.busy THEN 1 ELSE 0)]
  /\ search' = Idle

Call(by) ==
  /\ search.step = "idle" /\ calls < Calls
  /\ calls' = calls + 1
  /\ \E ask \in Asks :
       search' = [Idle EXCEPT !.step = IF by = "stamp" THEN "poll" ELSE "snapshot",
                              !.by = by, !.ask = ask]
  /\ answer' = NoAnswer
  /\ UNCHANGED <<items, handle>>

(* A match is answered with what is noted at its slot; a read steps behind it. *)
Found(nodes, result) ==
  /\ Answered(search.by, result.idx, NodeOf(nodes, result.idx).item)
  /\ handle' = [r |-> IF search.by = "exact" THEN handle.r ELSE result.idx + 1, nodes |-> nodes]

(* A read goes on from the stamp to the pts, and from there to the first item. *)
GiveUp(nodes) ==
  /\ handle' = [handle EXCEPT !.nodes = nodes]
  /\ \/ search.by = "stamp"
        /\ search' = [Idle EXCEPT !.step = "snapshot", !.by = "pts", !.ask = search.ask]
        /\ UNCHANGED answer
     \/ search.by = "pts" /\ search' = [search EXCEPT !.step = "fallback"] /\ UNCHANGED answer
     \/ search.by = "exact" /\ Answered("exact", -1, NoItem)

MaxGap == IF Count < 3 THEN 3 ELSE Count

CatchUp(gap) == IF gap >= MaxGap THEN Count * (gap \div Count) ELSE 0

Poll ==
  /\ search.step = "poll"
  /\ LET gap == items.w - handle.r
     IN /\ handle' = [handle EXCEPT !.r = @ + CatchUp(gap)]
        /\ IF gap = CatchUp(gap) THEN Answered("wait", -1, NoItem)
           ELSE search' = [search EXCEPT !.step = "snapshot"] /\ UNCHANGED answer
  /\ UNCHANGED <<items, calls>>

(* A pts is always valid.                                                      *)
AskValid(by, ask) == by = "pts" \/ StampValid(ask.stamp)

Snapshot ==
  /\ search.step = "snapshot" /\ search.by # "seek"
  /\ IF items.w <= handle.r \/ ~AskValid(search.by, search.ask)
       THEN GiveUp(handle.nodes)
       ELSE /\ search' = [search EXCEPT !.step = IF search.by = "exact" THEN "middle" ELSE "first",
                                        !.start = handle.r, !.end = items.w - 1,
                                        !.left = handle.r, !.right = items.w - 1]
            /\ UNCHANGED <<handle, answer>>
  /\ UNCHANGED <<items, calls>>

-----------------------------------------------------------------------------
(* SearchFirstItemMatching: the item at the reader's index, the last one, then  *)
(* those between them.                                                         *)
First ==
  /\ search.step = "first"
  /\ LET nodes == ReadOut(handle.nodes, search.start)
         result == Result(nodes, search.start)
         timed == HasTime(search.by, NodeOf(nodes, search.start), search.start)
         alone == search.start = search.end
     IN \/ /\ ~timed \/ result.cmp > 0 \/ (result.cmp < 0 /\ alone)
           /\ GiveUp(nodes)
        \/ timed /\ result.cmp = 0 /\ Found(nodes, result)
        \/ /\ timed /\ result.cmp < 0 /\ ~alone
           /\ search' = [search EXCEPT !.step = "last", !.first = result]
           /\ handle' = [handle EXCEPT !.nodes = nodes]
           /\ UNCHANGED answer
  /\ UNCHANGED <<items, calls>>

Last ==
  /\ search.step = "last"
  /\ LET nodes == ReadOut(handle.nodes, search.end)
         result == Result(nodes, search.end)
         timed == HasTime(search.by, NodeOf(nodes, search.end), search.end)
     IN \/ /\ ~timed \/ result.cmp < 0
           /\ GiveUp(nodes)
        \/ /\ timed
           /\ result.cmp = 0 \/ (result.cmp > 0 /\ search.end - search.start <= 1)
           /\ Found(nodes, result)
        \/ /\ timed /\ result.cmp > 0 /\ search.end - search.start > 1
           /\ search' = [search EXCEPT !.step = "middle", !.last = result]
           /\ handle' = [handle EXCEPT !.nodes = nodes]
           /\ UNCHANGED answer
  /\ UNCHANGED <<items, calls>>

(* The search is over: with the best that was met, if any.                     *)
Conclude(nodes, match) ==
  IF match = NoResult THEN GiveUp(nodes) ELSE Found(nodes, match)

(* The match met first is kept (mutant of Better).                             *)
BetterIsFirst(match, result) == IF match = NoResult THEN result ELSE match
Better(match, result) == result

GoOn(nodes, left, right, match) ==
  IF left > right THEN Conclude(nodes, match)
  ELSE /\ search' = [search EXCEPT !.left = left, !.right = right, !.match = match]
       /\ handle' = [handle EXCEPT !.nodes = nodes]
       /\ UNCHANGED answer

Middle ==
  /\ search.step = "middle"
  /\ LET mid == search.left + (search.right - search.left) \div 2
         known == IF mid = search.first.idx THEN <<search.first>>
                  ELSE IF mid = search.last.idx THEN <<search.last>> ELSE <<>>
         nodes == IF known = <<>> THEN ReadOut(handle.nodes, mid) ELSE handle.nodes
         result == IF known = <<>> THEN Result(nodes, mid) ELSE known[1]
         timed == HasTime(search.by, NodeOf(nodes, mid), mid)
     IN \/ ~timed /\ Conclude(nodes, search.match)
        \/ timed /\ result.cmp = 0 /\ Found(nodes, result)
        \/ timed /\ result.cmp < 0 /\ GoOn(nodes, mid + 1, search.right, search.match)
        \/ timed /\ result.cmp > 0
             /\ GoOn(nodes, search.left, mid - 1,
                     IF search.by = "exact" THEN NoResult ELSE Better(search.match, result))
  /\ UNCHANGED <<items, calls>>

(* Neither time was found: a read answers the item at the reader's index.      *)
Fallback ==
  /\ search.step = "fallback"
  /\ LET nodes == ReadOut(handle.nodes, handle.r)
         node == NodeOf(nodes, handle.r)
     IN \/ /\ IsReadingSuccess(node, handle.r)
           /\ handle' = [r |-> handle.r + 1, nodes |-> nodes]
           /\ Answered("first", handle.r, node.item)
        \/ /\ ~IsReadingSuccess(node, handle.r)
           /\ handle' = [handle EXCEPT !.nodes = nodes]
           /\ Answered("error", -1, NoItem)
  /\ UNCHANGED <<items, calls>>

-----------------------------------------------------------------------------
(* SetReadIndex: from the oldest item but one on, in order, without notes.     *)
BeginSeek ==
  /\ search.step = "snapshot" /\ search.by = "seek"
  /\ LET start == IF items.w >= Count THEN items.w - Count + 1 ELSE 0
     IN /\ search' = [search EXCEPT !.step = "seek", !.start = start, !.end = items.w - 1,
                                    !.left = start]
        /\ handle' = [handle EXCEPT !.r = start]
  /\ UNCHANGED <<items, answer, calls>>

SeekStops(i, item) ==
  /\ handle' = [handle EXCEPT !.r = i]
  /\ Answered("seek", i, item)

Seek ==
  /\ search.step = "seek"
  /\ LET item == items.slots[SlotOf(search.left)]
         done == search.left > search.end
         lost == Data(item).length <= 0 \/ Data(item).pts <= 0
     IN \/ (done \/ lost) /\ SeekStops(search.end + 1, NoItem)
        \/ ~done /\ ~lost /\ Data(item).pts >= search.ask.pts /\ SeekStops(search.left, item)
        \/ /\ ~done /\ ~lost /\ Data(item).pts < search.ask.pts
           /\ search' = [search EXCEPT !.left = @ + 1]
           /\ UNCHANGED <<handle, answer>>
  /\ UNCHANGED <<items, calls>>

-----------------------------------------------------------------------------
Init ==
  /\ \E feed \in Feeds :
       items = [feed |-> feed, w |-> 0, busy |-> FALSE, slots |-> [s \in 0..Count - 1 |-> NoItem]]
  /\ handle = [r |-> 0, nodes |-> [s \in 0..Count - 1 |-> [idx |-> 0, item |-> NoItem]]]
  /\ search = Idle
  /\ answer = NoAnswer
  /\ calls = 0

Next ==
  \/ Begin \/ Finish
  \/ Call("stamp") \/ Call("exact") \/ Call("seek")
  \/ Poll \/ Snapshot \/ First \/ Last \/ Middle \/ Fallback
  \/ BeginSeek \/ Seek

Spec == Init /\ [][Next]_vars

-----------------------------------------------------------------------------
Slots == 0..Count - 1
ItemNumbers == Nat \cup {NoItem}
Results == [idx : Int, cmp : -1..1]

(* Type invariant: among others, the reader's index does not pass the writer's. *)
TypeOK ==
  /\ items \in [feed : Feeds, w : Nat, busy : BOOLEAN, slots : [Slots -> ItemNumbers]]
  /\ items.w <= Len(items.feed) /\ (items.busy => items.w < Len(items.feed))
  /\ handle \in [r : Nat, nodes : [Slots -> [idx : Nat, item : ItemNumbers]]]
  /\ handle.r <= items.w
  /\ search \in [step : {"idle", "poll", "snapshot", "first", "last", "middle", "fallback", "seek"},
                 by : {"none", "stamp", "pts", "exact", "seek"}, ask : Asks \cup {<<>>},
                 start : Nat, end : Int, first : Results, last : Results, left : Nat, right : Int,
                 match : Results]
  /\ answer \in [by : {"none", "wait", "stamp", "pts", "first", "error", "exact", "seek"},
                 ask : Asks \cup {<<>>}, start : Nat, end : Int, idx : Int, item : ItemNumbers,
                 now : Nat]
  /\ calls \in 0..Calls

Searched == answer.start..answer.end
Lapped == answer.now - answer.start > Count

(* Every item searched has a time, and each a later one.                       *)
InOrder(by) ==
  /\ \A i \in Searched : /\ Data(i).length > 0
                         /\ by \in {"stamp", "exact"} => Data(i).stamp # NoStamp
                         /\ by = "seek" => Data(i).pts > 0
  /\ \A i, j \in Searched : i < j => TimeOf(by, Data(i)) < TimeOf(by, Data(j))

Reaches(by, i) == CompareItem(by, Data(i), answer.ask) >= 0
FirstThatReaches(by, i) ==
  i \in Searched /\ Reaches(by, i) /\ \A j \in Searched : j < i => ~Reaches(by, j)
IsBetween(by) ==
  Searched # {} /\ CompareItem(by, Data(answer.start), answer.ask) <= 0
                /\ CompareItem(by, Data(answer.end), answer.ask) >= 0

(* Unless the writer laps the search, the item found is the first one that      *)
(* reaches the time asked for, among all that were there, whatever was noted    *)
(* of the slots in earlier searches and sent meanwhile; and one is found        *)
(* whenever the time lies between the first and the last.                       *)
SearchFinds ==
  ~Lapped =>
    /\ answer.by \in {"stamp", "pts"} /\ InOrder(answer.by) => FirstThatReaches(answer.by, answer.idx)
    /\ answer.by = "first" /\ InOrder("pts") => ~IsBetween("pts")
    /\ answer.by = "exact" /\ InOrder("exact") =>
         {i \in Searched : CompareItem("exact", Data(i), answer.ask) = 0}
           = IF answer.idx = -1 THEN {} ELSE {answer.idx}
    /\ answer.by = "seek" /\ InOrder("seek") =>
         \/ FirstThatReaches("seek", answer.idx)
         \/ answer.idx = answer.end + 1 /\ \A i \in Searched : ~Reaches("seek", i)

(* The item that comes with an answer is the one at the index answered, also    *)
(* where times are missing or go back; where the writer laps the search, it is  *)
(* at least not an earlier item.  It is no earlier in time than asked for,      *)
(* unless the search for it went over more items than there are slots: a match  *)
(* is kept as the note of its slot, and may be noted over by a later step.      *)
AnswerIsItem ==
  answer.item # NoItem =>
    /\ answer.item >= answer.idx /\ (answer.item > answer.idx => Lapped)
    /\ \/ answer.by \in {"exact", "seek"}
       \/ answer.by \in {"stamp", "pts"} /\ answer.end - answer.start < Count
       => CompareItem(answer.by, Data(answer.item), answer.ask) >= 0
=============================================================================
