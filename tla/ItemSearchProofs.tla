-------------------------- MODULE ItemSearchProofs --------------------------
(* What the searches of a reader answer, for any feed of items, any number of  *)
(* slots, and however the writer's steps fall between those of a search.       *)
EXTENDS ItemSearch, ModLemmas

-----------------------------------------------------------------------------
(* The inductive invariant.                                                    *)
Now == items.w + (IF items.busy THEN 1 ELSE 0)

(* A slot holds the last item sent there; the last Count items are all there.  *)
SlotsHold ==
  /\ \A k \in Slots : items.slots[k] # NoItem =>
       /\ items.slots[k] < items.w /\ items.slots[k] >= Now - Count
       /\ SlotOf(items.slots[k]) = k
  /\ \A j \in 0..items.w - 1 : j >= Now - Count => items.slots[SlotOf(j)] = j

(* A note is of an item of its slot, and not of an earlier one than it was      *)
(* made for.                                                                   *)
NotesHold(nodes) ==
  \A k \in Slots : nodes[k].item # NoItem =>
    /\ SlotOf(nodes[k].idx) = k /\ SlotOf(nodes[k].item) = k
    /\ nodes[k].idx <= nodes[k].item /\ nodes[k].item < items.w

(* What a search has at each of its steps.                                     *)
Begun ==
  /\ search.step # "idle" => search.ask \in Asks
  /\ search.step = "poll" => search.by = "stamp"
  /\ search.step \in {"poll", "snapshot"} =>
       /\ search.start = 0 /\ search.end = -1
       /\ search.by \in {"stamp", "pts", "exact", "seek"}
       /\ search.first = NoResult /\ search.last = NoResult /\ search.match = NoResult
  /\ search.step = "snapshot" /\ search.by \in {"stamp", "pts"} => handle.r < items.w

InRange ==
  /\ search.step \in {"first", "last", "middle", "fallback"} =>
       /\ handle.r = search.start /\ search.start <= search.end /\ search.end < items.w
       /\ search.by \in {"stamp", "pts", "exact"}
       /\ search.by = "exact" => search.step = "middle"
       /\ search.step = "fallback" => search.by = "pts"
  /\ search.step \in {"first", "last"} =>
       /\ search.left = search.start /\ search.right = search.end
       /\ search.match = NoResult
  /\ search.step = "seek" =>
       /\ search.by = "seek" /\ search.start <= search.left
       /\ search.left <= search.end + 1 /\ search.end < items.w

Bracket ==
  /\ search.step = "last" =>
       /\ search.start < search.end
       /\ search.first.idx = search.start /\ search.first.cmp = -1
  /\ search.step = "middle" =>
       /\ search.left <= search.right
       /\ search.by = "exact" => search.first = NoResult /\ search.last = NoResult
       /\ search.by # "exact" =>
            /\ search.start < search.end
            /\ search.first.idx = search.start /\ search.first.cmp = -1
            /\ search.last.idx = search.end /\ search.last.cmp = 1

(* What was noted at i is of i or later, has its time, and is how it was.       *)
Late(nodes, i) == NodeOf(nodes, i).item # NoItem => NodeOf(nodes, i).item >= i
Noted(nodes, i, cmp) ==
  /\ HasTime(search.by, NodeOf(nodes, i), i)
  /\ CompareItem(search.by, Data(NodeOf(nodes, i).item), search.ask) = cmp

(* A search that goes over no more items than there are slots; one that is not  *)
(* lapped; and how the item i is to what is asked.                             *)
Short == search.end - search.start < Count
Tracking == Now - search.start <= Count
How(i) == CompareItem(search.by, Data(i), search.ask)

(* What is left to search between the first and the last item: those before it  *)
(* are too early, those behind it too late, and the match is the one behind it. *)
Narrowed(nodes, left, right, match) ==
  /\ search.start <= left /\ left <= right + 1 /\ right <= search.end
  /\ search.by = "exact" => match = NoResult
  /\ search.by # "exact" =>
       /\ \/ match = NoResult /\ right = search.end
          \/ match.idx = right + 1 /\ right < search.end /\ match.cmp = 1
       /\ Late(nodes, search.end)
       /\ match # NoResult => Late(nodes, match.idx)
       /\ Short => /\ Noted(nodes, search.start, -1) /\ Noted(nodes, search.end, 1)
                   /\ match # NoResult => Noted(nodes, match.idx, 1)
  /\ Tracking => /\ left = search.start \/ How(left - 1) = -1
                 /\ right = search.end \/ How(right + 1) = 1

SearchInOrder ==
  /\ \A i \in search.start..search.end :
       /\ Data(i).length > 0
       /\ search.by \in {"stamp", "exact"} => Data(i).stamp # NoStamp
       /\ search.by = "seek" => Data(i).pts > 0
  /\ \A i, j \in search.start..search.end :
       i < j => TimeOf(search.by, Data(i)) < TimeOf(search.by, Data(j))

Kept ==
  /\ search.step = "last" => Noted(handle.nodes, search.start, -1)
  /\ search.step = "middle" => Narrowed(handle.nodes, search.left, search.right, search.match)

Known ==
  /\ search.step = "seek" /\ Tracking =>
       \A j \in search.start..search.left - 1 : How(j) = -1
  /\ search.step = "fallback" /\ Tracking /\ SearchInOrder =>
       ~(How(search.start) <= 0 /\ How(search.end) >= 0)

SearchInv ==
  /\ TypeOK /\ SlotsHold /\ NotesHold(handle.nodes) /\ Begun /\ InRange /\ Bracket /\ Kept /\ Known
  /\ AnswerIsItem /\ SearchFinds
-----------------------------------------------------------------------------
(* Times and comparisons.                                                      *)
Items == [length : Int, pts : Int, stamp : Stamps \cup {NoStamp}]
Notes == [Slots -> [idx : Nat, item : ItemNumbers]]
Timed(by, item) == by \in {"stamp", "exact"} => item.stamp # NoStamp

\* An item and what is asked have a time.
LEMMA TimeType ==
    ASSUME NEW by, NEW item \in Items, NEW ask \in Asks, Timed(by, item)
    PROVE  TimeOf(by, item) \in Int /\ Wanted(by, ask) \in Int
<1>1. ask \in [stamp : Stamps, pts : Int]
  BY SearchAssumption
<1>2. ASSUME NEW t \in Stamps PROVE StampTime(t) \in Int
  <2>1. CASE StampValid(t)
    <3>1. Rates[t.fps] \in Nat /\ t.index \in Nat
      BY <2>1, SearchAssumption DEF StampValid, Stamps
    <3>2. t.index * Rates[t.fps] \in Int
      BY <3>1
    <3> QED BY <2>1, <3>2 DEF StampTime
  <2>2. CASE ~StampValid(t)
    BY <2>2 DEF StampTime, InvalidTime
  <2> QED BY <2>1, <2>2
<1>3. CASE by \in {"stamp", "exact"}
  BY <1>1, <1>2, <1>3 DEF Timed, Items, TimeOf, Wanted
<1>4. CASE by \notin {"stamp", "exact"}
  BY <1>1, <1>4 DEF Items, TimeOf, Wanted
<1> QED BY <1>3, <1>4

\* A comparison is the sign of the difference of two times.
LEMMA CompareSign ==
    ASSUME NEW by, NEW item \in Items, NEW ask \in Asks, Timed(by, item)
    PROVE  /\ CompareItem(by, item, ask) \in -1..1
           /\ CompareItem(by, item, ask) = 1 <=> TimeOf(by, item) > Wanted(by, ask)
           /\ CompareItem(by, item, ask) = 0 <=> TimeOf(by, item) = Wanted(by, ask)
           /\ CompareItem(by, item, ask) = -1 <=> TimeOf(by, item) < Wanted(by, ask)
BY TimeType DEF CompareItem, Sign

\* Of two items the one with the later time compares no less.
LEMMA CompareGrows ==
    ASSUME NEW by, NEW a \in Items, NEW b \in Items, NEW ask \in Asks,
           Timed(by, a), Timed(by, b), TimeOf(by, a) < TimeOf(by, b)
    PROVE  /\ CompareItem(by, b, ask) <= 0 => CompareItem(by, a, ask) = -1
           /\ CompareItem(by, a, ask) >= 0 => CompareItem(by, b, ask) = 1
BY TimeType, CompareSign

-----------------------------------------------------------------------------
(* Slots and notes.                                                            *)

\* Every index has a slot, and indices that share one are Count or more apart.
LEMMA SlotFacts ==
    ASSUME NEW i \in Nat
    PROVE  /\ SlotOf(i) \in Slots
           /\ \A j \in Nat : i < j /\ SlotOf(i) = SlotOf(j) => j >= i + Count
<1>1. Count \in Nat \ {0}
  BY SearchAssumption
<1>2. SlotOf(i) \in Slots
  BY <1>1, ModRange DEF SlotOf, Slots
<1>3. ASSUME NEW j \in Nat, i < j, SlotOf(i) = SlotOf(j), j < i + Count PROVE FALSE
  <2>1. i < j /\ j - i < Count /\ i \in Int /\ j \in Int
    BY <1>1, <1>3
  <2>2. i % Count # j % Count
    BY <1>1, <2>1, ModClose
  <2> QED BY <1>3, <2>2 DEF SlotOf
<1> QED BY <1>1, <1>2, <1>3

\* The writer's index, with the item it is at.
LEMMA NowFacts ==
    ASSUME TypeOK
    PROVE  /\ Count \in Nat \ {0} /\ items.w \in Nat
           /\ Now \in Nat /\ items.w <= Now /\ Now <= items.w + 1
<1>1. items.w \in Nat /\ items.busy \in BOOLEAN
  BY DEF TypeOK
<1>2. Count \in Nat \ {0}
  BY SearchAssumption
<1> QED BY <1>1, <1>2 DEF Now

\* An item that was sent is one of the feed.
LEMMA DataType ==
    ASSUME TypeOK, NEW i \in 0..items.w - 1
    PROVE  Data(i) \in Items
<1>1. items.feed \in Seq(Items)
  BY SearchAssumption DEF TypeOK, Items
<1>2. i + 1 \in 1..Len(items.feed)
  BY <1>1 DEF TypeOK
<1>3. items.feed[i + 1] \in Items
  BY <1>1, <1>2
<1> QED BY <1>3 DEF Data, NoItem

\* A successful note has an item, and its comparison a value.
LEMMA NoteType ==
    ASSUME TypeOK, NEW nodes \in Notes, NotesHold(nodes), NEW i \in Nat, NEW by,
           HasTime(by, NodeOf(nodes, i), i)
    PROVE  /\ NodeOf(nodes, i).item \in 0..items.w - 1
           /\ NodeOf(nodes, i).idx = i
           /\ Data(NodeOf(nodes, i).item) \in Items
           /\ Timed(by, Data(NodeOf(nodes, i).item))
<1> DEFINE node == nodes[SlotOf(i)]
<1>1. SlotOf(i) \in Slots /\ node \in [idx : Nat, item : ItemNumbers]
  BY SlotFacts DEF Notes
<1>2. node.item # NoItem
  BY DEF HasTime, IsReadingSuccess, Data, Refused, NodeOf
<1>3. node.item < items.w
  BY <1>1, <1>2 DEF NotesHold
<1>4. node.item \in 0..items.w - 1
  BY <1>1, <1>2, <1>3 DEF ItemNumbers, TypeOK
<1> QED BY <1>4, DataType DEF HasTime, IsReadingSuccess, NodeOf, Timed

\* What the slot of an index that was sent holds is no earlier item.
LEMMA SlotLate ==
    ASSUME TypeOK, SlotsHold, NEW i \in 0..items.w - 1, items.slots[SlotOf(i)] # NoItem
    PROVE  items.slots[SlotOf(i)] \in i..items.w - 1
<1> DEFINE j == items.slots[SlotOf(i)]
<1>1. SlotOf(i) \in Slots
  BY SlotFacts
<1>2. j \in Nat
  BY <1>1 DEF TypeOK, ItemNumbers
<1>3. j < items.w /\ j >= Now - Count /\ SlotOf(j) = SlotOf(i)
  BY <1>1 DEF SlotsHold
<1>4. Now \in Nat /\ items.w <= Now /\ items.w \in Nat /\ Count \in Nat
  BY NowFacts
<1> HIDE DEF j
<1>5. ASSUME j < i PROVE FALSE
  <2>1. i >= j + Count
    BY <1>2, <1>3, <1>5, SlotFacts
  <2> QED BY <1>2, <1>3, <1>4, <2>1
<1>6. j \in i..items.w - 1
  BY <1>2, <1>3, <1>4, <1>5
<1> QED BY <1>6 DEF j

\* Reading an index out touches the note of its slot only, which is then of
\* that index, and of the item there if it is not lapped.
LEMMA ReadOutFacts ==
    ASSUME TypeOK, SlotsHold, NEW nodes \in Notes, NotesHold(nodes),
           NEW i \in 0..items.w - 1
    PROVE  /\ ReadOut(nodes, i) \in Notes
           /\ NotesHold(ReadOut(nodes, i))
           /\ NodeOf(ReadOut(nodes, i), i).idx = i
           /\ NodeOf(ReadOut(nodes, i), i).item # NoItem
                => NodeOf(ReadOut(nodes, i), i).item >= i
           /\ i >= Now - Count => NodeOf(ReadOut(nodes, i), i).item = i
           /\ \A k \in Slots : k # SlotOf(i) => ReadOut(nodes, i)[k] = nodes[k]
<1>1. SlotOf(i) \in Slots /\ nodes[SlotOf(i)] \in [idx : Nat, item : ItemNumbers]
  BY SlotFacts DEF Notes
<1>2. items.w \in Nat /\ Now \in Nat /\ items.w <= Now /\ Count \in Nat \ {0}
  BY NowFacts
<1>3. CASE IsReadingSuccess(NodeOf(nodes, i), i)
  <2> DEFINE node == nodes[SlotOf(i)]
  <2>1. ReadOut(nodes, i) = nodes
    BY <1>3 DEF ReadOut
  <2>2. node.idx = i /\ node.item # NoItem
    BY <1>3 DEF IsReadingSuccess, Data, Refused, NodeOf
  <2>3. SlotOf(node.item) = SlotOf(i) /\ i <= node.item /\ node.item < items.w
    BY <1>1, <2>2 DEF NotesHold
  <2>4. node.item \in Nat
    BY <1>1, <2>2 DEF ItemNumbers
  <2> HIDE DEF node
  <2>5. ASSUME i >= Now - Count, node.item # i PROVE FALSE
    <3>1. i < node.item
      BY <2>3, <2>4, <2>5
    <3>2. node.item >= i + Count
      BY <2>3, <2>4, <3>1, SlotFacts
    <3> QED BY <1>2, <2>3, <2>4, <2>5, <3>2
  <2>6. NodeOf(ReadOut(nodes, i), i) = node
    BY <2>1 DEF NodeOf, node
  <2> QED BY <2>1, <2>2, <2>3, <2>5, <2>6
<1>4. CASE ~IsReadingSuccess(NodeOf(nodes, i), i)
  <2> DEFINE node == [idx |-> i, item |-> items.slots[SlotOf(i)]]
             read == ReadOut(nodes, i)
  <2>1. read = [nodes EXCEPT ![SlotOf(i)] = node]
    BY <1>4 DEF ReadOut
  <2>2. items.slots[SlotOf(i)] \in ItemNumbers
    BY <1>1 DEF TypeOK
  <2>3. node \in [idx : Nat, item : ItemNumbers]
    BY <2>2
  <2>4. read \in Notes /\ read[SlotOf(i)] = node
    BY <1>1, <2>1, <2>3 DEF Notes
  <2>5. \A k \in Slots : k # SlotOf(i) => read[k] = nodes[k]
    BY <2>1 DEF Notes
  <2>6. node.item # NoItem => node.item \in i..items.w - 1 /\ SlotOf(node.item) = SlotOf(i)
    BY <1>1, SlotLate DEF SlotsHold
  <2>7. i >= Now - Count => node.item = i
    BY DEF SlotsHold
  <2>8. NotesHold(read)
    <3> SUFFICES ASSUME NEW k \in Slots, read[k].item # NoItem
                 PROVE  /\ SlotOf(read[k].idx) = k /\ SlotOf(read[k].item) = k
                        /\ read[k].idx <= read[k].item /\ read[k].item < items.w
      BY DEF NotesHold
    <3>1. CASE k = SlotOf(i)
      BY <1>2, <2>4, <2>6, <3>1
    <3>2. CASE k # SlotOf(i)
      BY <2>5, <3>2 DEF NotesHold
    <3> QED BY <3>1, <3>2
  <2>9. NodeOf(read, i) = node
    BY <2>4 DEF NodeOf
  <2>10. node.item # NoItem => node.item >= i
    BY <1>2, <2>6
  <2>11. node.idx = i
    OBVIOUS
  <2> QED BY <2>4, <2>5, <2>7, <2>8, <2>9, <2>10, <2>11
<1> QED BY <1>3, <1>4

-----------------------------------------------------------------------------
(* Answers.                                                                    *)

\* An answer stands while no other takes its place.
LEMMA AnswerStays ==
    ASSUME answer' = answer, items'.feed = items.feed, AnswerIsItem, SearchFinds
    PROVE  AnswerIsItem' /\ SearchFinds'
<1>1. \A k : Data(k)' = Data(k)
  BY DEF Data
<1>2. Searched' = Searched /\ (Lapped' <=> Lapped)
  BY DEF Searched, Lapped
<1>3. AnswerIsItem'
  BY <1>1, <1>2 DEF AnswerIsItem
<1>4. \A by : InOrder(by)' <=> InOrder(by)
  BY <1>1, <1>2 DEF InOrder
<1>5. \A by, i : FirstThatReaches(by, i)' <=> FirstThatReaches(by, i)
  BY <1>1, <1>2 DEF FirstThatReaches, Reaches
<1>6. \A by : IsBetween(by)' <=> IsBetween(by)
  BY <1>1, <1>2 DEF IsBetween
<1>7. \A by, i : Reaches(by, i)' <=> Reaches(by, i)
  BY <1>1 DEF Reaches
<1>8. {i \in Searched : CompareItem("exact", Data(i), answer.ask) = 0}'
        = {i \in Searched : CompareItem("exact", Data(i), answer.ask) = 0}
  BY <1>1, <1>2
<1>9. SearchFinds'
  BY <1>2, <1>4, <1>5, <1>6, <1>7, <1>8 DEF SearchFinds
<1> QED BY <1>3, <1>9

\* An answer without an item of a search that is not for one says nothing.
LEMMA NoItemAnswers ==
    ASSUME answer'.item = NoItem, answer'.by \in {"none", "wait", "error"}
    PROVE  AnswerIsItem' /\ SearchFinds'
BY DEF AnswerIsItem, SearchFinds

\* An answer with an item of its slot that is not an earlier one: it is the one
\* at the index unless the search was lapped.
LEMMA AnsweredIsItem ==
    ASSUME TypeOK, items' = items, NEW by, NEW i \in Nat, search.start <= i, NEW item \in ItemNumbers,
           item # NoItem => item >= i /\ item < items.w /\ SlotOf(item) = SlotOf(i),
           (by \in {"exact", "seek"} \/ (by \in {"stamp", "pts"} /\ Short)) /\ item # NoItem
             => CompareItem(by, Data(item), search.ask) >= 0,
           Answered(by, i, item)
    PROVE  AnswerIsItem'
<1>1. /\ answer'.by = by /\ answer'.ask = search.ask /\ answer'.start = search.start
      /\ answer'.end = search.end /\ answer'.idx = i /\ answer'.item = item
      /\ answer'.now = Now
  BY DEF Answered, Now
<1>2. Data(item)' = Data(item)
  BY DEF Data
<1> SUFFICES ASSUME item # NoItem PROVE item >= i /\ (item > i => Now - search.start > Count)
  BY <1>1, <1>2 DEF AnswerIsItem, Lapped, Short
<1>3. search.start \in Nat /\ item \in Nat
  BY DEF TypeOK, ItemNumbers
<1>4. ASSUME item > i PROVE Now - search.start > Count
  <2>1. item >= i + Count
    BY <1>3, <1>4, SlotFacts
  <2> QED BY <1>3, <2>1, NowFacts
<1> QED BY <1>4

\* A match that is answered: if its note is of its index or later, the item is
\* the one at the index unless the search was lapped, and if the time of the
\* note is right, so is the answer's.
LEMMA MatchIsItem ==
    ASSUME TypeOK, items' = items, NEW nodes \in Notes, NotesHold(nodes),
           NEW by \in {"stamp", "pts", "exact"}, by = search.by,
           NEW i \in search.start..search.end, search.end < items.w,
           NEW item, item = NodeOf(nodes, i).item, item # NoItem => item >= i,
           (by = "exact" \/ Short) /\ item # NoItem
             => CompareItem(by, Data(item), search.ask) >= 0,
           Answered(by, i, item)
    PROVE  AnswerIsItem'
<1>1. i \in Nat /\ search.start <= i
  BY DEF TypeOK
<1>2. SlotOf(i) \in Slots /\ nodes[SlotOf(i)] \in [idx : Nat, item : ItemNumbers]
  BY <1>1, SlotFacts DEF Notes
<1>3. /\ item \in ItemNumbers
      /\ item # NoItem => item >= i /\ item < items.w /\ SlotOf(item) = SlotOf(i)
  BY <1>2 DEF NodeOf, NotesHold
<1> QED BY <1>1, <1>3, AnsweredIsItem

\* A match that is answered: if it is right while the search is not lapped, the
\* answer is the right one.
LEMMA MatchIsFound ==
    ASSUME TypeOK, items' = items, search.ask \in Asks,
           NEW by \in {"stamp", "pts", "exact"}, by = search.by,
           NEW i \in search.start..search.end, search.end < items.w, NEW item,
           Tracking /\ SearchInOrder =>
             IF by = "exact" THEN How(i) = 0
             ELSE How(i) >= 0 /\ \A j \in search.start..search.end : j < i => How(j) < 0,
           Answered(by, i, item)
    PROVE  SearchFinds'
<1>1. /\ answer'.by = by /\ answer'.ask = search.ask /\ answer'.start = search.start
      /\ answer'.end = search.end /\ answer'.idx = i /\ answer'.now = Now
  BY DEF Answered, Now
<1>2. \A k : Data(k)' = Data(k)
  BY DEF Data
<1>3. Searched' = search.start..search.end
  BY <1>1 DEF Searched
<1>4. ~Lapped' => Tracking
  <2>1. search.start \in Nat
    BY DEF TypeOK
  <2> QED BY <1>1, <2>1, NowFacts DEF Lapped, Tracking
<1>5. InOrder(answer.by)' => SearchInOrder
  BY <1>1, <1>2, <1>3 DEF InOrder, SearchInOrder
<1>6. CASE by = "exact"
  <2>1. InOrder("exact")' => SearchInOrder
    BY <1>2, <1>3, <1>6 DEF InOrder, SearchInOrder
  <2> SUFFICES ASSUME ~Lapped', InOrder("exact")'
               PROVE  {k \in Searched : CompareItem("exact", Data(k), answer.ask) = 0}' = {i}
    <3>1. i # -1
      BY DEF TypeOK
    <3> QED BY <1>1, <1>6, <3>1 DEF SearchFinds
  <2>2. Tracking /\ SearchInOrder /\ How(i) = 0
    BY <1>4, <1>6, <2>1
  <2>3. ASSUME NEW k \in search.start..search.end, k # i PROVE How(k) # 0
    <3>1. Data(i) \in Items /\ Data(k) \in Items
      <4>1. i \in 0..items.w - 1 /\ k \in 0..items.w - 1
        BY DEF TypeOK
      <4> QED BY <4>1, DataType
    <3>2. Timed("exact", Data(i)) /\ Timed("exact", Data(k))
      BY <1>6, <2>2 DEF SearchInOrder, Timed
    <3>3. CASE k < i
      <4>1. TimeOf("exact", Data(k)) < TimeOf("exact", Data(i))
        BY <1>6, <2>2, <3>3 DEF SearchInOrder
      <4> QED BY <1>6, <2>2, <3>1, <3>2, <4>1, CompareGrows DEF How
    <3>4. CASE i < k
      <4>1. TimeOf("exact", Data(i)) < TimeOf("exact", Data(k))
        BY <1>6, <2>2, <3>4 DEF SearchInOrder
      <4> QED BY <1>6, <2>2, <3>1, <3>2, <4>1, CompareGrows DEF How
    <3>5. i \in Int /\ k \in Int
      BY DEF TypeOK
    <3> QED BY <2>3, <3>3, <3>4, <3>5
  <2> QED BY <1>1, <1>2, <1>3, <1>6, <2>2, <2>3 DEF How
<1>7. CASE by # "exact"
  <2> SUFFICES ASSUME ~Lapped', InOrder(answer.by)'
               PROVE  FirstThatReaches(answer.by, answer.idx)'
    BY <1>1, <1>7 DEF SearchFinds
  <2>1. How(i) >= 0 /\ \A j \in search.start..search.end : j < i => How(j) < 0
    BY <1>4, <1>5, <1>7
  <2>2. SearchInOrder
    BY <1>5
  <2>3. \A j \in search.start..search.end : How(j) \in -1..1
    <3> SUFFICES ASSUME NEW j \in search.start..search.end PROVE How(j) \in -1..1
      OBVIOUS
    <3>1. j \in 0..items.w - 1
      BY DEF TypeOK
    <3>2. Timed(by, Data(j))
      BY <2>2 DEF SearchInOrder, Timed
    <3> QED BY <3>1, <3>2, DataType, CompareSign DEF How
  <2>4. \A j : Reaches(answer.by, j)' <=> How(j) >= 0
    BY <1>1, <1>2 DEF Reaches, How
  <2> QED BY <1>1, <1>3, <2>1, <2>3, <2>4 DEF FirstThatReaches
<1> QED BY <1>6, <1>7

-----------------------------------------------------------------------------
(* How a step of a search ends.                                                *)
SearchState == Begun /\ InRange /\ Bracket /\ Kept /\ Known

\* Nothing is asked of a search that is over.
LEMMA OverHolds ==
    ASSUME search' = Idle
    PROVE  SearchState'
BY DEF SearchState, Idle, Begun, InRange, Bracket, Kept, Known

\* The items and the notes are as they were, or as given.
LEMMA ItemsStay ==
    ASSUME SlotsHold, items' = items, NEW nodes \in Notes, NotesHold(nodes),
           handle'.nodes = nodes
    PROVE  SlotsHold' /\ NotesHold(handle.nodes)'
<1>1. SlotsHold'
  BY DEF SlotsHold, Now, SlotOf, Slots
<1>2. NotesHold(handle.nodes)'
  BY DEF NotesHold, SlotOf, Slots
<1> QED BY <1>1, <1>2

\* A search that is answered.
LEMMA AnsweredType ==
    ASSUME TypeOK, items' = items, calls' = calls, search.ask \in Asks,
           NEW by \in {"wait", "stamp", "pts", "first", "error", "exact", "seek"},
           NEW i \in Int, NEW item \in ItemNumbers, Answered(by, i, item),
           handle' \in [r : Nat, nodes : Notes], handle'.r <= items.w
    PROVE  TypeOK'
<1>1. answer' = [by |-> by, ask |-> search.ask, start |-> search.start, end |-> search.end,
                 idx |-> i, item |-> item, now |-> Now]
  BY DEF Answered, Now
<1>2. answer' \in [by : {"none", "wait", "stamp", "pts", "first", "error", "exact", "seek"},
                   ask : Asks \cup {<<>>}, start : Nat, end : Int, idx : Int,
                   item : ItemNumbers, now : Nat]
  BY <1>1, NowFacts DEF TypeOK
<1>3. search' \in [step : {"idle", "poll", "snapshot", "first", "last", "middle", "fallback",
                           "seek"},
                   by : {"none", "stamp", "pts", "exact", "seek"}, ask : Asks \cup {<<>>},
                   start : Nat, end : Int, first : Results, last : Results, left : Nat,
                   right : Int, match : Results]
  <2>1. NoResult \in Results /\ Idle.ask \in Asks \cup {<<>>}
    BY DEF Results, NoResult, Idle
  <2> QED BY <2>1 DEF Answered, Idle
<1>4. /\ items' \in [feed : Feeds, w : Nat, busy : BOOLEAN, slots : [Slots -> ItemNumbers]]
      /\ items'.w <= Len(items'.feed) /\ (items'.busy => items'.w < Len(items'.feed))
      /\ calls' \in 0..Calls
  BY DEF TypeOK
<1> QED BY <1>2, <1>3, <1>4 DEF TypeOK, Notes

\* A match ends the search.
LEMMA FoundStep ==
    ASSUME SearchInv, items' = items, calls' = calls, NEW nodes \in Notes, NotesHold(nodes),
           NEW by \in {"stamp", "pts", "exact"}, by = search.by, search.ask \in Asks,
           NEW result, result.idx \in search.start..search.end, search.end < items.w,
           NEW item, item = NodeOf(nodes, result.idx).item,
           item # NoItem => item >= result.idx,
           (by = "exact" \/ Short) /\ item # NoItem
             => CompareItem(by, Data(item), search.ask) >= 0,
           Tracking /\ SearchInOrder =>
             IF by = "exact" THEN How(result.idx) = 0
             ELSE /\ How(result.idx) >= 0
                  /\ \A j \in search.start..search.end : j < result.idx => How(j) < 0,
           Found(nodes, result)
    PROVE  SearchInv'
<1> DEFINE i == result.idx
<1>1. TypeOK /\ SlotsHold
  BY DEF SearchInv
<1>2. i \in Nat /\ search.start <= i /\ i <= search.end /\ i < items.w
  BY <1>1 DEF TypeOK
<1>3. item \in ItemNumbers
  BY <1>2, SlotFacts DEF NodeOf, Notes
<1>4. Answered(by, i, item)
  BY DEF Found
<1>5. handle' = [r |-> IF by = "exact" THEN handle.r ELSE i + 1, nodes |-> nodes]
  BY DEF Found
<1>6. handle' \in [r : Nat, nodes : Notes] /\ handle'.r <= items.w /\ handle'.nodes = nodes
  BY <1>1, <1>2, <1>5 DEF TypeOK
<1> HIDE DEF i
<1>7. TypeOK'
  BY <1>1, <1>2, <1>3, <1>4, <1>6, AnsweredType
<1>8. SlotsHold' /\ NotesHold(handle.nodes)'
  BY <1>1, <1>6, ItemsStay
<1>9. SearchState'
  BY <1>4, OverHolds DEF Answered
<1>10. AnswerIsItem'
  BY <1>1, <1>4, MatchIsItem DEF i
<1>11. SearchFinds'
  BY <1>1, <1>4, MatchIsFound DEF i
<1> QED BY <1>7, <1>8, <1>9, <1>10, <1>11 DEF SearchInv, SearchState

Searches == [step : {"idle", "poll", "snapshot", "first", "last", "middle", "fallback", "seek"},
             by : {"none", "stamp", "pts", "exact", "seek"}, ask : Asks \cup {<<>>},
             start : Nat, end : Int, first : Results, last : Results, left : Nat,
             right : Int, match : Results]

\* A search that goes on.
LEMMA OngoingType ==
    ASSUME TypeOK, items' = items, answer' = answer, calls' \in 0..Calls,
           search' \in Searches, handle' \in [r : Nat, nodes : Notes], handle'.r <= items.w
    PROVE  TypeOK'
BY DEF TypeOK, Notes, Searches

\* A search that goes on leaves what was answered before.
LEMMA OngoingHolds ==
    ASSUME SearchInv, items' = items, answer' = answer, calls' \in 0..Calls,
           search' \in Searches, NEW nodes \in Notes, NotesHold(nodes),
           NEW r \in 0..items.w, handle' = [r |-> r, nodes |-> nodes], SearchState'
    PROVE  SearchInv'
<1>1. TypeOK /\ SlotsHold /\ AnswerIsItem /\ SearchFinds
  BY DEF SearchInv
<1>2. handle' \in [r : Nat, nodes : Notes] /\ handle'.nodes = nodes /\ handle'.r <= items.w
  BY <1>1 DEF TypeOK
<1>3. TypeOK'
  BY <1>1, <1>2, OngoingType
<1>4. SlotsHold' /\ NotesHold(handle.nodes)'
  BY <1>1, <1>2, ItemsStay
<1>5. AnswerIsItem' /\ SearchFinds'
  BY <1>1, AnswerStays
<1> QED BY <1>3, <1>4, <1>5 DEF SearchInv, SearchState

\* A search without a match: a read goes on with the pts and then with the first
\* item, which it may only do if the time is not between the first and the last.
LEMMA GiveUpStep ==
    ASSUME SearchInv, items' = items, calls' = calls, NEW nodes \in Notes, NotesHold(nodes),
           search.step \in {"snapshot", "first", "last", "middle"},
           search.by \in {"stamp", "pts", "exact"}, search.ask \in Asks,
           search.by \in {"stamp", "pts"} => handle.r < items.w,
           search.by = "pts" =>
             /\ handle.r = search.start /\ search.start <= search.end /\ search.end < items.w
             /\ Tracking /\ SearchInOrder => ~(How(search.start) <= 0 /\ How(search.end) >= 0),
           search.by = "exact" /\ Tracking /\ SearchInOrder
             => \A i \in search.start..search.end : How(i) # 0,
           GiveUp(nodes)
    PROVE  SearchInv'
<1>1. TypeOK /\ SlotsHold
  BY DEF SearchInv
<1>2. handle' = [r |-> handle.r, nodes |-> nodes] /\ handle.r \in 0..items.w
  BY <1>1 DEF GiveUp, TypeOK
<1>3. handle' \in [r : Nat, nodes : Notes] /\ handle'.r <= items.w /\ handle'.nodes = nodes
  BY <1>1, <1>2 DEF TypeOK
<1>4. calls' \in 0..Calls /\ search \in Searches
  BY <1>1 DEF TypeOK, Searches
<1>5. CASE search.by = "stamp"
  <2>1. answer' = answer /\ search' = [Idle EXCEPT !.step = "snapshot", !.by = "pts",
                                                   !.ask = search.ask]
    BY <1>5 DEF GiveUp
  <2>2. search' \in Searches
    <3>1. search' = [step |-> "snapshot", by |-> "pts", ask |-> search.ask, start |-> 0,
                     end |-> -1, first |-> NoResult, last |-> NoResult, left |-> 0,
                     right |-> 0, match |-> NoResult]
      BY <2>1 DEF Idle
    <3>2. NoResult \in Results
      BY DEF NoResult, Results
    <3> QED BY <3>1, <3>2 DEF Searches
  <2>3. SearchState'
    BY <1>2, <1>5, <2>1
    DEF SearchState, Idle, NoResult, Begun, InRange, Bracket, Kept, Known
  <2> QED BY <1>2, <1>4, <2>1, <2>2, <2>3, OngoingHolds
<1>6. CASE search.by = "pts"
  <2>1. answer' = answer /\ search' = [search EXCEPT !.step = "fallback"]
    BY <1>6 DEF GiveUp
  <2>2. search' \in Searches
    BY <1>4, <2>1 DEF Searches
  <2>3. /\ search'.step = "fallback" /\ search'.by = search.by /\ search'.ask = search.ask
        /\ search'.start = search.start /\ search'.end = search.end
    BY <1>4, <2>1 DEF Searches
  <2>4. Begun' /\ InRange' /\ Bracket' /\ Kept'
    BY <1>2, <1>6, <2>3 DEF Begun, InRange, Bracket, Kept
  <2>5. \A k : Data(k)' = Data(k)
    BY DEF Data
  <2>6. Tracking' => Tracking
    BY <2>3 DEF Tracking, Now
  <2>7. SearchInOrder' => SearchInOrder
    BY <2>3, <2>5 DEF SearchInOrder
  <2>8. How(search.start)' = How(search.start) /\ How(search.end)' = How(search.end)
    BY <2>3, <2>5 DEF How
  <2>9. Known'
    BY <1>6, <2>3, <2>6, <2>7, <2>8 DEF Known
  <2>10. SearchState'
    BY <2>4, <2>9 DEF SearchState
  <2> QED BY <1>2, <1>4, <2>1, <2>2, <2>10, OngoingHolds
<1>7. CASE search.by = "exact"
  <2>1. Answered("exact", -1, NoItem)
    BY <1>7 DEF GiveUp
  <2>2. TypeOK'
    BY <1>1, <1>3, <2>1, AnsweredType DEF ItemNumbers, NoItem
  <2>3. SlotsHold' /\ NotesHold(handle.nodes)'
    BY <1>1, <1>3, ItemsStay
  <2>4. SearchState'
    BY <2>1, OverHolds DEF Answered
  <2>5. /\ answer'.by = "exact" /\ answer'.ask = search.ask /\ answer'.start = search.start
        /\ answer'.end = search.end /\ answer'.idx = -1 /\ answer'.now = Now
        /\ answer'.item = NoItem
    BY <2>1 DEF Answered, Now
  <2>6. AnswerIsItem'
    BY <2>5 DEF AnswerIsItem
  <2>7. \A k : Data(k)' = Data(k)
    BY DEF Data
  <2>8. Searched' = search.start..search.end
    BY <2>5 DEF Searched
  <2>9. ~Lapped' => Tracking
    <3>1. search.start \in Nat
      BY <1>1 DEF TypeOK
    <3> QED BY <1>1, <2>5, <3>1, NowFacts DEF Lapped, Tracking
  <2>10. InOrder("exact")' => SearchInOrder
    BY <1>7, <2>5, <2>7, <2>8 DEF InOrder, SearchInOrder
  <2>11. SearchFinds'
    <3> SUFFICES ASSUME ~Lapped', InOrder("exact")'
                 PROVE  {i \in Searched : CompareItem("exact", Data(i), answer.ask) = 0}' = {}
      BY <2>5 DEF SearchFinds
    <3>1. \A i \in search.start..search.end : How(i) # 0
      BY <1>7, <2>9, <2>10
    <3> QED BY <1>7, <2>5, <2>7, <2>8, <3>1 DEF How
  <2> QED BY <2>2, <2>3, <2>4, <2>6, <2>11 DEF SearchInv, SearchState
<1> QED BY <1>5, <1>6, <1>7

-----------------------------------------------------------------------------
(* What a step of a search reads.                                              *)

\* A note keeps being late enough, and a good one is kept.
LEMMA ReadOutKeeps ==
    ASSUME TypeOK, SlotsHold, NEW nodes \in Notes, NEW i \in 0..items.w - 1,
           NEW j \in 0..items.w - 1
    PROVE  /\ Late(nodes, j) => Late(ReadOut(nodes, i), j)
           /\ IsReadingSuccess(NodeOf(nodes, j), j) /\ (i = j \/ SlotOf(i) # SlotOf(j))
                => NodeOf(ReadOut(nodes, i), j) = NodeOf(nodes, j)
<1>1. i \in Nat /\ j \in Nat /\ SlotOf(i) \in Slots /\ SlotOf(j) \in Slots
  BY SlotFacts, NowFacts
<1>2. CASE IsReadingSuccess(NodeOf(nodes, i), i)
  BY <1>2 DEF ReadOut
<1>3. CASE ~IsReadingSuccess(NodeOf(nodes, i), i)
  <2> DEFINE node == [idx |-> i, item |-> items.slots[SlotOf(i)]]
             read == ReadOut(nodes, i)
  <2>1. read = [nodes EXCEPT ![SlotOf(i)] = node]
    BY <1>3 DEF ReadOut
  <2>2. read[SlotOf(i)] = node /\ \A k \in Slots : k # SlotOf(i) => read[k] = nodes[k]
    BY <1>1, <2>1 DEF Notes
  <2>3. CASE SlotOf(i) = SlotOf(j)
    <3>1. node.item # NoItem => node.item >= j
      BY <1>1, <2>3, SlotLate, NowFacts
    <3> QED BY <1>3, <2>2, <2>3, <3>1 DEF Late, NodeOf
  <2>4. CASE SlotOf(i) # SlotOf(j)
    BY <1>1, <2>2, <2>4 DEF Late, NodeOf
  <2> QED BY <2>3, <2>4
<1> QED BY <1>2, <1>3

\* A good note of an index that is not lapped is of the item there.
LEMMA NoteTrue ==
    ASSUME TypeOK, NEW nodes \in Notes, NotesHold(nodes), NEW i \in Nat, NEW by,
           HasTime(by, NodeOf(nodes, i), i), i >= Now - Count
    PROVE  NodeOf(nodes, i).item = i
<1> DEFINE j == nodes[SlotOf(i)].item
<1>1. SlotOf(i) \in Slots
  BY SlotFacts
<1>2. j \in 0..items.w - 1 /\ nodes[SlotOf(i)].idx = i
  BY NoteType DEF NodeOf
<1>3. j # NoItem /\ j \in Nat /\ j < items.w
  BY <1>2, NowFacts DEF NoItem
<1>4. i <= j /\ SlotOf(j) = SlotOf(i)
  BY <1>1, <1>2, <1>3 DEF NotesHold
<1> HIDE DEF j
<1>5. ASSUME i # j PROVE FALSE
  <2>1. i < j
    BY <1>3, <1>4, <1>5
  <2>2. j >= i + Count
    BY <1>3, <1>4, <2>1, SlotFacts
  <2> QED BY <1>3, <2>2, NowFacts
<1> QED BY <1>5 DEF NodeOf, j

\* What a step of a search may rely on when it has met the item i.
ReadRight(nodes, result, i) ==
  /\ nodes \in Notes /\ NotesHold(nodes) /\ result \in Results /\ result.idx = i
  /\ Tracking /\ SearchInOrder => HasTime(search.by, NodeOf(nodes, i), i)
  /\ HasTime(search.by, NodeOf(nodes, i), i) =>
       /\ Late(nodes, i)
       /\ Tracking => result.cmp = How(i)
       /\ result.cmp = 0 => Noted(nodes, i, 0)
       /\ Short => Noted(nodes, i, result.cmp)

Ranged == /\ search.start \in Nat /\ search.end \in Int
          /\ search.start <= search.end /\ search.end < items.w
          /\ search.by \in {"stamp", "pts", "exact"} /\ search.ask \in Asks

LEMMA ReadIsRight ==
    ASSUME TypeOK, SlotsHold, NotesHold(handle.nodes), Ranged,
           NEW i \in search.start..search.end,
           NEW nodes, nodes = ReadOut(handle.nodes, i)
    PROVE  /\ ReadRight(nodes, Result(nodes, i), i)
           /\ HasTime(search.by, NodeOf(nodes, i), i) => Noted(nodes, i, Result(nodes, i).cmp)
           /\ \A j \in search.start..search.end :
                /\ Late(handle.nodes, j) => Late(nodes, j)
                /\ \A cmp : Short /\ Noted(handle.nodes, j, cmp) => Noted(nodes, j, cmp)
<1> DEFINE node == NodeOf(nodes, i)
           result == Result(nodes, i)
           timed == HasTime(search.by, node, i)
<1>1. i \in 0..items.w - 1 /\ i \in Nat
  BY NowFacts DEF Ranged
<1>2. handle.nodes \in Notes
  BY DEF TypeOK, Notes
<1>3. /\ nodes \in Notes /\ NotesHold(nodes) /\ node.idx = i
      /\ node.item # NoItem => node.item >= i
      /\ i >= Now - Count => node.item = i
  BY <1>1, <1>2, ReadOutFacts
<1>4. Tracking => node.item = i
  BY <1>1, <1>3, NowFacts DEF Tracking, Ranged
<1>5. /\ result.idx = i
      /\ result.cmp = IF timed THEN CompareItem(search.by, Data(node.item), search.ask) ELSE 0
  BY DEF Result
<1>6. timed => CompareItem(search.by, Data(node.item), search.ask) \in -1..1
  <2> SUFFICES ASSUME timed
               PROVE  CompareItem(search.by, Data(node.item), search.ask) \in -1..1
    OBVIOUS
  <2>1. Data(node.item) \in Items /\ Timed(search.by, Data(node.item))
    BY <1>1, <1>3, NoteType
  <2> QED BY <2>1, CompareSign DEF Ranged
<1>7. result \in Results
  BY <1>1, <1>5, <1>6 DEF Result, Results
<1>8. Tracking /\ SearchInOrder => timed
  BY <1>1, <1>3, <1>4 DEF SearchInOrder, HasTime, IsReadingSuccess
<1>9. Late(nodes, i)
  BY <1>3 DEF Late
<1>10. Tracking /\ timed => result.cmp = How(i)
  BY <1>4, <1>5 DEF How
<1>11. timed => Noted(nodes, i, result.cmp)
  BY <1>5 DEF Noted
<1>12. ASSUME NEW j \in search.start..search.end
       PROVE  /\ Late(handle.nodes, j) => Late(nodes, j)
              /\ \A cmp : Short /\ Noted(handle.nodes, j, cmp) => Noted(nodes, j, cmp)
  <2>1. j \in 0..items.w - 1 /\ j \in Nat
    BY NowFacts DEF Ranged
  <2>2. Late(handle.nodes, j) => Late(nodes, j)
    BY <1>1, <1>2, <2>1, ReadOutKeeps
  <2>3. ASSUME Short, NEW cmp, Noted(handle.nodes, j, cmp) PROVE Noted(nodes, j, cmp)
    <3>1. i = j \/ SlotOf(i) # SlotOf(j)
      <4> SUFFICES ASSUME i # j, SlotOf(i) = SlotOf(j) PROVE FALSE
        OBVIOUS
      <4>1. i < j => j >= i + Count
        BY <1>1, <2>1, SlotFacts
      <4>2. j < i => i >= j + Count
        BY <1>1, <2>1, SlotFacts
      <4> QED BY <1>1, <2>1, <2>3, <4>1, <4>2, NowFacts DEF Short, Ranged
    <3>2. IsReadingSuccess(NodeOf(handle.nodes, j), j)
      BY <2>3 DEF Noted, HasTime
    <3>3. NodeOf(nodes, j) = NodeOf(handle.nodes, j)
      BY <1>1, <1>2, <2>1, <3>1, <3>2, ReadOutKeeps
    <3> QED BY <2>3, <3>3 DEF Noted
  <2> QED BY <2>2, <2>3
<1>13. ReadRight(nodes, result, i)
  BY <1>3, <1>5, <1>7, <1>8, <1>9, <1>10, <1>11 DEF ReadRight
<1> QED BY <1>11, <1>12, <1>13

-----------------------------------------------------------------------------
(* The steps of a binary search.                                               *)

\* Where a search between two indices stands.
LEMMA RangedHolds ==
    ASSUME SearchInv, search.step \in {"first", "last", "middle", "fallback"}
    PROVE  /\ TypeOK /\ SlotsHold /\ NotesHold(handle.nodes) /\ Ranged
           /\ handle.r = search.start
BY DEF SearchInv, TypeOK, Ranged, Begun, InRange

\* A search that is over, or cannot go on, ends rightly.
LEMMA ConcludeStep ==
    ASSUME SearchInv, search.step = "middle", items' = items, calls' = calls,
           NEW nodes \in Notes, NotesHold(nodes), NEW left \in Nat, NEW right \in Int,
           NEW match \in Results, Narrowed(nodes, left, right, match),
           Tracking /\ SearchInOrder => left > right,
           Conclude(nodes, match)
    PROVE  SearchInv'
<1>1. TypeOK /\ SlotsHold /\ Ranged /\ handle.r = search.start
  BY RangedHolds
<1>2. items.w \in Nat
  BY <1>1, NowFacts
<1>3. search.start <= left /\ left <= right + 1 /\ right <= search.end
  BY DEF Narrowed
<1>4. ASSUME NEW k \in search.start..search.end
      PROVE  Data(k) \in Items /\ (SearchInOrder => Timed(search.by, Data(k)))
  <2>1. k \in 0..items.w - 1
    BY <1>1, <1>2 DEF Ranged
  <2> QED BY <1>1, <2>1, DataType DEF SearchInOrder, Timed
<1>5. ASSUME Tracking, SearchInOrder
      PROVE  /\ \A k \in search.start..search.end : k < left => How(k) = -1
             /\ \A k \in search.start..search.end : k > right => How(k) = 1
  <2>1. /\ left = search.start \/ How(left - 1) = -1
        /\ right = search.end \/ How(right + 1) = 1
    BY <1>5 DEF Narrowed
  <2>2. ASSUME NEW k \in search.start..search.end, k < left PROVE How(k) = -1
    <3>1. left - 1 \in search.start..search.end /\ How(left - 1) = -1
      BY <1>1, <1>3, <2>1, <2>2 DEF Ranged
    <3>2. CASE k < left - 1
      <4>1. TimeOf(search.by, Data(k)) < TimeOf(search.by, Data(left - 1))
        BY <1>5, <3>1, <3>2 DEF SearchInOrder
      <4> QED BY <1>1, <1>4, <1>5, <3>1, <4>1, CompareGrows DEF How, Ranged
    <3>3. CASE k = left - 1
      BY <3>1, <3>3
    <3>4. k \in Int /\ k <= left - 1
      BY <1>1, <2>2 DEF Ranged
    <3> QED BY <3>2, <3>3, <3>4
  <2>3. ASSUME NEW k \in search.start..search.end, k > right PROVE How(k) = 1
    <3>1. right + 1 \in search.start..search.end /\ How(right + 1) = 1
      BY <1>1, <1>3, <2>1, <2>3 DEF Ranged
    <3>2. CASE k > right + 1
      <4>1. TimeOf(search.by, Data(right + 1)) < TimeOf(search.by, Data(k))
        BY <1>5, <3>1, <3>2 DEF SearchInOrder
      <4> QED BY <1>1, <1>4, <1>5, <3>1, <4>1, CompareGrows DEF How, Ranged
    <3>3. CASE k = right + 1
      BY <3>1, <3>3
    <3>4. k \in Int /\ k >= right + 1
      BY <1>1, <2>3 DEF Ranged
    <3> QED BY <3>2, <3>3, <3>4
  <2> QED BY <2>2, <2>3
<1>6. CASE match = NoResult
  <2>1. GiveUp(nodes)
    BY <1>6 DEF Conclude
  <2>2. handle.r < items.w
    BY <1>1, <1>2 DEF Ranged
  <2>3. ASSUME search.by = "pts", Tracking, SearchInOrder
        PROVE  ~(How(search.start) <= 0 /\ How(search.end) >= 0)
    <3>1. right = search.end
      <4>1. search.start \in Nat /\ match.idx = -1
        BY <1>1, <1>6 DEF Ranged, NoResult
      <4>2. right = search.end \/ match.idx = right + 1
        BY <2>3 DEF Narrowed
      <4>3. match.idx = right + 1 => FALSE
        BY <1>1, <1>3, <4>1
      <4> QED BY <4>2, <4>3
    <3>2. search.end \in search.start..search.end /\ search.end < left
      BY <1>1, <2>3, <3>1 DEF Ranged
    <3>3. How(search.end) = -1
      BY <1>5, <2>3, <3>2
    <3> QED BY <3>3
  <2>4. ASSUME search.by = "exact", Tracking, SearchInOrder,
               NEW k \in search.start..search.end
        PROVE  How(k) # 0
    <3>1. k < left \/ k > right
      BY <1>1, <2>4 DEF Ranged
    <3>2. How(k) = -1 \/ How(k) = 1
      BY <1>5, <2>4, <3>1
    <3> QED BY <3>2
  <2>5. search.by \in {"stamp", "pts", "exact"} /\ search.ask \in Asks
    BY <1>1 DEF Ranged
  <2>6. search.start <= search.end /\ search.end < items.w
    BY <1>1 DEF Ranged
  <2> QED BY <1>1, <2>1, <2>2, <2>3, <2>4, <2>5, <2>6, GiveUpStep
<1>7. CASE match # NoResult
  <2>1. Found(nodes, match) /\ search.by # "exact"
    BY <1>7 DEF Conclude, Narrowed
  <2>2. /\ match.idx = right + 1 /\ right < search.end
        /\ Late(nodes, match.idx)
        /\ Short => Noted(nodes, match.idx, 1)
    BY <1>7, <2>1 DEF Narrowed
  <2>3. match.idx \in search.start..search.end
    BY <1>1, <1>3, <2>2 DEF Ranged
  <2>4. ASSUME Tracking, SearchInOrder
        PROVE  /\ How(match.idx) >= 0
               /\ \A j \in search.start..search.end : j < match.idx => How(j) < 0
    <3>1. How(match.idx) = 1
      BY <1>5, <2>2, <2>3, <2>4
    <3>2. ASSUME NEW j \in search.start..search.end, j < match.idx PROVE How(j) < 0
      <4>1. j < left
        BY <1>1, <1>3, <2>2, <2>4, <3>2 DEF Ranged
      <4>2. How(j) = -1
        BY <1>5, <2>4, <4>1
      <4> QED BY <4>2
    <3> QED BY <3>1, <3>2
  <2>5. Short => CompareItem(search.by, Data(NodeOf(nodes, match.idx).item), search.ask) >= 0
    BY <2>2 DEF Noted
  <2>6. search.by \in {"stamp", "pts", "exact"} /\ search.ask \in Asks /\ search.end < items.w
    BY <1>1 DEF Ranged
  <2>7. NodeOf(nodes, match.idx).item # NoItem => NodeOf(nodes, match.idx).item >= match.idx
    BY <2>2 DEF Late
  <2> DEFINE item == NodeOf(nodes, match.idx).item
             by == search.by
  <2>8. /\ by \in {"stamp", "pts", "exact"} /\ by = search.by /\ by # "exact"
        /\ item = NodeOf(nodes, match.idx).item
        /\ item # NoItem => item >= match.idx
        /\ (by = "exact" \/ Short) /\ item # NoItem
             => CompareItem(by, Data(item), search.ask) >= 0
    BY <2>1, <2>5, <2>6, <2>7
  <2> HIDE DEF item, by
  <2> QED BY <2>1, <2>3, <2>4, <2>6, <2>8, FoundStep
<1> QED BY <1>6, <1>7

\* What a search knows holds on while its bounds and its items stay.
LEMMA SearchFrame ==
    ASSUME items' = items, search'.by = search.by, search'.ask = search.ask,
           search'.start = search.start, search'.end = search.end
    PROVE  /\ \A nodes, i, cmp : Noted(nodes, i, cmp)' <=> Noted(nodes, i, cmp)
           /\ \A nodes, left, right, match :
                Narrowed(nodes, left, right, match)' <=> Narrowed(nodes, left, right, match)
<1>1. \A k : Data(k)' = Data(k)
  BY DEF Data
<1>2. \A nodes, i : Late(nodes, i)' <=> Late(nodes, i)
  BY DEF Late, NodeOf, SlotOf
<1>3. \A nodes, i, cmp : Noted(nodes, i, cmp)' <=> Noted(nodes, i, cmp)
  BY <1>1 DEF Noted, HasTime, IsReadingSuccess, NodeOf, SlotOf
<1>4. \A k : How(k)' = How(k)
  BY <1>1 DEF How
<1>5. (Tracking' <=> Tracking) /\ (Short' <=> Short)
  BY DEF Tracking, Short, Now
<1>6. \A nodes, left, right, match :
        Narrowed(nodes, left, right, match)' <=> Narrowed(nodes, left, right, match)
  BY <1>2, <1>3, <1>4, <1>5 DEF Narrowed
<1> QED BY <1>3, <1>6

\* A search that goes on between left and right.
LEMMA GoOnStep ==
    ASSUME SearchInv, search.step = "middle", items' = items, calls' = calls,
           NEW nodes \in Notes, NotesHold(nodes), NEW left \in Nat, NEW right \in Int,
           NEW match \in Results, Narrowed(nodes, left, right, match),
           GoOn(nodes, left, right, match)
    PROVE  SearchInv'
<1>1. CASE left > right
  BY <1>1, ConcludeStep DEF GoOn
<1>2. CASE ~(left > right)
  <2>1. /\ search' = [search EXCEPT !.left = left, !.right = right, !.match = match]
        /\ handle' = [handle EXCEPT !.nodes = nodes] /\ answer' = answer
    BY <1>2 DEF GoOn
  <2>2. TypeOK /\ Begun /\ InRange /\ Bracket /\ search \in Searches
    BY DEF SearchInv, TypeOK, Searches
  <2>3. search' \in Searches
    BY <2>1, <2>2 DEF Searches
  <2>4. /\ search'.step = "middle" /\ search'.by = search.by /\ search'.ask = search.ask
        /\ search'.start = search.start /\ search'.end = search.end
        /\ search'.first = search.first /\ search'.last = search.last
        /\ search'.left = left /\ search'.right = right /\ search'.match = match
    BY <2>1, <2>2 DEF Searches
  <2>5. handle' = [r |-> handle.r, nodes |-> nodes] /\ handle.r \in 0..items.w
    BY <2>1, <2>2 DEF TypeOK
  <2>6. Begun' /\ InRange' /\ Known'
    BY <2>2, <2>4, <2>5 DEF Begun, InRange, Known
  <2>7. Bracket'
    BY <1>2, <2>2, <2>4 DEF Bracket, NoResult
  <2>8. Narrowed(nodes, left, right, match)'
    BY <2>4, SearchFrame
  <2>9. Kept'
    BY <2>4, <2>5, <2>8 DEF Kept
  <2>10. SearchState' /\ calls' \in 0..Calls
    BY <2>2, <2>6, <2>7, <2>9 DEF SearchState, TypeOK
  <2> QED BY <2>1, <2>3, <2>5, <2>10, OngoingHolds
<1> QED BY <1>1, <1>2

\* The item in the middle.
LEMMA MiddleStep ==
    ASSUME SearchInv, Middle
    PROVE  SearchInv'
<1> DEFINE mid == search.left + (search.right - search.left) \div 2
           known == IF mid = search.first.idx THEN <<search.first>>
                    ELSE IF mid = search.last.idx THEN <<search.last>> ELSE <<>>
           nodes == IF known = <<>> THEN ReadOut(handle.nodes, mid) ELSE handle.nodes
           result == IF known = <<>> THEN Result(nodes, mid) ELSE known[1]
           timed == HasTime(search.by, NodeOf(nodes, mid), mid)
           left == search.left
           right == search.right
           match == search.match
<1>1. search.step = "middle" /\ items' = items /\ calls' = calls
  BY DEF Middle
<1>2. \/ ~timed /\ Conclude(nodes, match)
      \/ timed /\ result.cmp = 0 /\ Found(nodes, result)
      \/ timed /\ result.cmp < 0 /\ GoOn(nodes, mid + 1, right, match)
      \/ timed /\ result.cmp > 0
           /\ GoOn(nodes, left, mid - 1,
                   IF search.by = "exact" THEN NoResult ELSE Better(match, result))
  BY DEF Middle
<1>3. TypeOK /\ SlotsHold /\ NotesHold(handle.nodes) /\ Ranged /\ Begun /\ Bracket /\ Kept
  BY <1>1, RangedHolds DEF SearchInv
<1>4. /\ left \in Nat /\ right \in Int /\ match \in Results /\ handle.nodes \in Notes
      /\ search.first \in Results /\ search.last \in Results
      /\ search.start \in Nat /\ search.end \in Int /\ items.w \in Nat
      /\ search.by \in {"stamp", "pts", "exact"} /\ search.ask \in Asks
      /\ search.start <= search.end /\ search.end < items.w
  BY <1>3 DEF TypeOK, Notes, Ranged
<1>5. Narrowed(handle.nodes, left, right, match) /\ left <= right
  BY <1>1, <1>3 DEF Kept, Bracket
<1>6. search.start <= left /\ left <= right /\ right <= search.end
  BY <1>5 DEF Narrowed
<1>7. mid \in left..right
  <2> DEFINE gap == right - left
  <2>1. gap \in Nat
    BY <1>4, <1>6
  <2> HIDE DEF gap
  <2>2. gap \div 2 \in 0..gap
    <3>1. gap = 2 * (gap \div 2) + (gap % 2) /\ gap \div 2 \in Nat /\ gap % 2 \in 0..1
      BY <2>1, DivMod, 2 \in Nat \ {0}
    <3> QED BY <2>1, <3>1
  <2> QED BY <1>4, <2>2 DEF gap
<1>8. /\ \/ nodes = ReadOut(handle.nodes, mid) /\ result = Result(nodes, mid)
         \/ /\ mid = search.first.idx /\ nodes = handle.nodes /\ result = search.first
         \/ /\ mid = search.last.idx /\ nodes = handle.nodes /\ result = search.last
  OBVIOUS
<1> HIDE DEF mid
<1>9. mid \in search.start..search.end /\ mid \in Nat /\ mid \in Int
  BY <1>4, <1>6, <1>7
\* Either it is read now, or it is the first or the last and was read before.
<1>10. /\ ReadRight(nodes, result, mid)
       /\ search.by = "exact" /\ HasTime(search.by, NodeOf(nodes, mid), mid)
            => Noted(nodes, mid, result.cmp)
       /\ \A j \in search.start..search.end :
            /\ Late(handle.nodes, j) => Late(nodes, j)
            /\ \A cmp : Short /\ Noted(handle.nodes, j, cmp) => Noted(nodes, j, cmp)
  <2> HIDE DEF nodes, result, known
  <2>1. CASE nodes = ReadOut(handle.nodes, mid) /\ result = Result(nodes, mid)
    BY <1>3, <1>9, <2>1, ReadIsRight
  <2>2. ASSUME NEW cmp \in {-1, 1}, result \in Results, result.idx = mid, result.cmp = cmp,
               nodes = handle.nodes, search.by # "exact",
               Short => Noted(handle.nodes, mid, cmp)
        PROVE  ReadRight(nodes, result, mid)
    <3>1. mid >= search.start /\ (Tracking => mid >= Now - Count)
      BY <1>3, <1>4, <1>9, NowFacts DEF Tracking
    <3>2. Tracking => Short
      BY <1>3, <1>4, NowFacts DEF Tracking, Short
    <3>3. Tracking => HasTime(search.by, NodeOf(nodes, mid), mid)
      BY <2>2, <3>2 DEF Noted
    <3>4. Tracking => result.cmp = How(mid)
      <4> SUFFICES ASSUME Tracking PROVE How(mid) = cmp
        BY <2>2
      <4>1. NodeOf(nodes, mid).item = mid
        BY <1>3, <1>4, <1>9, <2>2, <3>1, <3>3, NoteTrue
      <4> QED BY <2>2, <3>2, <4>1 DEF Noted, How
    <3>5. HasTime(search.by, NodeOf(nodes, mid), mid) => Late(nodes, mid)
      <4> SUFFICES ASSUME HasTime(search.by, NodeOf(nodes, mid), mid)
                   PROVE  Late(nodes, mid)
        OBVIOUS
      <4>1. NodeOf(nodes, mid).idx = mid /\ SlotOf(mid) \in Slots
        BY <1>9, SlotFacts DEF HasTime, IsReadingSuccess
      <4> QED BY <1>3, <2>2, <4>1 DEF Late, NodeOf, NotesHold
    <3> QED BY <1>3, <1>4, <2>2, <3>3, <3>4, <3>5 DEF ReadRight
  <2>3. CASE mid = search.first.idx /\ nodes = handle.nodes /\ result = search.first
    <3>1. search.by # "exact"
      BY <1>1, <1>3, <1>9, <2>3 DEF Bracket, NoResult
    <3>2. result.cmp = -1 /\ mid = search.start
      BY <1>1, <1>3, <2>3, <3>1 DEF Bracket
    <3>3. Short => Noted(handle.nodes, mid, -1)
      BY <1>5, <3>1, <3>2 DEF Narrowed
    <3> QED BY <1>4, <2>2, <2>3, <3>1, <3>2, <3>3
  <2>4. CASE mid = search.last.idx /\ nodes = handle.nodes /\ result = search.last
    <3>1. search.by # "exact"
      BY <1>1, <1>3, <1>9, <2>4 DEF Bracket, NoResult
    <3>2. result.cmp = 1 /\ mid = search.end
      BY <1>1, <1>3, <2>4, <3>1 DEF Bracket
    <3>3. Short => Noted(handle.nodes, mid, 1)
      BY <1>5, <3>1, <3>2 DEF Narrowed
    <3> QED BY <1>4, <2>2, <2>4, <3>1, <3>2, <3>3
  <2> QED BY <1>8, <2>1, <2>3, <2>4
<1> HIDE DEF nodes, result, known
<1>11. /\ nodes \in Notes /\ NotesHold(nodes) /\ result \in Results /\ result.idx = mid
       /\ result.cmp \in -1..1
  BY <1>10 DEF ReadRight, Results
\* What was known of the others is known still.
<1>12. Narrowed(nodes, left, right, match)
  <2>1. search.start \in search.start..search.end /\ search.end \in search.start..search.end
    BY <1>4
  <2>2. search.by # "exact" /\ match # NoResult => match.idx \in search.start..search.end
    BY <1>4, <1>5, <1>6 DEF Narrowed
  <2> QED BY <1>5, <1>10, <2>1, <2>2 DEF Narrowed
<1>13. CASE ~timed /\ Conclude(nodes, match)
  <2>1. Tracking /\ SearchInOrder => left > right
    BY <1>10, <1>13 DEF ReadRight
  <2> QED BY <1>1, <1>4, <1>11, <1>12, <1>13, <2>1, ConcludeStep
<1>14. CASE timed /\ result.cmp = 0 /\ Found(nodes, result)
  <2> DEFINE item == NodeOf(nodes, result.idx).item
             by == search.by
  <2>1. Late(nodes, mid) /\ Noted(nodes, mid, 0) /\ (Tracking => How(mid) = 0)
    BY <1>10, <1>14 DEF ReadRight
  <2>2. CompareItem(by, Data(item), search.ask) >= 0
    BY <1>11, <2>1 DEF Noted
  <2>3. ASSUME Tracking, SearchInOrder, NEW j \in search.start..search.end, j < mid
        PROVE  How(j) < 0
    <3>1. mid \in 0..items.w - 1 /\ j \in 0..items.w - 1
      BY <1>4, <1>9
    <3>2. Data(mid) \in Items /\ Data(j) \in Items
      BY <1>3, <3>1, DataType
    <3>3. Timed(by, Data(mid)) /\ Timed(by, Data(j))
      BY <1>9, <2>3 DEF SearchInOrder, Timed
    <3>4. TimeOf(by, Data(j)) < TimeOf(by, Data(mid))
      BY <1>9, <2>3 DEF SearchInOrder
    <3>5. How(mid) = 0
      BY <2>1, <2>3
    <3>6. How(j) = -1
      BY <1>4, <3>2, <3>3, <3>4, <3>5, CompareGrows DEF How
    <3> QED BY <3>6
  <2>4. item # NoItem => item >= result.idx
    BY <1>11, <2>1 DEF Late
  <2>5. result.idx \in search.start..search.end
    BY <1>9, <1>11
  <2>6. Tracking /\ SearchInOrder =>
          IF by = "exact" THEN How(result.idx) = 0
          ELSE /\ How(result.idx) >= 0
               /\ \A j \in search.start..search.end : j < result.idx => How(j) < 0
    BY <1>11, <2>1, <2>3
  <2>7. by \in {"stamp", "pts", "exact"} /\ by = search.by /\ item = NodeOf(nodes, result.idx).item
    BY <1>4
  <2> HIDE DEF item, by
  <2> QED BY <1>1, <1>4, <1>11, <1>14, <2>2, <2>4, <2>5, <2>6, <2>7, FoundStep
<1>15. CASE timed /\ result.cmp < 0 /\ GoOn(nodes, mid + 1, right, match)
  <2>1. Tracking => How(mid) = -1
    BY <1>10, <1>11, <1>15 DEF ReadRight
  <2>2. mid + 1 \in Nat /\ search.start <= mid + 1 /\ mid + 1 <= right + 1 /\ (mid + 1) - 1 = mid
    BY <1>4, <1>6, <1>7, <1>9
  <2>3. Narrowed(nodes, mid + 1, right, match)
    BY <1>12, <2>1, <2>2 DEF Narrowed
  <2> QED BY <1>1, <1>4, <1>11, <1>15, <2>2, <2>3, GoOnStep
<1>16. CASE timed /\ result.cmp > 0
              /\ GoOn(nodes, left, mid - 1,
                      IF search.by = "exact" THEN NoResult ELSE Better(match, result))
  <2> DEFINE better == IF search.by = "exact" THEN NoResult ELSE Better(match, result)
  <2>1. result.cmp = 1 /\ (Tracking => How(mid) = 1)
    BY <1>10, <1>11, <1>16 DEF ReadRight
  <2>2. mid - 1 \in Int /\ left <= (mid - 1) + 1 /\ mid - 1 <= search.end /\ mid - 1 < search.end
        /\ (mid - 1) + 1 = mid
    BY <1>4, <1>6, <1>7, <1>9
  <2>3. better \in Results
    BY <1>11 DEF Better, NoResult, Results
  <2>4. Late(nodes, mid) /\ (Short => Noted(nodes, mid, 1))
    BY <1>10, <1>16, <2>1 DEF ReadRight
  <2>5. search.by = "exact" => better = NoResult
    OBVIOUS
  <2>6. search.by # "exact" => better = result
    BY DEF Better
  <2> HIDE DEF better
  <2>7. Narrowed(nodes, left, mid - 1, better)
    BY <1>11, <1>12, <2>1, <2>2, <2>4, <2>5, <2>6 DEF Narrowed
  <2>8. GoOn(nodes, left, mid - 1, better)
    BY <1>16 DEF better
  <2> QED BY <1>1, <1>4, <1>11, <2>2, <2>3, <2>7, <2>8, GoOnStep
<1> QED BY <1>2, <1>13, <1>14, <1>15, <1>16

\* The item at the reader's index.
LEMMA FirstStep ==
    ASSUME SearchInv, First
    PROVE  SearchInv'
<1> DEFINE start == search.start
           nodes == ReadOut(handle.nodes, start)
           result == Result(nodes, start)
           timed == HasTime(search.by, NodeOf(nodes, start), start)
<1>1. search.step = "first" /\ items' = items /\ calls' = calls
  BY DEF First
<1>2. \/ /\ ~timed \/ result.cmp > 0 \/ (result.cmp < 0 /\ start = search.end)
         /\ GiveUp(nodes)
      \/ timed /\ result.cmp = 0 /\ Found(nodes, result)
      \/ /\ timed /\ result.cmp < 0 /\ start # search.end
         /\ search' = [search EXCEPT !.step = "last", !.first = result]
         /\ handle' = [handle EXCEPT !.nodes = nodes]
         /\ answer' = answer
  BY DEF First
<1>3. /\ TypeOK /\ SlotsHold /\ NotesHold(handle.nodes) /\ Ranged
      /\ handle.r = start
  BY <1>1, RangedHolds
<1>4. /\ start \in Nat /\ search.end \in Int /\ items.w \in Nat
      /\ search.by \in {"stamp", "pts"} /\ search.ask \in Asks
      /\ start <= search.end /\ search.end < items.w /\ handle.r < items.w
      /\ search \in Searches
  BY <1>1, <1>3 DEF SearchInv, InRange, Ranged, TypeOK, Searches
<1>5. start \in start..search.end
  BY <1>4
<1>6. ReadRight(nodes, result, start) /\ (timed => Noted(nodes, start, result.cmp))
  BY <1>3, <1>5, ReadIsRight
<1> HIDE DEF nodes, result
<1>7. /\ nodes \in Notes /\ NotesHold(nodes) /\ result \in Results /\ result.idx = start
      /\ result.cmp \in -1..1
  BY <1>6 DEF ReadRight, Results
<1>8. CASE /\ ~timed \/ result.cmp > 0 \/ (result.cmp < 0 /\ start = search.end)
           /\ GiveUp(nodes)
  <2>1. ASSUME Tracking, SearchInOrder
        PROVE  ~(How(search.start) <= 0 /\ How(search.end) >= 0)
    <3>1. timed /\ result.cmp = How(start)
      BY <1>6, <2>1 DEF ReadRight
    <3> QED BY <1>7, <1>8, <3>1
  <2> QED BY <1>1, <1>3, <1>4, <1>7, <1>8, <2>1, GiveUpStep
<1>9. CASE timed /\ result.cmp = 0 /\ Found(nodes, result)
  <2> DEFINE item == NodeOf(nodes, result.idx).item
             by == search.by
  <2>1. Late(nodes, start) /\ Noted(nodes, start, 0) /\ (Tracking => How(start) = 0)
    BY <1>6, <1>9 DEF ReadRight
  <2>2. CompareItem(by, Data(item), search.ask) >= 0
    BY <1>7, <2>1 DEF Noted
  <2>3. item # NoItem => item >= result.idx
    BY <1>7, <2>1 DEF Late
  <2>4. Tracking /\ SearchInOrder =>
          IF by = "exact" THEN How(result.idx) = 0
          ELSE /\ How(result.idx) >= 0
               /\ \A j \in search.start..search.end : j < result.idx => How(j) < 0
    BY <1>4, <1>7, <2>1
  <2>5. by \in {"stamp", "pts", "exact"} /\ by = search.by /\ item = NodeOf(nodes, result.idx).item
    BY <1>4
  <2> HIDE DEF item, by
  <2> QED BY <1>1, <1>4, <1>5, <1>7, <1>9, <2>2, <2>3, <2>4, <2>5, FoundStep
<1>10. CASE /\ timed /\ result.cmp < 0 /\ start # search.end
            /\ search' = [search EXCEPT !.step = "last", !.first = result]
            /\ handle' = [handle EXCEPT !.nodes = nodes]
            /\ answer' = answer
  <2>1. search' \in Searches
    BY <1>4, <1>7, <1>10 DEF Searches
  <2>2. /\ search'.step = "last" /\ search'.by = search.by /\ search'.ask = search.ask
        /\ search'.start = search.start /\ search'.end = search.end
        /\ search'.first = result /\ search'.last = search.last
        /\ search'.left = search.left /\ search'.right = search.right
        /\ search'.match = search.match
    BY <1>4, <1>10 DEF Searches
  <2>3. handle' = [r |-> handle.r, nodes |-> nodes] /\ handle.r \in 0..items.w
    BY <1>3, <1>10 DEF TypeOK
  <2>4. Begun /\ InRange /\ calls' \in 0..Calls
    BY <1>1 DEF SearchInv, TypeOK
  <2>5. Begun' /\ InRange' /\ Known'
    BY <1>1, <1>4, <2>2, <2>3, <2>4 DEF Begun, InRange, Known
  <2>6. result.cmp = -1 /\ start < search.end
    BY <1>4, <1>7, <1>10
  <2>7. Bracket'
    BY <1>7, <2>2, <2>6 DEF Bracket
  <2>8. Noted(nodes, start, -1)
    BY <1>6, <1>10, <2>6
  <2>9. PICK notes, low : notes = nodes /\ low = start
    OBVIOUS
  <2>10. Kept'
    <3>1. Noted(notes, low, -1)
      BY <2>8, <2>9
    <3>2. Noted(notes, low, -1)'
      BY <1>1, <2>2, <3>1, SearchFrame
    <3>3. handle'.nodes = notes /\ search'.start = low
      BY <2>2, <2>3, <2>9
    <3> QED BY <2>2, <3>2, <3>3 DEF Kept
  <2>11. SearchState'
    BY <2>5, <2>7, <2>10 DEF SearchState
  <2> QED BY <1>1, <1>7, <1>10, <2>1, <2>3, <2>4, <2>11, OngoingHolds
<1> QED BY <1>2, <1>8, <1>9, <1>10

\* The last item.
LEMMA LastStep ==
    ASSUME SearchInv, Last
    PROVE  SearchInv'
<1> DEFINE end == search.end
           nodes == ReadOut(handle.nodes, end)
           result == Result(nodes, end)
           timed == HasTime(search.by, NodeOf(nodes, end), end)
<1>1. search.step = "last" /\ items' = items /\ calls' = calls
  BY DEF Last
<1>2. \/ /\ ~timed \/ result.cmp < 0
         /\ GiveUp(nodes)
      \/ /\ timed
         /\ result.cmp = 0 \/ (result.cmp > 0 /\ end - search.start <= 1)
         /\ Found(nodes, result)
      \/ /\ timed /\ result.cmp > 0 /\ end - search.start > 1
         /\ search' = [search EXCEPT !.step = "middle", !.last = result]
         /\ handle' = [handle EXCEPT !.nodes = nodes]
         /\ answer' = answer
  BY DEF Last
<1>3. /\ TypeOK /\ SlotsHold /\ NotesHold(handle.nodes) /\ Ranged
      /\ handle.r = search.start
  BY <1>1, RangedHolds
<1>4. /\ search.start \in Nat /\ end \in Int /\ items.w \in Nat
      /\ search.by \in {"stamp", "pts"} /\ search.ask \in Asks
      /\ search.start < end /\ end < items.w /\ handle.r < items.w
      /\ search \in Searches
  BY <1>1, <1>3 DEF SearchInv, InRange, Bracket, Ranged, TypeOK, Searches
<1>5. search.start \in search.start..end /\ end \in search.start..end
  BY <1>4
<1>6. /\ ReadRight(nodes, result, end) /\ (timed => Noted(nodes, end, result.cmp))
      /\ Short /\ Noted(handle.nodes, search.start, -1) => Noted(nodes, search.start, -1)
  BY <1>3, <1>5, ReadIsRight
<1> HIDE DEF nodes, result
<1>7. /\ nodes \in Notes /\ NotesHold(nodes) /\ result \in Results /\ result.idx = end
      /\ result.cmp \in -1..1
  BY <1>6 DEF ReadRight, Results
<1>8. Noted(handle.nodes, search.start, -1)
  BY <1>1 DEF SearchInv, Kept
\* The first item was read before the writer could lap it, if it did not since.
<1>9. Tracking => How(search.start) = -1
  <2> SUFFICES ASSUME Tracking PROVE How(search.start) = -1
    OBVIOUS
  <2>1. search.start >= Now - Count
    BY <1>3, <1>4, NowFacts DEF Tracking
  <2>2. HasTime(search.by, NodeOf(handle.nodes, search.start), search.start)
    BY <1>8 DEF Noted
  <2>3. handle.nodes \in Notes
    BY <1>3 DEF TypeOK, Notes
  <2>4. NodeOf(handle.nodes, search.start).item = search.start
    BY <1>3, <1>4, <2>1, <2>2, <2>3, NoteTrue
  <2> QED BY <1>8, <2>4 DEF Noted, How
<1>10. CASE /\ ~timed \/ result.cmp < 0
            /\ GiveUp(nodes)
  <2>1. ASSUME Tracking, SearchInOrder
        PROVE  ~(How(search.start) <= 0 /\ How(search.end) >= 0)
    <3>1. timed /\ result.cmp = How(end)
      BY <1>6, <2>1 DEF ReadRight
    <3> QED BY <1>7, <1>10, <3>1
  <2> QED BY <1>1, <1>3, <1>4, <1>7, <1>10, <2>1, GiveUpStep
<1>11. CASE /\ timed
            /\ result.cmp = 0 \/ (result.cmp > 0 /\ end - search.start <= 1)
            /\ Found(nodes, result)
  <2> DEFINE item == NodeOf(nodes, result.idx).item
             by == search.by
  <2>1. Late(nodes, end) /\ Noted(nodes, end, result.cmp) /\ (Tracking => How(end) = result.cmp)
    BY <1>6, <1>11 DEF ReadRight
  <2>2. CompareItem(by, Data(item), search.ask) >= 0
    BY <1>7, <1>11, <2>1 DEF Noted
  <2>3. item # NoItem => item >= result.idx
    BY <1>7, <2>1 DEF Late
  <2>4. ASSUME Tracking, SearchInOrder, NEW j \in search.start..search.end, j < end
        PROVE  How(j) < 0
    <3>1. How(end) = result.cmp /\ How(search.start) = -1
      BY <1>9, <2>1, <2>4
    <3>2. CASE result.cmp = 0
      <4>1. end \in 0..items.w - 1 /\ j \in 0..items.w - 1
        BY <1>4
      <4>2. Data(end) \in Items /\ Data(j) \in Items
        BY <1>3, <4>1, DataType
      <4>3. Timed(by, Data(end)) /\ Timed(by, Data(j))
        BY <1>5, <2>4 DEF SearchInOrder, Timed
      <4>4. TimeOf(by, Data(j)) < TimeOf(by, Data(end))
        BY <1>5, <2>4 DEF SearchInOrder
      <4>5. How(j) = -1
        BY <1>4, <3>1, <3>2, <4>2, <4>3, <4>4, CompareGrows DEF How
      <4> QED BY <4>5
    <3>3. CASE end - search.start <= 1
      <4>1. j = search.start
        BY <1>4, <2>4, <3>3
      <4> QED BY <3>1, <4>1
    <3> QED BY <1>11, <3>2, <3>3
  <2>5. Tracking /\ SearchInOrder =>
          IF by = "exact" THEN How(result.idx) = 0
          ELSE /\ How(result.idx) >= 0
               /\ \A j \in search.start..search.end : j < result.idx => How(j) < 0
    <3>1. by # "exact"
      BY <1>4
    <3>2. Tracking => How(result.idx) >= 0
      BY <1>7, <1>11, <2>1
    <3> QED BY <1>7, <2>4, <3>1, <3>2
  <2>6. by \in {"stamp", "pts", "exact"} /\ by = search.by /\ item = NodeOf(nodes, result.idx).item
    BY <1>4
  <2> HIDE DEF item, by
  <2> QED BY <1>1, <1>4, <1>5, <1>7, <1>11, <2>2, <2>3, <2>5, <2>6, FoundStep
<1>12. CASE /\ timed /\ result.cmp > 0 /\ end - search.start > 1
            /\ search' = [search EXCEPT !.step = "middle", !.last = result]
            /\ handle' = [handle EXCEPT !.nodes = nodes]
            /\ answer' = answer
  <2>1. search' \in Searches
    BY <1>4, <1>7, <1>12 DEF Searches
  <2>2. /\ search'.step = "middle" /\ search'.by = search.by /\ search'.ask = search.ask
        /\ search'.start = search.start /\ search'.end = search.end
        /\ search'.first = search.first /\ search'.last = result
        /\ search'.left = search.left /\ search'.right = search.right
        /\ search'.match = search.match
    BY <1>4, <1>12 DEF Searches
  <2>3. handle' = [r |-> handle.r, nodes |-> nodes] /\ handle.r \in 0..items.w
    BY <1>3, <1>12 DEF TypeOK
  <2>4. Begun /\ InRange /\ Bracket /\ calls' \in 0..Calls
    BY <1>1 DEF SearchInv, TypeOK
  <2>5. Begun' /\ InRange' /\ Known'
    BY <1>1, <1>4, <2>2, <2>3, <2>4 DEF Begun, InRange, Known
  <2>6. result.cmp = 1
    BY <1>7, <1>12
  <2>7. /\ search.left = search.start /\ search.right = end /\ search.match = NoResult
        /\ search.first.idx = search.start /\ search.first.cmp = -1
    BY <1>1, <2>4 DEF InRange, Bracket
  <2>8. Bracket'
    BY <1>4, <1>7, <2>2, <2>6, <2>7 DEF Bracket
  <2>9. Late(nodes, end) /\ Noted(nodes, end, 1)
    BY <1>6, <1>12, <2>6 DEF ReadRight
  <2>10. Narrowed(nodes, search.start, end, NoResult)
    BY <1>4, <1>6, <1>8, <2>9 DEF Narrowed
  <2>11. PICK notes, left, right : notes = nodes /\ left = search.start /\ right = end
    OBVIOUS
  <2>12. Kept'
    <3>1. Narrowed(notes, left, right, NoResult)
      BY <2>10, <2>11
    <3>2. Narrowed(notes, left, right, NoResult)'
      BY <1>1, <2>2, <3>1, SearchFrame
    <3>3. /\ handle'.nodes = notes /\ search'.left = left /\ search'.right = right
          /\ search'.match = NoResult
      BY <2>2, <2>3, <2>7, <2>11
    <3> QED BY <2>2, <3>2, <3>3 DEF Kept
  <2>13. SearchState'
    BY <2>5, <2>8, <2>12 DEF SearchState
  <2> QED BY <1>1, <1>7, <1>12, <2>1, <2>3, <2>4, <2>13, OngoingHolds
<1> QED BY <1>2, <1>10, <1>11, <1>12

\* The first item, when neither time was found.
LEMMA FallbackStep ==
    ASSUME SearchInv, Fallback
    PROVE  SearchInv'
<1> DEFINE r == handle.r
           nodes == ReadOut(handle.nodes, r)
           node == NodeOf(nodes, r)
<1>1. search.step = "fallback" /\ items' = items /\ calls' = calls
  BY DEF Fallback
<1>2. \/ /\ IsReadingSuccess(node, r)
         /\ handle' = [r |-> r + 1, nodes |-> nodes]
         /\ Answered("first", r, node.item)
      \/ /\ handle' = [handle EXCEPT !.nodes = nodes]
         /\ Answered("error", -1, NoItem)
  BY DEF Fallback
<1>3. TypeOK /\ SlotsHold /\ NotesHold(handle.nodes) /\ Ranged /\ r = search.start
  BY <1>1, RangedHolds
<1>4. /\ r \in Nat /\ r \in 0..items.w - 1 /\ handle.nodes \in Notes /\ items.w \in Nat
      /\ search.by = "pts" /\ search.ask \in Asks /\ search.start <= search.end
  BY <1>1, <1>3, NowFacts DEF SearchInv, InRange, Ranged, TypeOK, Notes
<1>5. /\ nodes \in Notes /\ NotesHold(nodes)
      /\ node.item # NoItem => node.item >= r
  BY <1>3, <1>4, ReadOutFacts
<1> HIDE DEF nodes
<1>6. /\ SlotOf(r) \in Slots /\ node.item \in ItemNumbers
  BY <1>4, <1>5, SlotFacts DEF Notes, NodeOf
<1>7. node.item # NoItem => node.item < items.w /\ SlotOf(node.item) = SlotOf(r)
  BY <1>5, <1>6 DEF NotesHold, NodeOf
<1>8. SearchState'
  BY <1>2, OverHolds DEF Answered
<1>9. CASE /\ handle' = [r |-> r + 1, nodes |-> nodes]
           /\ Answered("first", r, node.item)
  <2>1. handle' \in [r : Nat, nodes : Notes] /\ handle'.r <= items.w /\ handle'.nodes = nodes
    BY <1>4, <1>5, <1>9
  <2>2. TypeOK'
    BY <1>1, <1>3, <1>4, <1>6, <1>9, <2>1, AnsweredType
  <2>3. SlotsHold' /\ NotesHold(handle.nodes)'
    BY <1>1, <1>3, <1>5, <2>1, ItemsStay
  <2>4. AnswerIsItem'
    BY <1>1, <1>3, <1>4, <1>5, <1>6, <1>7, <1>9, AnsweredIsItem
  <2>5. /\ answer'.by = "first" /\ answer'.ask = search.ask /\ answer'.start = search.start
        /\ answer'.end = search.end /\ answer'.now = Now
    BY <1>9 DEF Answered, Now
  <2>6. \A k : Data(k)' = Data(k)
    BY <1>1 DEF Data
  <2>7. Searched' = search.start..search.end
    BY <2>5 DEF Searched
  <2>8. ~Lapped' => Tracking
    BY <1>3, <1>4, <2>5, NowFacts DEF Lapped, Tracking
  <2>9. InOrder("pts")' => SearchInOrder
    BY <1>4, <2>6, <2>7 DEF InOrder, SearchInOrder
  <2>10. IsBetween("pts")' => How(search.start) <= 0 /\ How(search.end) >= 0
    BY <1>4, <2>5, <2>6 DEF IsBetween, How
  <2>11. Tracking /\ SearchInOrder => ~(How(search.start) <= 0 /\ How(search.end) >= 0)
    BY <1>1 DEF SearchInv, Known
  <2>12. SearchFinds'
    BY <2>5, <2>8, <2>9, <2>10, <2>11 DEF SearchFinds
  <2> QED BY <1>8, <2>2, <2>3, <2>4, <2>12 DEF SearchInv, SearchState
<1>10. CASE /\ handle' = [handle EXCEPT !.nodes = nodes]
            /\ Answered("error", -1, NoItem)
  <2>1. handle' \in [r : Nat, nodes : Notes] /\ handle'.r <= items.w /\ handle'.nodes = nodes
    BY <1>3, <1>4, <1>5, <1>10 DEF TypeOK
  <2>2. TypeOK'
    BY <1>1, <1>3, <1>4, <1>10, <2>1, AnsweredType DEF ItemNumbers
  <2>3. SlotsHold' /\ NotesHold(handle.nodes)'
    BY <1>1, <1>3, <1>5, <2>1, ItemsStay
  <2>4. AnswerIsItem' /\ SearchFinds'
    BY <1>10, NoItemAnswers DEF Answered
  <2> QED BY <1>8, <2>2, <2>3, <2>4 DEF SearchInv, SearchState
<1> QED BY <1>2, <1>9, <1>10

-----------------------------------------------------------------------------
(* The steps before a search and the seek.                                     *)

\* A step goes over whole rings, and not past the writer.
LEMMA CatchUpFacts ==
    ASSUME NEW gap \in Nat
    PROVE  CatchUp(gap) \in 0..gap
<1>1. Count \in Nat \ {0}
  BY SearchAssumption
<1>2. /\ gap = Count * (gap \div Count) + (gap % Count)
      /\ gap % Count \in 0..Count - 1 /\ Count * (gap \div Count) \in Nat
  BY <1>1, DivMod
<1> DEFINE whole == Count * (gap \div Count)
           rest == gap % Count
<1>3. whole \in Nat /\ rest \in Nat /\ gap = whole + rest
  BY <1>1, <1>2
<1> HIDE DEF whole, rest
<1>4. whole \in 0..gap /\ 0 \in 0..gap
  BY <1>3
<1> QED BY <1>4 DEF CatchUp, whole

\* A call begins a search that knows nothing yet.
LEMMA CallStep ==
    ASSUME SearchInv, NEW by \in {"stamp", "exact", "seek"}, Call(by)
    PROVE  SearchInv'
<1>1. TypeOK /\ SlotsHold /\ NotesHold(handle.nodes)
  BY DEF SearchInv
<1>2. PICK ask \in Asks :
        search' = [Idle EXCEPT !.step = IF by = "stamp" THEN "poll" ELSE "snapshot",
                               !.by = by, !.ask = ask]
  BY DEF Call
<1>3. /\ items' = items /\ handle' = handle /\ calls' = calls + 1 /\ calls < Calls
      /\ answer' = NoAnswer
  BY DEF Call
<1>4. search' = [step |-> IF by = "stamp" THEN "poll" ELSE "snapshot", by |-> by, ask |-> ask,
                 start |-> 0, end |-> -1, first |-> NoResult, last |-> NoResult, left |-> 0,
                 right |-> 0, match |-> NoResult]
  BY <1>2 DEF Idle
<1>5. search' \in Searches
  <2>1. NoResult \in Results
    BY DEF NoResult, Results
  <2> QED BY <1>4, <2>1 DEF Searches
<1>6. answer' \in [by : {"none", "wait", "stamp", "pts", "first", "error", "exact", "seek"},
                   ask : Asks \cup {<<>>}, start : Nat, end : Int, idx : Int,
                   item : ItemNumbers, now : Nat]
  BY <1>3 DEF NoAnswer, ItemNumbers
<1>7. calls' \in 0..Calls
  BY <1>1, <1>3, SearchAssumption DEF TypeOK
<1>8. TypeOK'
  BY <1>1, <1>3, <1>5, <1>6, <1>7 DEF TypeOK, Searches
<1>9. handle.nodes \in Notes /\ handle'.nodes = handle.nodes
  BY <1>1, <1>3 DEF TypeOK, Notes
<1>10. SlotsHold' /\ NotesHold(handle.nodes)'
  BY <1>1, <1>3, <1>9, ItemsStay
<1>11. SearchState'
  BY <1>4 DEF SearchState, Begun, InRange, Bracket, Kept, Known
<1>12. AnswerIsItem' /\ SearchFinds'
  BY <1>3, NoItemAnswers DEF NoAnswer
<1> QED BY <1>8, <1>10, <1>11, <1>12 DEF SearchInv, SearchState

\* The reader catches up with the writer, or waits.
LEMMA PollStep ==
    ASSUME SearchInv, Poll
    PROVE  SearchInv'
<1> DEFINE gap == items.w - handle.r
<1>1. /\ search.step = "poll" /\ items' = items /\ calls' = calls
      /\ handle' = [handle EXCEPT !.r = @ + CatchUp(gap)]
      /\ \/ gap = CatchUp(gap) /\ Answered("wait", -1, NoItem)
         \/ /\ gap # CatchUp(gap) /\ search' = [search EXCEPT !.step = "snapshot"]
            /\ answer' = answer
  BY DEF Poll
<1>2. TypeOK /\ SlotsHold /\ NotesHold(handle.nodes) /\ Begun
  BY DEF SearchInv
<1>3. /\ handle.r \in Nat /\ items.w \in Nat /\ handle.r <= items.w /\ handle.nodes \in Notes
      /\ search \in Searches /\ search.ask \in Asks /\ calls' \in 0..Calls
  BY <1>1, <1>2 DEF TypeOK, Notes, Begun, Searches
<1>4. gap \in Nat
  BY <1>3
<1>5. CatchUp(gap) \in 0..gap
  BY <1>4, CatchUpFacts
<1> DEFINE r == handle.r + CatchUp(gap)
<1>6. /\ handle' = [r |-> r, nodes |-> handle.nodes]
      /\ r \in 0..items.w /\ (gap # CatchUp(gap) => r < items.w)
  <2>1. handle' = [r |-> r, nodes |-> handle.nodes]
    BY <1>1, <1>2 DEF TypeOK
  <2> DEFINE jump == CatchUp(gap)
  <2> HIDE DEF jump
  <2>2. r \in 0..items.w /\ (gap # jump => r < items.w)
    BY <1>3, <1>5 DEF jump
  <2> QED BY <2>1, <2>2 DEF jump
<1> HIDE DEF r
<1>7. handle' \in [r : Nat, nodes : Notes] /\ handle'.r <= items.w /\ handle'.nodes = handle.nodes
  BY <1>3, <1>6
<1>8. CASE Answered("wait", -1, NoItem)
  <2>1. TypeOK'
    <3>1. NoItem \in ItemNumbers /\ -1 \in Int /\ items' = items /\ calls' = calls
      BY <1>1 DEF ItemNumbers
    <3> QED BY <1>2, <1>3, <1>7, <1>8, <3>1, AnsweredType
  <2>2. SlotsHold' /\ NotesHold(handle.nodes)'
    BY <1>1, <1>2, <1>3, <1>7, ItemsStay
  <2>3. SearchState'
    BY <1>8, OverHolds DEF Answered
  <2>4. AnswerIsItem' /\ SearchFinds'
    BY <1>8, NoItemAnswers DEF Answered
  <2> QED BY <2>1, <2>2, <2>3, <2>4 DEF SearchInv, SearchState
<1>9. CASE /\ gap # CatchUp(gap) /\ search' = [search EXCEPT !.step = "snapshot"]
           /\ answer' = answer
  <2>1. search' \in Searches
    BY <1>3, <1>9 DEF Searches
  <2>2. /\ search'.step = "snapshot" /\ search'.by = search.by /\ search'.ask = search.ask
        /\ search'.start = search.start /\ search'.end = search.end
        /\ search'.first = search.first /\ search'.last = search.last
        /\ search'.match = search.match
    BY <1>3, <1>9 DEF Searches
  <2>3. handle'.r < items'.w
    BY <1>1, <1>6, <1>9
  <2>4. SearchState'
    BY <1>1, <1>2, <2>2, <2>3 DEF SearchState, Begun, InRange, Bracket, Kept, Known
  <2> QED BY <1>1, <1>2, <1>3, <1>6, <1>9, <2>1, <2>4, OngoingHolds
<1> QED BY <1>1, <1>8, <1>9

\* The range of a search is that of the items that are there.
LEMMA SnapshotStep ==
    ASSUME SearchInv, Snapshot
    PROVE  SearchInv'
<1>1. /\ search.step = "snapshot" /\ search.by # "seek" /\ items' = items /\ calls' = calls
      /\ \/ (items.w <= handle.r \/ ~AskValid(search.by, search.ask)) /\ GiveUp(handle.nodes)
         \/ /\ ~(items.w <= handle.r)
            /\ search' = [search EXCEPT
                            !.step = IF search.by = "exact" THEN "middle" ELSE "first",
                            !.start = handle.r, !.end = items.w - 1,
                            !.left = handle.r, !.right = items.w - 1]
            /\ handle' = handle /\ answer' = answer
  BY DEF Snapshot
<1>2. TypeOK /\ SlotsHold /\ NotesHold(handle.nodes) /\ Begun
  BY DEF SearchInv
<1>3. /\ handle.r \in Nat /\ items.w \in Nat /\ handle.r <= items.w /\ handle.nodes \in Notes
      /\ search \in Searches /\ search.ask \in Asks /\ calls' \in 0..Calls
      /\ search.by \in {"stamp", "pts", "exact"} /\ search.start = 0 /\ search.end = -1
      /\ search.first = NoResult /\ search.last = NoResult /\ search.match = NoResult
      /\ search.by \in {"stamp", "pts"} => handle.r < items.w
  BY <1>1, <1>2 DEF TypeOK, Notes, Begun, Searches
<1>4. CASE (items.w <= handle.r \/ ~AskValid(search.by, search.ask)) /\ GiveUp(handle.nodes)
  <2>1. search.by # "pts"
    BY <1>3, <1>4 DEF AskValid
  <2>2. \A i : i \notin search.start..search.end
    BY <1>3
  <2> QED BY <1>1, <1>2, <1>3, <1>4, <2>1, <2>2, GiveUpStep
<1>5. CASE /\ ~(items.w <= handle.r)
           /\ search' = [search EXCEPT
                           !.step = IF search.by = "exact" THEN "middle" ELSE "first",
                           !.start = handle.r, !.end = items.w - 1,
                           !.left = handle.r, !.right = items.w - 1]
           /\ handle' = handle /\ answer' = answer
  <2>1. search' \in Searches
    <3>1. (IF search.by = "exact" THEN "middle" ELSE "first") \in {"first", "middle"}
      OBVIOUS
    <3>2. items.w - 1 \in Int
      BY <1>3
    <3> QED BY <1>3, <1>5, <3>1, <3>2 DEF Searches
  <2>2. /\ search'.step = (IF search.by = "exact" THEN "middle" ELSE "first")
        /\ search'.by = search.by /\ search'.ask = search.ask
        /\ search'.start = handle.r /\ search'.end = items.w - 1
        /\ search'.left = handle.r /\ search'.right = items.w - 1
        /\ search'.first = NoResult /\ search'.last = NoResult /\ search'.match = NoResult
    BY <1>3, <1>5 DEF Searches
  <2>3. handle' = [r |-> handle.r, nodes |-> handle.nodes] /\ handle.r \in 0..items.w
    BY <1>2, <1>3, <1>5 DEF TypeOK
  <2>4. /\ handle'.r = handle.r /\ items'.w = items.w
        /\ handle.r <= items.w - 1 /\ items.w - 1 < items.w
        /\ handle.r <= (items.w - 1) + 1 /\ items.w - 1 <= items.w - 1
    BY <1>1, <1>3, <1>5
  <2>5. Begun' /\ InRange' /\ Bracket' /\ Known'
    BY <1>3, <2>2, <2>4 DEF Begun, InRange, Bracket, Known
  <2>6. Kept'
    <3>1. CASE search.by = "exact"
      <4>1. /\ search'.step = "middle" /\ search'.by = "exact" /\ search'.match = NoResult
            /\ search'.start <= search'.left /\ search'.left <= search'.right + 1
            /\ search'.right <= search'.end
            /\ search'.left = search'.start /\ search'.right = search'.end
        BY <1>3, <2>2, <2>4, <3>1
      <4> QED BY <4>1 DEF Kept, Narrowed
    <3>2. CASE search.by # "exact"
      BY <2>2, <3>2 DEF Kept
    <3> QED BY <3>1, <3>2
  <2>7. SearchState'
    BY <2>5, <2>6 DEF SearchState
  <2> QED BY <1>1, <1>2, <1>3, <1>5, <2>1, <2>3, <2>7, OngoingHolds
<1> QED BY <1>1, <1>4, <1>5

\* A seek begins with the oldest item but one.
LEMMA BeginSeekStep ==
    ASSUME SearchInv, BeginSeek
    PROVE  SearchInv'
<1> DEFINE start == IF items.w >= Count THEN items.w - Count + 1 ELSE 0
<1>1. /\ search.step = "snapshot" /\ search.by = "seek"
      /\ items' = items /\ calls' = calls /\ answer' = answer
      /\ search' = [search EXCEPT !.step = "seek", !.start = start, !.end = items.w - 1,
                                  !.left = start]
      /\ handle' = [handle EXCEPT !.r = start]
  BY DEF BeginSeek
<1>2. TypeOK /\ SlotsHold /\ NotesHold(handle.nodes) /\ Begun
  BY DEF SearchInv
<1>3. /\ items.w \in Nat /\ handle.nodes \in Notes /\ search \in Searches
      /\ search.ask \in Asks /\ calls' \in 0..Calls /\ Count \in Nat \ {0}
  BY <1>1, <1>2, NowFacts DEF TypeOK, Notes, Begun, Searches
<1>4. start \in Nat /\ start <= items.w
  BY <1>3
<1> HIDE DEF start
<1>5. items.w - 1 \in Int /\ start <= (items.w - 1) + 1 /\ items.w - 1 < items.w
  BY <1>3, <1>4
<1>6. search' \in Searches
  BY <1>1, <1>3, <1>4, <1>5 DEF Searches
<1>7. /\ search'.step = "seek" /\ search'.by = "seek" /\ search'.ask = search.ask
      /\ search'.start = start /\ search'.end = items.w - 1 /\ search'.left = start
  BY <1>1, <1>3 DEF Searches
<1>8. handle' = [r |-> start, nodes |-> handle.nodes] /\ start \in 0..items.w
  BY <1>1, <1>2, <1>3, <1>4 DEF TypeOK
<1>9. Begun' /\ Bracket' /\ Kept'
  BY <1>3, <1>7 DEF Begun, Bracket, Kept
<1>10. InRange'
  <2>1. search'.start <= search'.left /\ search'.left <= search'.end + 1 /\ search'.end < items'.w
    BY <1>1, <1>4, <1>5, <1>7
  <2> QED BY <1>7, <2>1 DEF InRange
<1>11. Known'
  <2>1. \A j : j \notin search'.start..search'.left - 1
    BY <1>4, <1>7
  <2> QED BY <1>7, <2>1 DEF Known
<1>12. SearchState'
  BY <1>9, <1>10, <1>11 DEF SearchState
<1> QED BY <1>1, <1>2, <1>3, <1>6, <1>8, <1>12, OngoingHolds

\* A seek stops at the first item that reaches the pts, or behind the last.
LEMMA SeekStep ==
    ASSUME SearchInv, Seek
    PROVE  SearchInv'
<1> DEFINE left == search.left
           item == items.slots[SlotOf(left)]
           done == left > search.end
           lost == Data(item).length <= 0 \/ Data(item).pts <= 0
<1>1. search.step = "seek" /\ items' = items /\ calls' = calls
  BY DEF Seek
<1>2. \/ (done \/ lost) /\ SeekStops(search.end + 1, NoItem)
      \/ ~done /\ ~lost /\ Data(item).pts >= search.ask.pts /\ SeekStops(left, item)
      \/ /\ ~done /\ ~lost /\ Data(item).pts < search.ask.pts
         /\ search' = [search EXCEPT !.left = left + 1]
         /\ handle' = handle /\ answer' = answer
  BY DEF Seek
<1>3. /\ TypeOK /\ SlotsHold /\ NotesHold(handle.nodes) /\ Begun /\ InRange /\ Known
  BY DEF SearchInv
<1>4. /\ items.w \in Nat /\ handle.nodes \in Notes /\ search \in Searches
      /\ search.ask \in Asks /\ calls' \in 0..Calls /\ left \in Nat
      /\ search.start \in Nat /\ search.end \in Int /\ search.by = "seek"
      /\ search.start <= left /\ left <= search.end + 1 /\ search.end < items.w
      /\ handle.r \in 0..items.w
  BY <1>1, <1>3, NowFacts DEF TypeOK, Notes, Begun, InRange, Searches
<1>5. SlotOf(left) \in Slots /\ item \in ItemNumbers
  BY <1>3, <1>4, SlotFacts DEF TypeOK
<1>6. ASSUME ~done, item # NoItem
      PROVE  /\ item >= left /\ item < items.w /\ SlotOf(item) = SlotOf(left)
             /\ Data(item) \in Items
  <2>1. left \in 0..items.w - 1
    BY <1>4, <1>6
  <2>2. item \in left..items.w - 1
    BY <1>3, <1>6, <2>1, SlotLate
  <2>3. SlotOf(item) = SlotOf(left)
    BY <1>3, <1>5, <1>6 DEF SlotsHold
  <2>4. item \in 0..items.w - 1
    BY <1>4, <2>2
  <2> HIDE DEF item
  <2>5. item >= left /\ item < items.w
    BY <1>4, <2>2
  <2> QED BY <1>3, <2>3, <2>4, <2>5, DataType
<1>7. ASSUME Tracking, ~done PROVE item = left
  <2>1. left \in 0..items.w - 1 /\ left >= Now - Count
    BY <1>3, <1>4, <1>7, NowFacts DEF Tracking
  <2> QED BY <1>3, <2>1 DEF SlotsHold
<1>8. ~lost => item # NoItem
  BY DEF Data, Refused
<1>9. search.ask.pts \in Int
  BY <1>4, SearchAssumption
<1>10. ASSUME NEW d \in Items, NEW ask \in Asks
       PROVE  /\ CompareItem("seek", d, ask) >= 0 <=> d.pts >= ask.pts
              /\ CompareItem("seek", d, ask) = -1 <=> d.pts < ask.pts
  <2>1. ask.pts \in Int /\ d.pts \in Int
    BY <1>10, SearchAssumption DEF Items
  <2>2. CompareItem("seek", d, ask) = Sign(d.pts - ask.pts)
    BY DEF CompareItem, TimeOf, Wanted
  <2> QED BY <2>1, <2>2 DEF Sign
<1>11. Tracking => \A j \in search.start..left - 1 : How(j) = -1
  BY <1>1, <1>3 DEF Known
<1> HIDE DEF item, lost
\* An answer: if the search is not lapped, it is the right one.
<1>12. ASSUME NEW i \in Nat, i <= items.w, search.start <= i, NEW found \in ItemNumbers,
              SeekStops(i, found),
              found # NoItem =>
                /\ found >= i /\ found < items.w /\ SlotOf(found) = SlotOf(i)
                /\ CompareItem("seek", Data(found), search.ask) >= 0,
              Tracking /\ SearchInOrder =>
                \/ /\ i \in search.start..search.end /\ How(i) >= 0
                   /\ \A j \in search.start..search.end : j < i => How(j) = -1
                \/ i = search.end + 1 /\ \A j \in search.start..search.end : How(j) = -1
       PROVE  SearchInv'
  <2>1. Answered("seek", i, found) /\ handle' = [handle EXCEPT !.r = i]
    BY <1>12 DEF SeekStops
  <2>2. handle' \in [r : Nat, nodes : Notes] /\ handle'.r <= items.w /\ handle'.nodes = handle.nodes
    BY <1>3, <1>4, <1>12, <2>1 DEF TypeOK
  <2>3. i \in Int
    BY <1>12
  <2>4. TypeOK'
    BY <1>1, <1>3, <1>4, <1>12, <2>1, <2>2, <2>3, AnsweredType
  <2>5. SlotsHold' /\ NotesHold(handle.nodes)'
    BY <1>1, <1>3, <1>4, <2>2, ItemsStay
  <2>6. SearchState'
    BY <2>1, OverHolds DEF Answered
  <2>7. AnswerIsItem'
    BY <1>1, <1>3, <1>12, <2>1, AnsweredIsItem
  <2>8. /\ answer'.by = "seek" /\ answer'.ask = search.ask /\ answer'.start = search.start
        /\ answer'.end = search.end /\ answer'.idx = i /\ answer'.now = Now
    BY <2>1 DEF Answered, Now
  <2>9. \A k : Data(k)' = Data(k)
    BY <1>1 DEF Data
  <2>10. Searched' = search.start..search.end
    BY <2>8 DEF Searched
  <2>11. ~Lapped' => Tracking
    BY <1>3, <1>4, <2>8, NowFacts DEF Lapped, Tracking
  <2>12. InOrder("seek")' => SearchInOrder
    BY <1>4, <2>9, <2>10 DEF InOrder, SearchInOrder
  <2>13. \A j : Reaches("seek", j)' <=> How(j) >= 0
    BY <1>4, <2>8, <2>9 DEF Reaches, How
  <2>14. SearchFinds'
    <3> SUFFICES ASSUME ~Lapped', InOrder("seek")'
                 PROVE  \/ FirstThatReaches("seek", answer.idx)'
                        \/ /\ answer'.idx = answer'.end + 1
                           /\ \A j \in search.start..search.end : ~Reaches("seek", j)'
      BY <2>8, <2>10 DEF SearchFinds
    <3>1. CASE /\ i \in search.start..search.end /\ How(i) >= 0
               /\ \A j \in search.start..search.end : j < i => How(j) = -1
      BY <2>8, <2>10, <2>13, <3>1 DEF FirstThatReaches
    <3>2. CASE i = search.end + 1 /\ \A j \in search.start..search.end : How(j) = -1
      BY <2>8, <2>13, <3>2
    <3> QED BY <1>12, <2>11, <2>12, <3>1, <3>2
  <2> QED BY <2>4, <2>5, <2>6, <2>7, <2>14 DEF SearchInv, SearchState
<1>13. CASE (done \/ lost) /\ SeekStops(search.end + 1, NoItem)
  <2>1. search.end + 1 \in Nat /\ search.end + 1 <= items.w /\ search.start <= search.end + 1
    BY <1>4
  <2>2. ASSUME Tracking, SearchInOrder
        PROVE  \A j \in search.start..search.end : How(j) = -1
    <3>1. done
      <4> SUFFICES ASSUME ~done PROVE FALSE
        OBVIOUS
      <4>1. item = left /\ left \in search.start..search.end
        BY <1>4, <1>7, <2>2
      <4>2. Data(left).length > 0 /\ Data(left).pts > 0
        BY <1>4, <2>2, <4>1 DEF SearchInOrder
      <4>3. left \in 0..items.w - 1
        BY <1>4, <4>1
      <4>4. Data(left) \in Items
        BY <1>3, <4>3, DataType
      <4> QED BY <1>13, <4>1, <4>2, <4>4 DEF lost, Items
    <3>2. \A j \in search.start..search.end : j \in search.start..left - 1
      BY <1>4, <3>1
    <3> QED BY <1>11, <2>2, <3>2
  <2>3. NoItem \in ItemNumbers
    BY DEF ItemNumbers
  <2> QED BY <1>12, <1>13, <2>1, <2>2, <2>3
<1>14. CASE ~done /\ ~lost /\ Data(item).pts >= search.ask.pts /\ SeekStops(left, item)
  <2>1. left \in search.start..search.end /\ left <= items.w
    BY <1>4, <1>14
  <2>2. /\ item >= left /\ item < items.w /\ SlotOf(item) = SlotOf(left)
        /\ CompareItem("seek", Data(item), search.ask) >= 0
    BY <1>4, <1>6, <1>8, <1>10, <1>14
  <2>3. ASSUME Tracking
        PROVE  /\ How(left) >= 0
               /\ \A j \in search.start..search.end : j < left => How(j) = -1
    <3>1. How(left) >= 0
      BY <1>4, <1>7, <1>14, <2>2, <2>3 DEF How
    <3>2. \A j \in search.start..search.end : j < left => j \in search.start..left - 1
      BY <1>4
    <3> QED BY <1>11, <2>3, <3>1, <3>2
  <2> QED BY <1>4, <1>5, <1>12, <1>14, <2>1, <2>2, <2>3
<1>15. CASE /\ ~done /\ ~lost /\ Data(item).pts < search.ask.pts
            /\ search' = [search EXCEPT !.left = left + 1]
            /\ handle' = handle /\ answer' = answer
  <2>1. search' \in Searches
    BY <1>4, <1>15 DEF Searches
  <2>2. /\ search'.step = "seek" /\ search'.by = "seek" /\ search'.ask = search.ask
        /\ search'.start = search.start /\ search'.end = search.end /\ search'.left = left + 1
    BY <1>1, <1>4, <1>15 DEF Searches
  <2>3. handle' = [r |-> handle.r, nodes |-> handle.nodes]
    BY <1>3, <1>15 DEF TypeOK
  <2>4. Begun' /\ Bracket' /\ Kept'
    BY <1>4, <2>2 DEF Begun, Bracket, Kept
  <2>5. InRange'
    <3>1. /\ search'.start <= search'.left /\ search'.left <= search'.end + 1
          /\ search'.end < items'.w
      BY <1>1, <1>4, <1>15, <2>2
    <3> QED BY <2>2, <3>1 DEF InRange
  <2>6. ASSUME Tracking PROVE How(left) = -1
    <3>1. item = left
      BY <1>7, <1>15, <2>6
    <3>2. Data(item) \in Items
      BY <1>6, <1>8, <1>15
    <3> QED BY <1>4, <1>10, <1>15, <3>1, <3>2 DEF How
  <2>7. Tracking' => Tracking
    BY <1>1, <2>2 DEF Tracking, Now
  <2>8. \A k : How(k)' = How(k)
    BY <1>1, <1>4, <2>2 DEF How, Data
  <2>9. ASSUME Tracking
        PROVE  \A j \in search.start..(left + 1) - 1 : How(j) = -1
    <3>1. \A j \in search.start..(left + 1) - 1 : j = left \/ j \in search.start..left - 1
      BY <1>4
    <3> QED BY <1>11, <2>6, <2>9, <3>1
  <2>10. Known'
    BY <2>2, <2>7, <2>8, <2>9 DEF Known
  <2>11. SearchState'
    BY <2>4, <2>5, <2>10 DEF SearchState
  <2> QED BY <1>1, <1>3, <1>4, <1>15, <2>1, <2>3, <2>11, OngoingHolds
<1> QED BY <1>2, <1>13, <1>14, <1>15

-----------------------------------------------------------------------------
(* The steps of the writer.                                                    *)

\* What a search knows does not depend on what the writer does meanwhile.
LEMMA WriterHolds ==
    ASSUME SearchInv, items'.feed = items.feed, items.w <= items'.w, Now <= Now',
           TypeOK', SlotsHold', UNCHANGED <<handle, search, answer, calls>>
    PROVE  SearchInv'
<1>1. TypeOK /\ NotesHold(handle.nodes)
  BY DEF SearchInv
<1>2. /\ items.w \in Nat /\ items'.w \in Nat /\ Now \in Nat /\ Now' \in Nat /\ Count \in Nat
      /\ search.start \in Nat /\ search.end \in Int /\ handle.r \in Nat
      /\ handle.nodes \in Notes
  <2>1. items.busy \in BOOLEAN /\ items'.busy \in BOOLEAN
    BY <1>1 DEF TypeOK
  <2>2. items.w \in Nat /\ items'.w \in Nat
    BY <1>1 DEF TypeOK
  <2>3. Now' \in Nat
    BY <2>1, <2>2 DEF Now
  <2> QED BY <1>1, <2>2, <2>3, NowFacts DEF TypeOK, Notes
<1>3. \A k : Data(k)' = Data(k)
  BY DEF Data
<1>4. NotesHold(handle.nodes)'
  <2>1. ASSUME NEW k \in Slots, handle.nodes[k].item # NoItem
        PROVE  handle.nodes[k].item < items'.w
    <3>1. handle.nodes[k].item \in Nat /\ handle.nodes[k].item < items.w
      BY <1>1, <1>2, <2>1 DEF NotesHold, Notes, ItemNumbers
    <3> QED BY <1>2, <3>1
  <2> QED BY <1>1, <2>1 DEF NotesHold, SlotOf, Slots
<1>5. Begun' /\ Bracket'
  <2>1. handle.r < items.w => handle.r < items'.w
    BY <1>2
  <2> QED BY <2>1 DEF SearchInv, Begun, Bracket
<1>6. InRange'
  <2>1. search.end < items.w => search.end < items'.w
    BY <1>2
  <2> QED BY <2>1 DEF SearchInv, InRange
<1>7. Tracking' => Tracking
  <2>1. Now' - search.start <= Count => Now - search.start <= Count
    BY <1>2
  <2> QED BY <2>1 DEF Tracking
<1>8. \A nodes, i, cmp : Noted(nodes, i, cmp)' <=> Noted(nodes, i, cmp)
  BY <1>3 DEF Noted, HasTime, IsReadingSuccess, NodeOf, SlotOf
<1>9. \A nodes, i : Late(nodes, i)' <=> Late(nodes, i)
  BY DEF Late, NodeOf, SlotOf
<1>10. \A k : How(k)' = How(k)
  BY <1>3 DEF How
<1>11. Short' <=> Short
  BY DEF Short
<1>12. \A nodes, left, right, match :
         Narrowed(nodes, left, right, match) => Narrowed(nodes, left, right, match)'
  BY <1>7, <1>8, <1>9, <1>10, <1>11 DEF Narrowed
<1>13. Kept'
  BY <1>8, <1>12 DEF SearchInv, Kept
<1>14. SearchInOrder' <=> SearchInOrder
  BY <1>3 DEF SearchInOrder
<1>15. Known'
  BY <1>7, <1>10, <1>14 DEF SearchInv, Known
<1>16. AnswerIsItem' /\ SearchFinds'
  BY AnswerStays DEF SearchInv
<1> QED BY <1>4, <1>5, <1>6, <1>13, <1>15, <1>16 DEF SearchInv

\* The slot that is written to is that of an item Count before, and of none
\* after it.
LEMMA SlotWritten ==
    ASSUME TypeOK, SlotsHold, items' = [items EXCEPT !.busy = items'.busy, !.w = items'.w,
                                                     !.slots = items'.slots],
           NEW value \in ItemNumbers,
           items'.slots = [items.slots EXCEPT ![SlotOf(items.w)] = value],
           \/ ~items.busy /\ value = NoItem /\ items'.w = items.w /\ items'.busy = TRUE
           \/ items.busy /\ value = items.w /\ items'.w = items.w + 1 /\ items'.busy = FALSE
    PROVE  SlotsHold' /\ Now' = items.w + 1
<1> DEFINE slot == SlotOf(items.w)
<1>1. /\ items.w \in Nat /\ Count \in Nat \ {0} /\ items.w <= Now /\ Now <= items.w + 1
      /\ slot \in Slots /\ items.slots \in [Slots -> ItemNumbers] /\ Now \in Nat
  BY NowFacts, SlotFacts DEF TypeOK
<1>2. Now' = items.w + 1
  BY <1>1 DEF Now
<1>3. items'.slots[slot] = value /\ \A k \in Slots : k # slot => items'.slots[k] = items.slots[k]
  BY <1>1
<1>4. items'.w = items.w \/ (items'.w = items.w + 1 /\ value = items.w)
  OBVIOUS
<1>5. value = NoItem \/ (value = items.w /\ items'.w = items.w + 1)
  OBVIOUS
<1>6. NoItem \notin Nat
  BY DEF NoItem
<1>7. ASSUME NEW k \in Slots, items'.slots[k] # NoItem
      PROVE  /\ items'.slots[k] < items'.w /\ items'.slots[k] >= Now' - Count
             /\ SlotOf(items'.slots[k]) = k
  <2>1. CASE k = slot
    BY <1>1, <1>2, <1>3, <1>5, <1>7, <2>1
  <2>2. CASE k # slot
    <3> DEFINE j == items.slots[k]
    <3>1. items'.slots[k] = j /\ j # NoItem /\ j \in Nat
      BY <1>1, <1>3, <1>7, <2>2 DEF ItemNumbers
    <3>2. j < items.w /\ j >= Now - Count /\ SlotOf(j) = k
      BY <3>1 DEF SlotsHold
    <3> HIDE DEF j
    <3>3. ASSUME j = items.w - Count PROVE FALSE
      <4>1. items.w = j + Count * 1 /\ j \in Int
        BY <1>1, <3>1, <3>3
      <4>2. items.w % Count = j % Count
        BY <1>1, <4>1, ModShift
      <4> QED BY <2>2, <3>2, <4>2 DEF SlotOf
    <3>4. j >= (items.w + 1) - Count
      BY <1>1, <3>1, <3>2, <3>3
    <3>5. j < items'.w
      BY <1>1, <1>4, <3>1, <3>2
    <3> QED BY <1>2, <3>1, <3>2, <3>4, <3>5
  <2> QED BY <2>1, <2>2
<1>8. ASSUME NEW j \in 0..items'.w - 1, j >= Now' - Count
      PROVE  items'.slots[SlotOf(j)] = j
  <2>1. j \in Nat /\ SlotOf(j) \in Slots
    BY <1>1, <1>4, SlotFacts
  <2>2. CASE j = items.w
    BY <1>1, <1>3, <1>4, <2>2
  <2>3. CASE j # items.w
    <3>1. j \in 0..items.w - 1 /\ j < items.w /\ j >= Now - Count /\ items.w < j + Count
      BY <1>1, <1>2, <1>4, <1>8, <2>3
    <3>2. SlotOf(j) # slot
      BY <1>1, <2>1, <3>1, SlotFacts
    <3>3. items.slots[SlotOf(j)] = j
      BY <3>1 DEF SlotsHold
    <3> QED BY <1>3, <2>1, <3>2, <3>3
  <2> QED BY <2>2, <2>3
<1>9. SlotsHold'
  BY <1>7, <1>8 DEF SlotsHold, SlotOf, Slots
<1> QED BY <1>2, <1>9

\* The writer begins an item, and its slot is empty.
LEMMA BeginStep ==
    ASSUME SearchInv, Begin
    PROVE  SearchInv'
<1>1. /\ ~items.busy /\ items.w < Len(items.feed)
      /\ items' = [items EXCEPT !.busy = TRUE, !.slots[SlotOf(items.w)] = NoItem]
      /\ UNCHANGED <<handle, search, answer, calls>>
  BY DEF Begin
<1>2. TypeOK /\ SlotsHold
  BY DEF SearchInv
<1>3. /\ items' = [feed |-> items.feed, w |-> items.w, busy |-> TRUE,
                   slots |-> [items.slots EXCEPT ![SlotOf(items.w)] = NoItem]]
      /\ items.w \in Nat /\ SlotOf(items.w) \in Slots
      /\ items.slots \in [Slots -> ItemNumbers] /\ NoItem \in ItemNumbers
  BY <1>1, <1>2, SlotFacts DEF TypeOK, ItemNumbers
<1>4. TypeOK'
  <2>1. items'.slots \in [Slots -> ItemNumbers]
    BY <1>3
  <2> QED BY <1>1, <1>2, <1>3, <2>1 DEF TypeOK
<1>5. SlotsHold' /\ Now' = items.w + 1
  BY <1>1, <1>2, <1>3, SlotWritten DEF TypeOK
<1>6. Now <= Now' /\ items.w <= items'.w
  BY <1>2, <1>3, <1>5, NowFacts
<1> QED BY <1>1, <1>3, <1>4, <1>5, <1>6, WriterHolds

\* The writer ends an item, which is in its slot.
LEMMA FinishStep ==
    ASSUME SearchInv, Finish
    PROVE  SearchInv'
<1>1. /\ items.busy
      /\ items' = [items EXCEPT !.busy = FALSE, !.w = @ + 1, !.slots[SlotOf(items.w)] = items.w]
      /\ UNCHANGED <<handle, search, answer, calls>>
  BY DEF Finish
<1>2. TypeOK /\ SlotsHold
  BY DEF SearchInv
<1>3. /\ items' = [feed |-> items.feed, w |-> items.w + 1, busy |-> FALSE,
                   slots |-> [items.slots EXCEPT ![SlotOf(items.w)] = items.w]]
      /\ items.w \in Nat /\ SlotOf(items.w) \in Slots
      /\ items.slots \in [Slots -> ItemNumbers] /\ items.w \in ItemNumbers
  BY <1>1, <1>2, SlotFacts DEF TypeOK, ItemNumbers
<1>4. TypeOK'
  <2>1. items'.slots \in [Slots -> ItemNumbers]
    BY <1>3
  <2>2. Len(items.feed) \in Nat
    BY <1>2, SearchAssumption DEF TypeOK
  <2>3. items.w + 1 <= Len(items.feed) /\ items.w + 1 \in Nat
    BY <1>1, <1>2, <1>3, <2>2 DEF TypeOK
  <2>4. handle.r <= items.w + 1
    BY <1>2, <1>3 DEF TypeOK
  <2> QED BY <1>1, <1>2, <1>3, <2>1, <2>3, <2>4 DEF TypeOK
<1>5. SlotsHold' /\ Now' = items.w + 1
  BY <1>1, <1>2, <1>3, SlotWritten DEF TypeOK
<1>6. Now <= Now' /\ items.w <= items'.w
  BY <1>2, <1>3, <1>5, NowFacts
<1> QED BY <1>1, <1>3, <1>4, <1>5, <1>6, WriterHolds

-----------------------------------------------------------------------------
\* In the beginning nothing is sent, noted or asked.
LEMMA InitHolds == Init => SearchInv
<1> SUFFICES ASSUME Init PROVE SearchInv
  OBVIOUS
<1>1. PICK feed \in Feeds :
        items = [feed |-> feed, w |-> 0, busy |-> FALSE, slots |-> [s \in Slots |-> NoItem]]
  BY DEF Init, Slots
<1>2. /\ handle = [r |-> 0, nodes |-> [s \in Slots |-> [idx |-> 0, item |-> NoItem]]]
      /\ search = Idle /\ answer = NoAnswer /\ calls = 0
  BY DEF Init, Slots
<1>3. Count \in Nat \ {0} /\ Calls \in Nat /\ Len(feed) \in Nat
  BY SearchAssumption
<1>4. TypeOK
  <2>1. NoItem \in ItemNumbers /\ NoResult \in Results
    BY DEF ItemNumbers, NoResult, Results
  <2>2. /\ items \in [feed : Feeds, w : Nat, busy : BOOLEAN, slots : [Slots -> ItemNumbers]]
        /\ items.w <= Len(items.feed) /\ ~items.busy
    BY <1>1, <1>3, <2>1
  <2>3. handle \in [r : Nat, nodes : [Slots -> [idx : Nat, item : ItemNumbers]]] /\ handle.r <= items.w
    BY <1>1, <1>2, <2>1
  <2>4. search \in Searches
    BY <1>2, <2>1 DEF Idle, Searches
  <2>5. answer \in [by : {"none", "wait", "stamp", "pts", "first", "error", "exact", "seek"},
                    ask : Asks \cup {<<>>}, start : Nat, end : Int, idx : Int,
                    item : ItemNumbers, now : Nat]
    BY <1>2, <2>1 DEF NoAnswer
  <2>6. calls \in 0..Calls
    BY <1>2, <1>3
  <2> QED BY <2>2, <2>3, <2>4, <2>5, <2>6 DEF TypeOK, Searches
<1>5. SlotsHold
  BY <1>1 DEF SlotsHold
<1>6. NotesHold(handle.nodes)
  BY <1>2 DEF NotesHold
<1>7. Begun /\ InRange /\ Bracket /\ Kept /\ Known
  BY <1>2 DEF Idle, Begun, InRange, Bracket, Kept, Known
<1>8. AnswerIsItem /\ SearchFinds
  BY <1>2 DEF NoAnswer, AnswerIsItem, SearchFinds
<1> QED BY <1>4, <1>5, <1>6, <1>7, <1>8 DEF SearchInv

\* No step of the writer or of a search breaks it.
LEMMA SearchInductive == SearchInv /\ [Next]_vars => SearchInv'
<1> SUFFICES ASSUME SearchInv, [Next]_vars PROVE SearchInv'
  OBVIOUS
<1>1. CASE Begin
  BY <1>1, BeginStep
<1>2. CASE Finish
  BY <1>2, FinishStep
<1>3. CASE Call("stamp") \/ Call("exact") \/ Call("seek")
  BY <1>3, CallStep
<1>4. CASE Poll
  BY <1>4, PollStep
<1>5. CASE Snapshot
  BY <1>5, SnapshotStep
<1>6. CASE First
  BY <1>6, FirstStep
<1>7. CASE Last
  BY <1>7, LastStep
<1>8. CASE Middle
  BY <1>8, MiddleStep
<1>9. CASE Fallback
  BY <1>9, FallbackStep
<1>10. CASE BeginSeek
  BY <1>10, BeginSeekStep
<1>11. CASE Seek
  BY <1>11, SeekStep
<1>12. CASE UNCHANGED vars
  <2>1. /\ items' = items /\ handle' = handle /\ search' = search /\ answer' = answer
        /\ calls' = calls
    BY <1>12 DEF vars
  <2>2. TypeOK' /\ SlotsHold' /\ Now' = Now
    BY <2>1 DEF SearchInv, TypeOK, SlotsHold, Now, SlotOf, Slots
  <2>3. TypeOK
    BY DEF SearchInv
  <2>4. items.w <= items'.w /\ Now <= Now'
    BY <2>1, <2>2, <2>3, NowFacts
  <2> QED BY <2>1, <2>2, <2>4, WriterHolds
<1> QED BY <1>1, <1>2, <1>3, <1>4, <1>5, <1>6, <1>7, <1>8, <1>9, <1>10, <1>11, <1>12 DEF Next

\* The invariant holds throughout (libshm_media.cpp, SearchFirstItemMatching,
\* SearchItemWithTvutimestamp, SetReadIndex, while the writer sends items).
THEOREM SearchInvariant == Spec => []SearchInv
<1>1. Init => SearchInv
  BY InitHolds
<1> QED BY <1>1, SearchInductive, PTL DEF Spec

\* The variables of the searches have their types; among others, the reader does
\* not go past the writer (PollReadDateWithTvutimestamp, SetReadIndex).
THEOREM SearchTypes == Spec => []TypeOK
<1>1. SearchInv => TypeOK
  BY DEF SearchInv
<1> QED BY <1>1, SearchInvariant, PTL

\* The search finds the item asked for unless it is lapped, for any feed, ring and
\* course of the writer (SearchFirstItemMatching, SetReadIndex).
THEOREM SearchesFind == Spec => []SearchFinds
<1>1. SearchInv => SearchFinds
  BY DEF SearchInv
<1> QED BY <1>1, SearchInvariant, PTL

\* What is answered is the item at the index answered or, if the search was lapped,
\* a later one, and no earlier in time than asked for where no note was noted over
\* (ResultRecorder, ReadItemByIndex).
THEOREM AnswersAreItems == Spec => []AnswerIsItem
<1>1. SearchInv => AnswerIsItem
  BY DEF SearchInv
<1> QED BY <1>1, SearchInvariant, PTL

=============================================================================
