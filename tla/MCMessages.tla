----------------------------- MODULE MCMessages -----------------------------
(* Every format of a message, and of the items of a memory, in one model: a    *)
(* behaviour chooses a format, and writes, cuts and reads messages of it.      *)
(* Memory is small, so that it runs out, and integers of a few bits go through *)
(* every length their encoding has.                                            *)
EXTENDS KeyValueMap, SearchConstants, Units

VARIABLE unit

V(n, k) == [i \in 1..n |-> k + i]

-----------------------------------------------------------------------------
Cmd(t, p) == [type |-> t, params |-> p]
Volumes == [i \in 1..33 |-> V(2, 60 + i)]
SampleMessages == {
  <<Cmd("InsertKF", [u_program_index |-> <<5>>]),
    Cmd("ChangeBitRate", [u_vbitrate |-> V(4, 10), u_abitrate |-> V(4, 20)]),
    Cmd("ChangeResolution", [u_width |-> V(2, 10), u_height |-> V(2, 20)]),
    Cmd("ChangeProgramBitRate",
        [u_programIndex |-> <<3>>, u_vbitrate |-> V(4, 10), u_abitrate |-> V(4, 20)])>>,
  <<Cmd("ChangeAudioParams",
        [u_audio_only |-> <<1>>, u_aac_profile |-> <<2>>, u_tracks_layout |-> V(8, 30)]),
    Cmd("ChangeDelayParams", [u_delay_ms |-> V(4, 40)]),
    Cmd("SendAudioVolume", [u_volume |-> <<>>]),
    Cmd("SendAudioVolume", [u_volume |-> <<V(2, 50), V(2, 60)>>]),
    Cmd("StartProgLive",
        [u_program_index |-> V(4, 1), b_vbr |-> <<1>>, u_video_bit_rate |-> V(4, 10),
         u_audio_bit_rate |-> V(4, 20), u_video_codec_fourcc |-> V(4, 30),
         u_audio_codec_fourcc |-> V(4, 40), u_audio_tracks_layout |-> V(8, 50)])>>,
  <<Cmd("StopProgLive", [u_program_index |-> V(4, 10)]),
    Cmd("Cameras", [u_index |-> <<1>>, u_video_connection |-> <<2>>,
                    u_audio_connection |-> <<3>>, u_video_fmt |-> V(4, 250)]),
    Cmd("CommonJson", [p_json |-> <<>>])>>,
  <<Cmd("CommonJson", [p_json |-> V(40, 100)])>>,
  <<Cmd("SendAudioVolume", [u_volume |-> <<>>]), Cmd("Unknown", <<>>)>>,
  <<>>}

Ctl == INSTANCE ControlProtocol
         WITH Granule <- 16, Memory <- 128, IntMax <- 200, Messages <- SampleMessages, Uses <- 4

-----------------------------------------------------------------------------
SampleValues == {
  [type |-> "Byte", v |-> 3], [type |-> "Uint32", v |-> 31], [type |-> "Uint64", v |-> 200],
  [type |-> "Double", v |-> 5], [type |-> "Uint128", v |-> <<7, 0, 9>>],
  [type |-> "String", v |-> V(5, 0)], [type |-> "Bytes", v |-> <<>>],
  [type |-> "Bytes", v |-> <<6>>]}

Kv == INSTANCE KeyValue
        WITH Keys <- {1, 9}, Values <- SampleValues, Layouts <- {<<1>>, <<2, 3, 4>>}, Uses <- 4

-----------------------------------------------------------------------------
Bin == INSTANCE BinConcat
         WITH Memory <- 32, Segments <- {<<>>, <<2>>, V(5, 2), V(17, 0)}, Uses <- 5

-----------------------------------------------------------------------------
Entry(n, d) == [type |-> <<0, 1, 0, n>>, timestamp |-> <<0, 0, 0, 0, 0, 1, 255, n>>,
                duration |-> <<0, 0, 1, n>>, data |-> d]

Sub == INSTANCE Subtitle
         WITH Granule <- 16, Memory <- 256, Offsets <- {300, -256}, Uses <- 4,
              Entries <- {<<>>, <<Entry(250, <<>>), Entry(2, <<4, 5>>)>>,
                          <<Entry(255, <<6, 7, 8>>), Entry(9, <<10>>), Entry(0, <<11>>)>>}

-----------------------------------------------------------------------------
Params == (1 :> [type |-> "Uint32", v |-> 9]) @@ (4 :> [type |-> "Uint32", v |-> 0])
            @@ (5 :> [type |-> "Uint64", v |-> 200])
SampleInfos == {
  [fields |-> ("uuid_data" :> <<4>>) @@ ("caption_text" :> <<5, 6>>) @@ ("scte104_data" :> <<7>>),
   params |-> <<>>],
  [fields |-> ("scte35_data" :> V(9, 0)) @@ ("timecode_index" :> <<10>>) @@ ("subtitle" :> <<11, 12>>),
   params |-> Params],
  [fields |-> ("uuid_data" :> <<1, 2, 3>>) @@ ("smpte336m" :> <<13, 14>>) @@ ("gop_poc" :> <<15, 0, 0, 0>>), params |-> <<>>],
  [fields |-> <<>>, params |-> Params]}

Ext == INSTANCE ExtData WITH Infos <- SampleInfos, Uses <- 4

-----------------------------------------------------------------------------
Section(here, s) == [here |-> here, s |-> s]

Tvu == INSTANCE Tvulive
         WITH Slots <- 2, Uses <- 5,
              Frames <- {[i_type |-> <<103, 112, 106, 0>>, u_stream_index |-> V(2, 10),
                          u_program_index |-> V(2, 20), u_frame_index |-> V(2, 30),
                          u_frame_timestamp_ms |-> V(8, 40), u_gop_poc |-> V(4, 50)]},
              Sections <- {<<>>, <<Section(TRUE, <<7, 8, 9>>), Section(TRUE, <<1, 2>>)>>,
                           <<Section(FALSE, <<3>>), Section(TRUE, <<4>>), Section(TRUE, <<5>>)>>}

-----------------------------------------------------------------------------
Lay == INSTANCE AudioLayout
         WITH Uses <- 7, Channels <- {<<>>, <<<<1, 2>>>>, <<<<3, 4>>, <<5, 6>>>>}

-----------------------------------------------------------------------------
Enc == INSTANCE EncodingData
         WITH Uses <- 5, Frames <- {[fields |-> V(26, 100), data |-> <<>>],
                                    [fields |-> V(26, 200), data |-> <<1, 1, 2>>]}

-----------------------------------------------------------------------------
SampleHead(dst, src, rate) ==
  [dst |-> dst, src |-> src, duration |-> 1, scale |-> 25, vfourcc |-> 7, afourcc |-> 8,
   channels |-> 3, depth |-> 16, samplerate |-> rate]
TimesFrom(k) == [vpts |-> k, apts |-> k + 1, spts |-> k + 2, frametype |-> 2, pic_flag |-> 3,
                 data_ct |-> k + 4, data_type |-> 5]
SampleItem(k, nv, na, n) ==
  [times |-> TimesFrom(k),
   parts |-> [video |-> V(nv, k), audio |-> V(na, k + 10), subt |-> V(n, k + 20),
              cc |-> V(2 * n, k + 30), timecode |-> V(n, k + 40), data |-> V(3 * n, k + 50)]]
ToSend(mh, mi, layout) == [mh |-> mh, mi |-> mi, layout |-> layout]
SampleItems == {
  ToSend(SampleHead(19, 4, 48000), SampleItem(100, 3, 2, 1), <<>>),
  ToSend(SampleHead(0, 0, 8000), SampleItem(200, 0, 6, 2), <<2, 3>>),
  ToSend(SampleHead(19, -1, 0), SampleItem(300, 5, 0, 0), <<>>),
  ToSend(SampleHead(0, 4, 48000), SampleItem(500, 3, 2, 1), <<>>),
  ToSend(SampleHead(19, 4, 7999), SampleItem(600, 4, 3, 1), <<2, 3>>),
  ToSend(SampleHead(19, 4, 48000), SampleItem(700, 0, 0, 0), <<>>),
  ToSend(SampleHead(19, 4, 48000), SampleItem(800, 0, 0, 0), <<2, 3>>),
  ToSend(SampleHead(19, 4, 48000), SampleItem(900, 50, 0, 0), <<>>)}

Itm == INSTANCE ItemLayout
         WITH Align <- 4, AlignRoom <- 8, SlotLength <- 76, Bases <- {0, 3},
              Messages <- SampleItems, Uses <- 3

-----------------------------------------------------------------------------
At(f, i) == [fps |-> f, index |-> i]
Frame(l, p, s) == [length |-> l, pts |-> p, stamp |-> s]
SampleFeeds == {
  [i \in 1..7 |-> Frame(9, 40 * i, IF i % 2 = 0 THEN At(0, 40 * i + 5) ELSE At(6, i))],
  [i \in 1..7 |-> Frame(9, 50 * i, IF i % 3 = 2 THEN <<>> ELSE At(6, i))],
  [i \in 1..7 |-> Frame(IF i % 4 = 3 THEN 0 ELSE 9, (50 * i) % 350, At(6, (i * 3) % 8))]}
SampleAsks == {[stamp |-> At(6, 3), pts |-> 100], [stamp |-> At(0, 130), pts |-> 250],
               [stamp |-> At(7, 1), pts |-> 150]}
SampleRates == (0 :> 1) @@ (6 :> 40)

Sch == INSTANCE ItemSearchProofs
         WITH items <- writer, handle <- reader, search <- wire, answer <- got, calls <- uses

-----------------------------------------------------------------------------
SampleCommands == <<1, 0, 2, 1, 2>>

-----------------------------------------------------------------------------
HeadOf(vbr, sar, src, dst, other) ==
  [vbr |-> vbr, sar |-> sar, src |-> src, dst |-> dst, other |-> other]
Build(version, sub, ext, variable) ==
  [version |-> version, sub |-> sub, ext |-> ext, variable |-> variable]

SampleHeads == {HeadOf(5, 1, 1, 1, 1), HeadOf(6, 1, 3, 1, 1), HeadOf(6, 1, 1, 1, 2)}
SampleBuilds == {
  Build(1, 0, FALSE, FALSE), Build(2, 0, FALSE, FALSE), Build(3, 1, FALSE, FALSE),
  Build(4, 0, FALSE, FALSE), Build(4, 0, TRUE, FALSE), Build(3, 0, FALSE, TRUE),
  Build(4, 0, TRUE, TRUE)}

-----------------------------------------------------------------------------
Init ==
  \/ unit = "control"  /\ Ctl!Init
  \/ unit = "keyvalue" /\ Kv!Init
  \/ unit = "binary"   /\ Bin!Init
  \/ unit = "subtitle" /\ Sub!Init
  \/ unit = "extdata"  /\ Ext!Init
  \/ unit = "tvulive"  /\ Tvu!Init
  \/ unit = "layout"   /\ Lay!Init
  \/ unit = "encoding" /\ Enc!Init
  \/ unit = "item"     /\ Itm!Init
  \/ unit = "search"   /\ Sch!Init /\ sent = <<>>
  \/ unit = "wrap"     /\ Wrp!Init
  \/ unit = "header"   /\ Hdr!Init
  \/ unit = "nodes"    /\ Nod!Init /\ sent = <<>>

Next ==
  \/ unit = "control"  /\ Ctl!Next /\ UNCHANGED unit
  \/ unit = "keyvalue" /\ Kv!Next  /\ UNCHANGED unit
  \/ unit = "binary"   /\ Bin!Next /\ UNCHANGED unit
  \/ unit = "subtitle" /\ Sub!Next /\ UNCHANGED unit
  \/ unit = "extdata"  /\ Ext!Next /\ UNCHANGED unit
  \/ unit = "tvulive"  /\ Tvu!Next /\ UNCHANGED unit
  \/ unit = "layout"   /\ Lay!Next /\ UNCHANGED unit
  \/ unit = "encoding" /\ Enc!Next /\ UNCHANGED unit
  \/ unit = "item"     /\ Itm!Next /\ UNCHANGED unit
  \/ unit = "search"   /\ Sch!Next /\ UNCHANGED <<unit, sent>>
  \/ unit = "wrap"     /\ Wrp!Next /\ UNCHANGED unit
  \/ unit = "header"   /\ Hdr!Next /\ UNCHANGED unit
  \/ unit = "nodes"    /\ Nod!Next /\ UNCHANGED <<unit, sent>>

Spec == Init /\ [][Next]_<<unit, writer, reader, wire, sent, got, uses>>

-----------------------------------------------------------------------------
(* A whole control message, of this version or of a later one, is read back as *)
(* the commands that were written (ControlProtocol).                           *)
ControlRoundTrip == unit = "control" => Ctl!RoundTrip

(* A control message that is cut short has no effect (ControlProtocol).        *)
ControlCutRefused == unit = "control" => Ctl!CutRefused

(* A reader has, key by key, the values that were set last, and is told when   *)
(* more is to come; a channel layout comes out of the media head as it went in, *)
(* and every integer is decoded from what it is encoded to (KeyValue).          *)
LastSetIsRead ==
  unit = "keyvalue" =>
    Kv!LastSetIsRead /\ Kv!MoreIsExpected /\ Kv!LayoutIsCarried /\ Kv!CompactRoundTrip

(* Segments come out of a binary as they went in, and a beginning of a binary   *)
(* is not taken for the whole (BinConcat).                                      *)
SegmentsAreCarried == unit = "binary" => Bin!SegmentsAreCarried /\ Bin!ShortIsNoticed

(* Subtitles are read as they were written, each shifted by every offset        *)
(* (Subtitle).                                                                  *)
EntriesAreRead == unit = "subtitle" => Sub!EntriesAreRead

(* Time stamps are shifted all, or the caller is told (Subtitle).               *)
TuningIsWhole == unit = "subtitle" => Sub!TuningIsWhole

(* Extended data of every version are read as they were written, and a part of  *)
(* them is refused (ExtData).                                                   *)
WrittenIsRead == unit = "extdata" => Ext!WrittenIsRead /\ Ext!PartIsRefused

(* A tvulive frame passes between any two versions, and frames that lack a part *)
(* are refused (Tvulive).                                                       *)
FrameIsCarried == unit = "tvulive" => Tvu!FrameIsCarried /\ Tvu!TornIsRefused

(* The binary and the channels of a layout agree, and channels are parsed as    *)
(* they were serialised (AudioLayout).                                         *)
ChannelsAreCarried == unit = "layout" => Lay!BinaryIsOfChannels /\ Lay!ChannelsAreCarried

(* "used to parse the binary to channel-layout": to its flag too (AudioLayout). *)
FlagIsCarried == unit = "layout" => Lay!FlagIsCarried

(* An encoded frame is read as it was written, or refused (EncodingData).      *)
EncodedIsRead == unit = "encoding" => Enc!FrameIsRead

(* An item is found by every reader as it was sent (ItemLayout).               *)
SentIsFound == unit = "item" => Itm!SentIsFound

(* A search finds the first item that reaches the time asked for (ItemSearch). *)
SearchFinds == unit = "search" => Sch!SearchFinds

(* What is answered with an index is the item at that index (ItemSearch).      *)
AnswerIsItem == unit = "search" => Sch!AnswerIsItem

(* Commands arrive in order, once, and all before a memory is left             *)
(* (WrapHandles).                                                              *)
CommandsArrive == unit = "wrap" => Wrp!CommandsArrive

(* A search backwards ends at the newest item wanted (WrapHandles).            *)
SearchEndsAtNewest == unit = "wrap" => Wrp!SearchEndsAtNewest

(* The header of a memory says what it was last told, whichever build asks      *)
(* (MemoryHead).                                                                *)
HeaderSaysLast == unit = "header" => Hdr!HeaderSaysLast

(* What a header has is within the header (MemoryHead).                         *)
HeaderIsWide == unit = "header" => Hdr!HeaderIsWide

(* "0 -- no reader", when there is none and only then (MemoryHead).             *)
PresenceIsTold == unit = "header" => Hdr!PresenceIsTold

(* Every node has one owner, and what was in it is destructed once (NodeMemory). *)
NodesAreOwned == unit = "nodes" => Nod!NodesAreOwned

(* "the real writing total length" of an applied item (ItemLayout).            *)
AppliedIsReal == unit = "item" => Itm!AppliedIsReal
=============================================================================
