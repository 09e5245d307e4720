-------------------------- MODULE ControlProtocol --------------------------
(* The control commands (libshmmedia/src/libshmmedia_control_protocol.cpp):  *)
(* a handle that writes messages, a handle that reads them, each with a      *)
(* growing buffer it uses again and again.                                   *)
(*   writer, reader  the _oBuffer of the two handles,                        *)
(*   wire            the bytes the last successful write returned, or what   *)
(*                   became of them on the way,                              *)
(*   sent            the commands of that write, and how it travels:         *)
(*                   "same" unchanged, "later" as a later version of the     *)
(*                   writer extends it, "cut" shortened,                     *)
(*   got             what the last read returned,                            *)
(*   uses            the calls made so far.                                  *)
EXTENDS BufferCtrl

CONSTANTS Messages,   \* the sequences of commands that are written
          Uses        \* bound of the calls on the handles

VARIABLES writer, reader, wire, sent, got, uses
vars == <<writer, reader, wire, sent, got, uses>>

Nothing == [read |-> FALSE, ret |-> -1, cmds |-> <<>>]
Init ==
  /\ writer = New /\ reader = New
  /\ wire = <<>> /\ sent = [cmds |-> <<>>, way |-> "same"]
  /\ got = Nothing /\ uses = 0

-----------------------------------------------------------------------------
(* Writing.  Every step takes and returns [ok, b].                           *)

(* A length below 255 is one byte; 255 says that more follows.               *)
LengthBytes(n) == [i \in 1..n \div 255 + 1 |-> IF i <= n \div 255 THEN 255 ELSE n % 255]

SetLength(b, n) == PushData(b, LengthBytes(n))

(* The place of a length written before is overwritten, then left.           *)
Patch(b, at, s) ==
  Then(PushData(Seek(b, at), s), LAMBDA p : [ok |-> TRUE, b |-> Seek(p, b.cur)])

(* The bytes `extra` follow the parameters this version knows.               *)
WriteParams(b, fields, extra) ==
  With(<<0>> \o FlattenSeq(fields) \o extra, LAMBDA body :
    Then(Then(SetLength(b, 0), LAMBDA begun : PushData(begun, body)), LAMBDA w :
      [Patch(w, b.cur, LengthBytes(Len(body) + 1)) EXCEPT !.ok = @ /\ Len(body) + 1 < 255]))

WriteInsertKeyFrame(b, p, x) == WriteParams(b, <<p.u_program_index>>, x)
WriteChangeBitrate(b, p, x) == WriteParams(b, <<p.u_vbitrate, p.u_abitrate>>, x)
WriteChangeResolution(b, p, x) == WriteParams(b, <<p.u_width, p.u_height>>, x)
WriteChangeProgramBitrate(b, p, x) ==
  WriteParams(b, <<p.u_programIndex, p.u_vbitrate, p.u_abitrate>>, x)
WriteChangeAudioParams(b, p, x) ==
  WriteParams(b, <<p.u_audio_only, p.u_aac_profile, p.u_tracks_layout>>, x)
WriteChangeDelayParams(b, p, x) == WriteParams(b, <<p.u_delay_ms>>, x)
WriteSendAudioVolumes(b, p, x) ==
  WriteParams(b, <<<<Len(p.u_volume)>>>> \o p.u_volume, x)
WriteStartLive(b, p, x) ==
  WriteParams(b, <<p.u_program_index, p.b_vbr, p.u_video_bit_rate, p.u_audio_bit_rate,
                   p.u_video_codec_fourcc, p.u_audio_codec_fourcc,
                   p.u_audio_tracks_layout>>, x)
WriteStopLive(b, p, x) == WriteParams(b, <<p.u_program_index>>, x)
WriteGetCameras(b, p, x) ==
  WriteParams(b, <<p.u_index, p.u_video_connection, p.u_audio_connection, p.u_video_fmt>>, x)
(* The length of this one is the text's: nothing can follow it.              *)
WriteCommonJson(b, p) ==
  Then(PushData(b, Digits(0, 4) \o Digits(0, 4) \o p.p_json), LAMBDA w :
    Patch(w, b.cur, Digits(8 + Len(p.p_json), 4)))

WriteCommand(b, c, x) ==
  CASE c.type = "InsertKF"           -> WriteInsertKeyFrame(b, c.params, x)
    [] c.type = "ChangeBitRate"      -> WriteChangeBitrate(b, c.params, x)
    [] c.type = "ChangeResolution"   -> WriteChangeResolution(b, c.params, x)
    [] c.type = "ChangeProgramBitRate" -> WriteChangeProgramBitrate(b, c.params, x)
    [] c.type = "ChangeAudioParams"  -> WriteChangeAudioParams(b, c.params, x)
    [] c.type = "ChangeDelayParams"  -> WriteChangeDelayParams(b, c.params, x)
    [] c.type = "SendAudioVolume"    -> WriteSendAudioVolumes(b, c.params, x)
    [] c.type = "StartProgLive"      -> WriteStartLive(b, c.params, x)
    [] c.type = "StopProgLive"       -> WriteStopLive(b, c.params, x)
    [] c.type = "Cameras"            -> WriteGetCameras(b, c.params, x)
    [] c.type = "CommonJson"         -> WriteCommonJson(b, c.params)
    [] OTHER                         -> [ok |-> FALSE, b |-> b]

(* enum ELibTvuMediaControlCommandType, in its order.                        *)
Types == <<"InsertKF", "ChangeBitRate", "ChangeResolution", "ChangeProgramBitRate",
           "ChangeAudioParams", "ChangeDelayParams", "SendAudioVolume", "StartProgLive",
           "StopProgLive", "Cameras", "CommonJson">>
TypeCode(t) == SelectInSeq(Types, LAMBDA u : u = t)

(* Command length, reserve, type, offset of the parameters, parameters.  A    *)
(* later version puts `gap` bytes before the parameters.                      *)
WriteBody(b, c, gap, extra) ==
  With(Digits(0, 4) \o <<0>> \o Digits(TypeCode(c.type), 4), LAMBDA head :
    Then(Then(PushData(b, head \o LengthBytes(Len(head) + 1 + Len(gap)) \o gap),
              LAMBDA h : WriteCommand(h, c, extra)),
         LAMBDA w : Patch(w, b.cur, Digits(w.cur - b.cur, 4))))

ProtocolV1 == 1
WriteMessage(b0, cmds, gap, extra) ==
  FoldLeft(LAMBDA r, c : Then(r, LAMBDA b : WriteBody(b, c, gap, extra)),
           PushData(Seek(b0, 0), <<ProtocolV1>> \o LengthBytes(Len(cmds))), cmds)

(* LibTvuMediaControlHandleWrite: the returned pointer is the buffer's own.  *)
Write(cmds) ==
  LET r == WriteMessage(writer, cmds, <<>>, <<>>) IN
  /\ uses < Uses /\ uses' = uses + 1
  /\ writer' = r.b
  /\ wire' = IF r.ok THEN SubSeq(r.b.mem, 1, r.b.cur) ELSE <<>>
  /\ sent' = [cmds |-> IF r.ok THEN cmds ELSE <<>>, way |-> "same"]
  /\ got' = Nothing
  /\ UNCHANGED reader

(* The peer runs a later version: its offsets and parameters are longer.     *)
PeerWrites(cmds) ==
  LET r == WriteMessage(New, cmds, <<7>>, <<8, 9>>) IN
  /\ uses < Uses /\ uses' = uses + 1 /\ r.ok
  /\ wire' = SubSeq(r.b.mem, 1, r.b.cur)
  /\ sent' = [cmds |-> cmds, way |-> "later"]
  /\ got' = Nothing
  /\ UNCHANGED <<writer, reader>>

(* What a caller that has only a part of the message hands to the reader.    *)
Cut(n) ==
  /\ sent.way = "same" /\ n < Len(wire)
  /\ wire' = SubSeq(wire, 1, n)
  /\ sent' = [sent EXCEPT !.way = "cut"]
  /\ got' = Nothing
  /\ UNCHANGED <<writer, reader, uses>>

-----------------------------------------------------------------------------
(* Reading.  Every step returns [ret, b, p]: ret < 0 is a failure, else the  *)
(* length of what was read.                                                  *)

(* The length, the bytes it takes, and the buffer after it: the bytes of     *)
(* value 255 that come first, and one more.                                  *)
LengthSize(left) ==
  With(SelectInSeq(left, LAMBDA x : x # 255), LAMBDA k : IF k = 0 THEN Len(left) + 1 ELSE k)

GetLength(b) ==
  With(R8s(b, LengthSize(R8s(b, LeftLen(b)).v)), LAMBDA r :
    [v |-> FoldLeft(LAMBDA s, x : s + x, 0, r.v), size |-> Len(r.v), b |-> r.b])

Failed(b) == [ret |-> -1, b |-> b, p |-> <<>>]

(* fields: the names and widths of the parameters, in the order of the bytes. *)
ReadFields(b, fields) ==
  FoldLeft(LAMBDA r, f : LET v == RBe(r.b, f[2]) IN [b |-> v.b, p |-> (f[1] :> v.v) @@ r.p],
           [b |-> b, p |-> <<>>], fields)

Width(fields) == FoldLeft(LAMBDA n, f : n + f[2], 0, fields)

(* A command may be cut anywhere: mutant of WithinLimits.                     *)
WithinLimitsNever(len, r, offset, left) == [ret |-> len.v, b |-> r.b, p |-> r.p]

(* What follows the parameters up to the length is skipped.                   *)
WithinLimits(len, r, offset, left) ==
  IF len.v > left THEN Failed(len.b)
  ELSE IF offset > len.v THEN Failed(r.b)
  ELSE [ret |-> len.v, b |-> ReadSkip(r.b, len.v - offset), p |-> r.p]

ReadParams(b, left, fields) ==
  With(GetLength(b), LAMBDA len :
    WithinLimits(len, ReadFields(ReadSkip(len.b, 1), fields), len.size + 1 + Width(fields), left))

ReadInsertKeyFrame(b, left) == ReadParams(b, left, <<<<"u_program_index", 1>>>>)
ReadChangeBitrate(b, left) ==
  ReadParams(b, left, <<<<"u_vbitrate", 4>>, <<"u_abitrate", 4>>>>)
ReadChangeResolution(b, left) ==
  ReadParams(b, left, <<<<"u_width", 2>>, <<"u_height", 2>>>>)
ReadChangeProgramBitrate(b, left) ==
  ReadParams(b, left, <<<<"u_programIndex", 1>>, <<"u_vbitrate", 4>>, <<"u_abitrate", 4>>>>)
ReadChangeAudioParams(b, left) ==
  ReadParams(b, left, <<<<"u_audio_only", 1>>, <<"u_aac_profile", 1>>,
                        <<"u_tracks_layout", 8>>>>)
ReadChangeDelayParams(b, left) == ReadParams(b, left, <<<<"u_delay_ms", 4>>>>)
ReadStartLive(b, left) ==
  ReadParams(b, left, <<<<"u_program_index", 4>>, <<"b_vbr", 1>>, <<"u_video_bit_rate", 4>>,
                        <<"u_audio_bit_rate", 4>>, <<"u_video_codec_fourcc", 4>>,
                        <<"u_audio_codec_fourcc", 4>>, <<"u_audio_tracks_layout", 8>>>>)
ReadStopLive(b, left) == ReadParams(b, left, <<<<"u_program_index", 4>>>>)
ReadGetCameras(b, left) ==
  ReadParams(b, left, <<<<"u_index", 1>>, <<"u_video_connection", 1>>,
                        <<"u_audio_connection", 1>>, <<"u_video_fmt", 4>>>>)

(* At most 32 volumes are read, whatever the message says.                   *)
MaxVolumes == 32
Volumes(r, k) ==
  [b |-> r.b, p |-> [u_volume |-> [i \in 1..k |-> SubSeq(r.v, 2 * i - 1, 2 * i)]]]
ReadSendAudioVolumes(b, left) ==
  With(GetLength(b), LAMBDA len :
    With(R8(ReadSkip(len.b, 1)), LAMBDA n :
      With(Min({n.v, MaxVolumes}), LAMBDA k :
        WithinLimits(len, Volumes(RBe(n.b, 2 * k), k), len.size + 2 + 2 * k, left))))

(* The text is not copied: p_json points into the reader's buffer.           *)
ReadCommonJson(b, left) ==
  With(RBe(b, 4), LAMBDA len :
    With(ReadSkip(len.b, 4), LAMBDA r :
      With(Number(len.v), LAMBDA n :
        IF n > left \/ n < 8 THEN Failed(r)
        ELSE [ret |-> n, b |-> ReadSkip(r, n - 8), p |-> [at |-> r.cur, len |-> n - 8]])))

ReadCommand(b, t, left) ==
  CASE t = "InsertKF"          -> ReadInsertKeyFrame(b, left)
    [] t = "ChangeBitRate"     -> ReadChangeBitrate(b, left)
    [] t = "ChangeResolution"  -> ReadChangeResolution(b, left)
    [] t = "ChangeProgramBitRate" -> ReadChangeProgramBitrate(b, left)
    [] t = "ChangeAudioParams" -> ReadChangeAudioParams(b, left)
    [] t = "ChangeDelayParams" -> ReadChangeDelayParams(b, left)
    [] t = "SendAudioVolume"   -> ReadSendAudioVolumes(b, left)
    [] t = "StartProgLive"     -> ReadStartLive(b, left)
    [] t = "StopProgLive"      -> ReadStopLive(b, left)
    [] t = "Cameras"           -> ReadGetCameras(b, left)
    [] t = "CommonJson"        -> ReadCommonJson(b, left)
    [] OTHER                   -> Failed(b)

TypeOf(code) == IF code \in DOMAIN Types THEN Types[code] ELSE "unknown"

(* Lengths are unsigned: a negative rest is larger than any of them.         *)
Unsigned(n) == IF n < 0 THEN Largest ELSE n

(* The offset of the parameters is read and not followed: mutant of Offset.   *)
OffsetInPlace(start, off) == off.b

Offset(start, off) == Seek(off.b, start + off.v)

(* The command length is read and not used.                                  *)
ReadBody(b, left) ==
  With(RBe(ReadSkip(RBe(b, 4).b, 1), 4), LAMBDA type :
    IF 9 >= Unsigned(left) THEN Failed(type.b)
    ELSE With(TypeOf(Number(type.v)), LAMBDA t :
      With(GetLength(type.b), LAMBDA off :
        With(ReadCommand(Offset(b.cur, off), t, Unsigned(left - off.v)), LAMBDA r :
          IF r.ret < 0 THEN r
          ELSE [r EXCEPT !.ret = off.v + @, !.p = [type |-> t, params |-> @]]))))

Refused(b) == [ret |-> -1, b |-> b, cmds |-> <<>>]

ReadBodies(counts, size) ==
  LET step(r, i) ==
        IF r.ret < 0 THEN r
        ELSE With(ReadBody(r.b, size - r.ret), LAMBDA body :
          IF body.ret < 0 THEN Refused(body.b)
          ELSE [ret |-> r.ret + body.ret, b |-> body.b, cmds |-> Append(r.cmds, body.p)])
  IN  FoldLeft(step, [ret |-> 1 + counts.size, b |-> counts.b, cmds |-> <<>>],
               [i \in 1..counts.v |-> i])

(* CLibTvuMediaControlDataInternalContext::read: the message is copied over  *)
(* the one before, and parsed from the copy.                                 *)
ReadMessage(b0, s) ==
  With(PushData(Seek(b0, 0), s), LAMBDA in :
    IF ~in.ok THEN Refused(in.b)
    ELSE With(R8(Seek(in.b, 0)), LAMBDA version :
      IF version.v # ProtocolV1 THEN Refused(version.b)
      ELSE ReadBodies(GetLength(version.b), Len(s))))

Read ==
  LET r == ReadMessage(reader, wire) IN
  /\ uses < Uses /\ uses' = uses + 1
  /\ wire # <<>>
  /\ reader' = r.b
  /\ got' = [read |-> TRUE, ret |-> r.ret, cmds |-> r.cmds]
  /\ UNCHANGED <<writer, wire, sent>>

(* LibTvuMediaControlHandleDestory, and a handle made anew.                  *)
Recreate ==
  /\ uses < Uses /\ uses' = uses + 1
  /\ writer' = Release(writer) /\ reader' = Release(reader)
  /\ wire' = <<>> /\ sent' = [cmds |-> <<>>, way |-> "same"] /\ got' = Nothing

Next == \/ \E m \in Messages : Write(m) \/ PeerWrites(m)
        \/ \E n \in {2, 8, 11, 12, 13} : Cut(n)
        \/ Read
        \/ Recreate
Spec == Init /\ [][Next]_vars

-----------------------------------------------------------------------------
(* What a caller sees of a command it got: the text through the pointer.     *)
Seen(c) ==
  IF c.type # "CommonJson" THEN c
  ELSE [type |-> c.type,
        params |-> [p_json |-> BytesAt(reader, c.params.at, c.params.len)]]

(* Whatever the two handles wrote and read before, a whole message, of this   *)
(* version or of a later one, is read back to its last byte as the commands   *)
(* that were written: until the write position of the reader, which grows by   *)
(* the length of every message and is never reset, has run over.              *)
RoundTrip ==
  got.read /\ sent.way # "cut" /\ reader.pos >= Len(wire)
    => got.ret = Len(wire) /\ [i \in DOMAIN got.cmds |-> Seen(got.cmds[i])] = sent.cmds

(* Of a message that was cut short no command is acted upon, although the      *)
(* reader's buffer still holds what an earlier message left behind its end.    *)
CutRefused == got.read /\ sent.way = "cut" => got.ret < 0
=============================================================================
