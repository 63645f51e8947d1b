----------------------------- MODULE StrictJson -----------------------------
(***************************************************************************)
(* strictjson.DecodeReader (strictjson/strictjson.go): read the input up   *)
(* to a limit, ask for one more byte if the limit is reached, scan all     *)
(* tokens (validateTokens) and only then decode into the destination.      *)
(*                                                                         *)
(* External: the reader, and json.Decoder, whose Token checks everything   *)
(* but the end of the input, the number of values, repeated names and the  *)
(* depth.  A token stands for the bytes of its text, a unit of size; which *)
(* tokens the bytes are is chosen when they are looked at.                 *)
(***************************************************************************)
EXTENDS Integers, SequencesExt

CONSTANTS
    Names,     \* strings, as member names and as values
    MaxBytes,  \* maxBytes
    MaxDepth   \* maxNestingDepth

ASSUME NamesAssumption == Names \cap {"{", "}", "[", "]", "scalar"} = {}
ASSUME LimitsAssumption == MaxBytes \in Nat \ {0} /\ MaxDepth \in Nat

Opening == {"{", "["}
Closing == {"}", "]"}
Scalars == Names \cup {"scalar"}
JsonTokens == Opening \cup Closing \cup Scalars

VARIABLES
    phase,         \* where DecodeReader is, or its verdict
    size,          \* what the reader would deliver, were it read to its end
    left,          \* limited.N
    text,          \* the tokens scanned
    expects,       \* json.Decoder: what it expects in each open container
    frames,        \* validateTokens' frames
    rootComplete

jsonVars == <<phase, size, left, text, expects, frames, rootComplete>>
inputVars == <<size, left>>
scanVars == <<text, expects, frames, rootComplete>>

JsonVerdicts == {"ok", "tooLarge", "readError", "invalid", "duplicate", "rejected"}

JsonTypeOK ==
    /\ phase \in {"idle", "read", "probe", "scan", "decode"} \cup JsonVerdicts
    /\ size \in 0 .. MaxBytes + 1
    /\ left \in 0 .. MaxBytes
    /\ text \in Seq(JsonTokens)
    /\ expects \in Seq({"element", "key", "value"})
    /\ frames \in Seq([delimiter : Opening, seen : SUBSET Names, wantKey : BOOLEAN])
    /\ rootComplete \in BOOLEAN

JsonInit ==
    /\ phase = "idle" /\ size = 0 /\ left = 0
    /\ text = <<>> /\ expects = <<>> /\ frames = <<>> /\ rootComplete = FALSE

-----------------------------------------------------------------------------
DecodeBegin ==
    /\ phase = "idle"
    /\ phase' = "read"
    /\ size' \in 0 .. MaxBytes + 1
    /\ left' = MaxBytes
    /\ UNCHANGED scanVars

Moves(from, to) == phase = from /\ phase' = to

Received == MaxBytes - left

(* One Read of io.ReadAll through the LimitedReader.                       *)
ReadSome ==
    /\ Moves("read", "read")
    /\ left' \in {n \in 0 .. left - 1 : MaxBytes - n <= size}
    /\ UNCHANGED <<size, scanVars>>

ReadEnds ==
    /\ Moves("read", IF left = 0 THEN "probe" ELSE "scan")
    /\ left = 0 \/ Received = size
    /\ UNCHANGED <<inputVars, scanVars>>

(* The reader fails, or answers the probe with neither a byte nor an end.  *)
ReadFails ==
    /\ (left > 0 /\ Moves("read", "readError")) \/ Moves("probe", "readError")
    /\ UNCHANGED <<inputVars, scanVars>>

(* mutant: an input that fills the limit is not looked at any further.     *)
ProbeSkipped ==
    /\ Moves("probe", "scan")
    /\ UNCHANGED <<inputVars, scanVars>>

Probe ==
    /\ Moves("probe", IF size > MaxBytes THEN "tooLarge" ELSE "scan")
    /\ UNCHANGED <<inputVars, scanVars>>

-----------------------------------------------------------------------------
WithLast(s, x) == Append(Front(s), x)

(* json.Decoder.Token accepts t ...                                        *)
DecoderAccepts(t) ==
    IF expects = <<>> THEN t \notin Closing
    ELSE CASE Last(expects) = "key" -> t \in Names \cup {"}"}
           [] Last(expects) = "value" -> t \notin Closing
           [] OTHER -> t # "}"

(* ... and what it expects then.                                           *)
DecoderNext(t) ==
    LET after == IF expects # <<>> /\ Last(expects) = "value"
                 THEN WithLast(expects, "key") ELSE expects
    IN  CASE t \in Closing -> Front(expects)
          [] t = "{" -> Append(after, "key")
          [] t = "[" -> Append(after, "element")
          [] OTHER -> IF expects # <<>> /\ Last(expects) = "key"
                      THEN WithLast(expects, "value") ELSE after

-----------------------------------------------------------------------------
Complete == rootComplete /\ frames = <<>>

InObject == frames # <<>> /\ Last(frames).delimiter = "{"

AtKey == InObject /\ Last(frames).wantKey

(* The token is scanned; the scan goes on with these frames ...            *)
Keep(t, rest) ==
    /\ phase = "scan" /\ Len(text) < Received
    /\ text' = Append(text, t)
    /\ DecoderAccepts(t)
    /\ expects' = DecoderNext(t)
    /\ frames' = rest
    /\ rootComplete' = (rootComplete \/ rest = <<>>)
    /\ UNCHANGED <<phase, inputVars>>

(* ... or is over.                                                         *)
Refuse(t, verdict) ==
    /\ Len(text) < Received
    /\ Moves("scan", verdict)
    /\ text' = Append(text, t)
    /\ UNCHANGED <<inputVars, expects, frames, rootComplete>>

(* The decoder's error, or a second value.                                 *)
ScanMalformed(t) ==
    /\ ~DecoderAccepts(t) \/ Complete
    /\ Refuse(t, "invalid")

ScanKey(t) ==
    /\ AtKey /\ t \in Names
    /\ IF t \in Last(frames).seen
       THEN Refuse(t, "duplicate")
       ELSE Keep(t, WithLast(frames, [delimiter |-> "{", wantKey |-> FALSE,
                                      seen |-> Last(frames).seen \cup {t}]))

ScanClose(t) ==
    /\ t \in Closing /\ frames # <<>>
    /\ IF (Last(frames).delimiter = "{") = (t = "}")
       THEN Keep(t, Front(frames))
       ELSE Refuse(t, "invalid")

(* mutant: after a value the object does not want a key again.             *)
ValueTakenOnce == frames

(* A value in an object: its next token is a key.                          *)
ValueTaken ==
    IF InObject THEN WithLast(frames, [Last(frames) EXCEPT !.wantKey = TRUE])
                ELSE frames

ScanOpen(t) ==
    /\ t \in Opening /\ ~AtKey /\ ~Complete
    /\ IF Len(frames) = MaxDepth
       THEN Refuse(t, "invalid")
       ELSE Keep(t, Append(ValueTaken,
                           [delimiter |-> t, seen |-> {}, wantKey |-> t = "{"]))

ScanScalar(t) ==
    /\ t \in Scalars /\ ~AtKey /\ ~Complete
    /\ Keep(t, ValueTaken)

ScanEnd ==
    /\ Len(text) = Received
    /\ Moves("scan", IF Complete THEN "decode" ELSE "invalid")
    /\ UNCHANGED <<inputVars, scanVars>>

(* decoder.Decode(dst): the destination accepts the value or does not.     *)
DecodeValue ==
    /\ Moves("decode", "ok") \/ Moves("decode", "rejected")
    /\ UNCHANGED <<inputVars, scanVars>>

JsonStep ==
    \/ ReadSome \/ ReadEnds \/ ReadFails \/ Probe
    \/ \E t \in JsonTokens :
          ScanMalformed(t) \/ ScanKey(t) \/ ScanClose(t) \/ ScanOpen(t) \/ ScanScalar(t)
    \/ ScanEnd \/ DecodeValue

(* The caller has the verdict.                                             *)
DecodeReturned ==
    /\ phase \in JsonVerdicts
    /\ phase' = "idle" /\ size' = 0 /\ left' = 0
    /\ text' = <<>> /\ expects' = <<>> /\ frames' = <<>> /\ rootComplete' = FALSE
=============================================================================
