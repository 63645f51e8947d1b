----------------------------- MODULE OidcProofs -----------------------------
(***************************************************************************)
(* The safety of the verifier for any tokens, configurations, rotations    *)
(* and numbers of overlapping calls, and of the scanner its discovery      *)
(* reads with, for any input, limit and depth.                             *)
(***************************************************************************)
EXTENDS OidcDiscovery, SequenceTheorems, TLAPS

(* A call that got past go-oidc's own checks has a token that passed them, *)
(* and has not begun to count as steady earlier.                           *)
CallsBegun ==
    \A c \in Calls :
       /\ pc[c] \in Pending \cup {"audience", "party", "accepted"}
             => token[c] \in Tokens /\ token[c].valid
       /\ pc[c] = "invalid" => token[c] \in Tokens
       /\ pc[c] = "idle" => c \notin steady

(* The provider has published every key it is said to have.                *)
KeysReal ==
    /\ published \subseteq 1 .. newest
    /\ \A c \in Calls : pc[c] \in {"claims", "accepted"} => key[c] \in Keys

(* A steady call's key is published, and was when the call asked.          *)
SteadyKey ==
    \A c \in steady :
       /\ pc[c] \in Pending => key[c] \in published
       /\ pc[c] \in {"response", "match"} => key[c] \in fetched[c]

OidcInv ==
    /\ VerifierTypeOK
    /\ CallsBegun
    /\ KeysReal
    /\ SteadyKey
    /\ StoppedForGood
    /\ AcceptedMeetsPolicy
    /\ CurrentKeyAccepted

-----------------------------------------------------------------------------
(* Verify's own checks, in their order, come to the policy.                *)
LEMMA VerdictIsPolicy ==
  ASSUME config \in Configs, NEW t \in Tokens, t.valid
  PROVE  Verdict(t) = "accepted" <=> Policy(t)
<1>1. /\ t.aud \in Seq(Clients) /\ t.azp \in Clients \cup Unusable
      /\ config.audiences \subseteq Clients /\ config.parties \subseteq Clients
      /\ Clients \cap Unusable = {}
  BY TokensAssumption, ConfigsAssumption
<1>2. AuthorizedParties \cap Unusable = {}
  BY <1>1 DEF AuthorizedParties
<1>3. Len(t.aud) \in Nat /\ DOMAIN t.aud = 1 .. Len(t.aud)
  BY <1>1
<1>4. ASSUME Verdict(t) = "accepted" PROVE Policy(t)
  <2>1. t.subject /\ MatchesAny(t.aud)
    BY <1>4 DEF Verdict
  <2>2. t.azp \in AuthorizedParties \/ (t.azp = "absent" /\ ~(Len(t.aud) > 1))
    BY <1>4 DEF Verdict
  <2>3. Len(t.aud) >= 1
    BY <1>3, <2>1 DEF MatchesAny
  <2>4. t.azp = "absent" => Len(t.aud) = 1
    <3>1. \A n \in Nat : n >= 1 /\ ~(n > 1) => n = 1
      OBVIOUS
    <3>2. t.azp = "absent" => ~(Len(t.aud) > 1)
      BY <1>2, <2>2 DEF Unusable
    <3> QED
      BY <1>3, <2>3, <3>1, <3>2
  <2>5. t.azp \in AuthorizedParties =>
           t.azp \in config.parties \/ (config.parties = {} /\ t.azp \in config.audiences)
    BY DEF AuthorizedParties
  <2>6. {t.aud[i] : i \in DOMAIN t.aud} \cap config.audiences # {}
    BY <2>1 DEF MatchesAny
  <2> QED
    BY <2>1, <2>2, <2>4, <2>5, <2>6 DEF Policy
<1>5. ASSUME Policy(t) PROVE Verdict(t) = "accepted"
  <2>1. t.subject /\ MatchesAny(t.aud)
    BY <1>5 DEF Policy, MatchesAny
  <2>2. t.azp \in AuthorizedParties \/ (Len(t.aud) = 1 /\ t.azp = "absent")
    BY <1>5 DEF Policy, AuthorizedParties
  <2>3. CASE t.azp \in AuthorizedParties
    <3>1. t.azp # "absent" /\ t.azp # "malformed"
      BY <1>2, <2>3 DEF Unusable
    <3> QED
      BY <2>1, <2>3, <3>1 DEF Verdict
  <2>4. CASE Len(t.aud) = 1 /\ t.azp = "absent"
    <3>1. ~(Len(t.aud) > 1)
      BY <2>4
    <3> QED
      BY <2>1, <2>4, <3>1 DEF Verdict
  <2> QED
    BY <2>2, <2>3, <2>4
<1> QED
  BY <1>4, <1>5

(* Nothing has begun.                                                      *)
LEMMA OidcInit == Init => OidcInv
<1> SUFFICES ASSUME Init PROVE OidcInv
  OBVIOUS
<1>1. VerifierTypeOK
  <2>1. 1 \in Keys
    BY KeysAssumption DEF Keys
  <2> QED
    BY <2>1 DEF Init, VerifierInit, VerifierTypeOK
<1>2. CallsBegun /\ AcceptedMeetsPolicy
  BY DEF Init, VerifierInit, CallsBegun, AcceptedMeetsPolicy, Pending
<1>3. KeysReal /\ SteadyKey /\ CurrentKeyAccepted
  BY DEF Init, VerifierInit, KeysReal, SteadyKey, CurrentKeyAccepted
<1> QED
  BY <1>1, <1>2, <1>3 DEF Init, VerifierInit, OidcInv, StoppedForGood

(* The steps of Start and Stop.                                            *)
LEMMA LifeStep ==
  ASSUME OidcInv, UNCHANGED <<config, provider, cache, callVars>>,
         {started', stopped', ready'} \subseteq BOOLEAN,
         start' \in [Starts -> {"idle", "discover", "decode", "publish", "returned"}],
         StoppedForGood'
  PROVE  OidcInv'
BY DEF OidcInv, VerifierTypeOK, CallsBegun, KeysReal, SteadyKey, AcceptedMeetsPolicy,
       CurrentKeyAccepted, Policy, provider, callVars

(* Every step of a verification.                                           *)
LEMMA CallStep ==
  ASSUME OidcInv, NEW c \in Calls, VerifyStep(c)
  PROVE  OidcInv'
<1> USE KeysAssumption
    DEF OidcInv, VerifierTypeOK, CallsBegun, KeysReal, SteadyKey, StoppedForGood,
        AcceptedMeetsPolicy, CurrentKeyAccepted, Policy, Pending, Verdicts, Keys, Goes,
        lifeVars, provider
<1>1. CASE VerifyBegin(c)
  BY <1>1 DEF VerifyBegin
<1>2. CASE TryCache(c)
  BY <1>2 DEF TryCache
<1>3. CASE FetchAnswer(c)
  BY <1>3 DEF FetchAnswer
<1>4. CASE FetchFails(c)
  BY <1>4 DEF FetchFails
<1>5. CASE StoreKeys(c)
  BY <1>5 DEF StoreKeys
<1>6. CASE TryFetched(c)
  BY <1>6 DEF TryFetched
<1>7. CASE CheckClaims(c)
  <2>1. Verdict(token[c]) = "accepted" <=> Policy(token[c])
    BY <1>7, VerdictIsPolicy DEF CheckClaims
  <2>2. Verdict(token[c]) \in Verdicts
    BY DEF Verdict
  <2> QED
    BY <1>7, <2>1, <2>2 DEF CheckClaims
<1> QED
  BY <1>1, <1>2, <1>3, <1>4, <1>5, <1>6, <1>7 DEF VerifyStep

(* Every step of the verifier and the provider.                            *)
LEMMA OidcStep == OidcInv /\ [Next]_vars => OidcInv'
<1> SUFFICES ASSUME OidcInv, [Next]_vars PROVE OidcInv'
  OBVIOUS
<1>1. ASSUME NEW c \in Starts, Discovering(c) PROVE OidcInv'
  <2>1. CASE StartDiscover(c)
    BY <2>1, LifeStep DEF StartDiscover, OidcInv, VerifierTypeOK, StoppedForGood
  <2>2. CASE UNCHANGED verifierVars
    BY <2>2, LifeStep DEF verifierVars, lifeVars, OidcInv, VerifierTypeOK, StoppedForGood
  <2>3. CASE StartDecoded(c, phase = "ok")
    BY <2>3, LifeStep DEF StartDecoded, OidcInv, VerifierTypeOK, StoppedForGood
  <2> QED
    BY <1>1, <2>1, <2>2, <2>3 DEF Discovering
<1>2. ASSUME NEW c \in Starts, StartBegin(c) PROVE OidcInv'
  BY <1>2, LifeStep DEF StartBegin, OidcInv, VerifierTypeOK, StoppedForGood
<1>3. ASSUME NEW c \in Starts, StartPublish(c) PROVE OidcInv'
  BY <1>3, LifeStep DEF StartPublish, OidcInv, VerifierTypeOK, StoppedForGood
<1>4. CASE Stop
  BY <1>4, LifeStep DEF Stop, OidcInv, VerifierTypeOK, StoppedForGood
<1>5. ASSUME NEW c \in Calls, VerifyStep(c) PROVE OidcInv'
  BY <1>5, CallStep
<1>6. CASE Rotate
  BY <1>6, KeysAssumption DEF Rotate, OidcInv, VerifierTypeOK, CallsBegun, KeysReal, SteadyKey,
     StoppedForGood, AcceptedMeetsPolicy, CurrentKeyAccepted, Policy, Pending, Verdicts, Keys,
     lifeVars
<1>7. CASE UNCHANGED vars
  BY <1>7, LifeStep DEF vars, verifierVars, lifeVars, OidcInv, VerifierTypeOK, StoppedForGood
<1> QED
  BY <1>1, <1>2, <1>3, <1>4, <1>5, <1>6, <1>7 DEF Next

(* The invariant holds throughout.                                         *)
LEMMA OidcSafe == Spec => []OidcInv
BY OidcInit, OidcStep, PTL DEF Spec

(* Stop is final, also for a Start that was waiting for discovery.         *)
THEOREM StopIsFinal == Spec => []StoppedForGood
BY OidcSafe, PTL DEF OidcInv

(* No token outside the policy, and none the provider has not signed, is   *)
(* accepted.                                                               *)
THEOREM OnlyPolicyTokens == Spec => []AcceptedMeetsPolicy
BY OidcSafe, PTL DEF OidcInv

(* A token within the policy is not refused because of what other calls or *)
(* older responses do to the cache.                                        *)
THEOREM GoodTokensAccepted == Spec => []CurrentKeyAccepted
BY OidcSafe, PTL DEF OidcInv
-----------------------------------------------------------------------------
(* What has been read and scanned at each place of DecodeReader.           *)
Reading ==
    /\ phase \in {"idle", "read", "probe"}
          => text = <<>> /\ expects = <<>> /\ frames = <<>> /\ ~rootComplete
    /\ phase = "read" => Received <= size
    /\ phase = "probe" => left = 0 /\ MaxBytes <= size
    /\ phase = "scan" => size <= MaxBytes /\ Received = size /\ Len(text) <= size

(* frames and the decoder's own stack tell the same of each container.     *)
Paired(f, e) ==
    /\ Len(f) = Len(e)
    /\ \A i \in 1 .. Len(f) :
          /\ (f[i].delimiter = "[") <=> (e[i] = "element")
          /\ f[i].wantKey <=> (e[i] = "key")

(* DecodeReader decodes only what fits the limit, has been scanned to its  *)
(* end, and is one value with every container closed; and no scan nests    *)
(* deeper than maxNestingDepth.                                            *)
DecodedIsWhole ==
    /\ phase \in {"decode", "ok", "rejected"}
          => /\ size <= MaxBytes /\ Len(text) = size
             /\ rootComplete /\ frames = <<>> /\ expects = <<>>
    /\ Len(frames) <= MaxDepth

(* A token that json.Decoder returns is never one of those validateTokens  *)
(* has an error of its own for: a delimiter that closes nothing or the     *)
(* wrong container, or a member name that is not a string.                 *)
ScannerFollowsDecoder ==
    phase = "scan" =>
       \A t \in JsonTokens : DecoderAccepts(t) =>
          /\ t \in Closing => frames # <<>> /\ (Last(frames).delimiter = "{") = (t = "}")
          /\ AtKey => t \in Names \cup {"}"}

(* The entries of the two stacks.                                          *)
Frames == [delimiter : Opening, seen : SUBSET Names, wantKey : BOOLEAN]
Expectations == {"element", "key", "value"}

(* DecodeReader's invariant.                                               *)
JsonInv ==
    /\ JsonTypeOK
    /\ Reading
    /\ Paired(frames, expects)
    /\ DecodedIsWhole

(* All of a sequence but its last.                                         *)
LEMMA FrontOf ==
  ASSUME NEW S, NEW seq \in Seq(S), seq # <<>>
  PROVE  /\ Len(seq) \in Nat \ {0}
         /\ Last(seq) \in S
         /\ Front(seq) \in Seq(S)
         /\ Len(Front(seq)) = Len(seq) - 1
         /\ \A i \in 1 .. Len(seq) - 1 : Front(seq)[i] = seq[i]
<1>1. Len(seq) \in Nat \ {0}
  BY EmptySeq
<1>2. \A i \in 1 .. Len(seq) : seq[i] \in S
  BY ElementOfSeq
<1>3. \A i \in 1 .. Len(seq) - 1 : seq[i] \in S
  BY <1>1, <1>2
<1>4. /\ Front(seq) \in Seq(S)
      /\ Len(Front(seq)) = IF 1 <= Len(seq) - 1 THEN Len(seq) - 1 - 1 + 1 ELSE 0
      /\ \A i \in 1 .. Len(seq) - 1 - 1 + 1 : Front(seq)[i] = seq[1 + i - 1]
  BY <1>1, <1>3, SubSeqProperties DEF Front
<1>5. Len(Front(seq)) = Len(seq) - 1
  <2>1. \A n \in Nat \ {0} : (IF 1 <= n - 1 THEN n - 1 - 1 + 1 ELSE 0) = n - 1
    OBVIOUS
  <2> QED
    BY <1>1, <1>4, <2>1
<1>6. Last(seq) \in S
  BY <1>1, <1>2 DEF Last
<1>7. ASSUME NEW i \in 1 .. Len(seq) - 1 PROVE Front(seq)[i] = seq[i]
  BY <1>1, <1>4
<1> QED
  BY <1>1, <1>4, <1>5, <1>6, <1>7

(* A container opened, with a frame that fits what the decoder expects.    *)
LEMMA PairPush ==
  ASSUME NEW f \in Seq(Frames), NEW e \in Seq(Expectations), Paired(f, e),
         NEW r \in Frames, NEW x \in Expectations,
         (r.delimiter = "[") <=> (x = "element"), r.wantKey <=> (x = "key")
  PROVE  /\ Append(f, r) \in Seq(Frames) /\ Append(e, x) \in Seq(Expectations)
         /\ Paired(Append(f, r), Append(e, x))
         /\ Len(Append(f, r)) = Len(f) + 1
<1>1. /\ Append(f, r) \in Seq(Frames) /\ Len(Append(f, r)) = Len(f) + 1
      /\ \A i \in 1 .. Len(f) : Append(f, r)[i] = f[i]
      /\ Append(f, r)[Len(f) + 1] = r
  BY AppendProperties
<1>2. /\ Append(e, x) \in Seq(Expectations) /\ Len(Append(e, x)) = Len(e) + 1
      /\ \A i \in 1 .. Len(e) : Append(e, x)[i] = e[i]
      /\ Append(e, x)[Len(e) + 1] = x
  BY AppendProperties
<1>3. Len(f) \in Nat /\ Len(e) = Len(f)
  BY LenProperties DEF Paired
<1>4. ASSUME NEW i \in 1 .. Len(f) + 1
      PROVE  /\ (Append(f, r)[i].delimiter = "[") <=> (Append(e, x)[i] = "element")
             /\ Append(f, r)[i].wantKey <=> (Append(e, x)[i] = "key")
  <2>1. CASE i = Len(f) + 1
    BY <1>1, <1>2, <1>3, <2>1
  <2>2. CASE i \in 1 .. Len(f)
    BY <1>1, <1>2, <1>3, <2>2 DEF Paired
  <2> QED
    BY <1>3, <2>1, <2>2
<1> QED
  BY <1>1, <1>2, <1>3, <1>4 DEF Paired

(* A container closed.                                                     *)
LEMMA PairPop ==
  ASSUME NEW f \in Seq(Frames), NEW e \in Seq(Expectations), Paired(f, e), f # <<>>
  PROVE  /\ Front(f) \in Seq(Frames) /\ Front(e) \in Seq(Expectations)
         /\ Paired(Front(f), Front(e))
         /\ Len(Front(f)) + 1 = Len(f)
<1>1. /\ Len(f) \in Nat \ {0} /\ Front(f) \in Seq(Frames) /\ Len(Front(f)) = Len(f) - 1
      /\ \A i \in 1 .. Len(f) - 1 : Front(f)[i] = f[i]
  BY FrontOf
<1>2. Len(e) = Len(f) /\ e # <<>>
  BY <1>1, EmptySeq DEF Paired
<1>3. /\ Front(e) \in Seq(Expectations) /\ Len(Front(e)) = Len(e) - 1
      /\ \A i \in 1 .. Len(e) - 1 : Front(e)[i] = e[i]
  BY <1>2, FrontOf
<1>4. ASSUME NEW i \in 1 .. Len(Front(f))
      PROVE  /\ (Front(f)[i].delimiter = "[") <=> (Front(e)[i] = "element")
             /\ Front(f)[i].wantKey <=> (Front(e)[i] = "key")
  <2>1. i \in 1 .. Len(f) - 1 /\ i \in 1 .. Len(f) /\ i \in 1 .. Len(e) - 1
    BY <1>1, <1>2
  <2>2. Front(f)[i] = f[i] /\ Front(e)[i] = e[i]
    BY <1>1, <1>3, <2>1
  <2> QED
    BY <2>1, <2>2 DEF Paired
<1> QED
  BY <1>1, <1>2, <1>3, <1>4 DEF Paired

(* The innermost container, with a frame that fits what is expected next.  *)
LEMMA PairTop ==
  ASSUME NEW f \in Seq(Frames), NEW e \in Seq(Expectations), Paired(f, e), f # <<>>,
         NEW r \in Frames, NEW x \in Expectations,
         (r.delimiter = "[") <=> (x = "element"), r.wantKey <=> (x = "key")
  PROVE  /\ WithLast(f, r) \in Seq(Frames) /\ WithLast(e, x) \in Seq(Expectations)
         /\ Paired(WithLast(f, r), WithLast(e, x))
         /\ Len(WithLast(f, r)) = Len(f)
BY PairPop, PairPush DEF WithLast

(* The innermost container, as the scanner and as the decoder know it.     *)
LEMMA Innermost ==
  ASSUME NEW f \in Seq(Frames), NEW e \in Seq(Expectations), Paired(f, e)
  PROVE  /\ f = <<>> <=> e = <<>>
         /\ f # <<>> => /\ Last(f) \in Frames /\ Last(e) \in Expectations
                        /\ (Last(f).delimiter = "[") <=> (Last(e) = "element")
                        /\ Last(f).wantKey <=> (Last(e) = "key")
<1>1. f # <<>> <=> Len(f) # 0
  BY EmptySeq
<1>2. e # <<>> <=> Len(e) # 0
  BY EmptySeq
<1>3. Len(f) = Len(e) /\ Len(f) \in Nat
  BY LenProperties DEF Paired
<1>4. ASSUME f # <<>>
      PROVE  /\ Last(f) \in Frames /\ Last(e) \in Expectations
             /\ (Last(f).delimiter = "[") <=> (Last(e) = "element")
             /\ Last(f).wantKey <=> (Last(e) = "key")
  <2>1. Last(f) \in Frames /\ Last(e) \in Expectations
    BY <1>1, <1>2, <1>3, <1>4, FrontOf
  <2>2. Len(f) \in 1 .. Len(f)
    BY <1>1, <1>3, <1>4
  <2> QED
    BY <1>3, <2>1, <2>2 DEF Last, Paired
<1> QED
  BY <1>1, <1>2, <1>3, <1>4

(* After a value, the object it is in and the decoder want a key.          *)
LEMMA PairValue ==
  ASSUME NEW t \in Opening \cup Scalars, JsonTypeOK, Paired(frames, expects),
         ~AtKey
  PROVE  LET after == IF expects # <<>> /\ Last(expects) = "value"
                      THEN WithLast(expects, "key") ELSE expects
         IN  /\ ValueTaken \in Seq(Frames) /\ after \in Seq(Expectations)
             /\ Paired(ValueTaken, after)
             /\ Len(ValueTaken) = Len(frames)
             /\ (frames = <<>>) <=> (ValueTaken = <<>>)
             /\ expects # <<>> => Last(expects) # "key"
<1> USE DEF Frames, Expectations, Opening
<1>1. frames \in Seq(Frames) /\ expects \in Seq(Expectations)
  BY DEF JsonTypeOK
<1>2. /\ frames = <<>> <=> expects = <<>>
      /\ frames # <<>> => /\ Last(frames) \in Frames /\ Last(expects) \in Expectations
                          /\ (Last(frames).delimiter = "[") <=> (Last(expects) = "element")
                          /\ Last(frames).wantKey <=> (Last(expects) = "key")
  BY <1>1, Innermost
<1>3. CASE frames = <<>>
  BY <1>1, <1>2, <1>3 DEF ValueTaken, InObject
<1>4. CASE frames # <<>> /\ Last(frames).delimiter = "["
  BY <1>1, <1>2, <1>4 DEF ValueTaken, InObject
<1>5. CASE frames # <<>> /\ Last(frames).delimiter = "{"
  <2> DEFINE r == [Last(frames) EXCEPT !.wantKey = TRUE]
  <2>1. r \in Frames /\ r.delimiter = "{" /\ r.wantKey
    BY <1>2, <1>5
  <2>2. Last(expects) = "value" /\ expects # <<>>
    BY <1>2, <1>5 DEF AtKey, InObject
  <2>3. /\ WithLast(frames, r) \in Seq(Frames) /\ WithLast(expects, "key") \in Seq(Expectations)
        /\ Paired(WithLast(frames, r), WithLast(expects, "key"))
        /\ Len(WithLast(frames, r)) = Len(frames)
    BY <1>1, <1>5, <2>1, PairTop
  <2>4. ValueTaken = WithLast(frames, r)
    BY <1>5 DEF ValueTaken, InObject
  <2>5. WithLast(frames, r) # <<>>
    BY <1>1, <1>5, <2>3, EmptySeq
  <2> QED
    BY <1>5, <2>2, <2>3, <2>4, <2>5
<1> QED
  BY <1>2, <1>3, <1>4, <1>5

(* Nothing has been read.                                                  *)
LEMMA JsonStart == JsonInit => JsonInv
<1> SUFFICES ASSUME JsonInit PROVE JsonInv
  OBVIOUS
<1>1. Len(frames) = 0 /\ Len(expects) = 0
  BY EmptySeq DEF JsonInit
<1>2. JsonTypeOK
  <2>1. /\ text \in Seq(JsonTokens)
        /\ expects \in Seq({"element", "key", "value"})
        /\ frames \in Seq([delimiter : Opening, seen : SUBSET Names, wantKey : BOOLEAN])
    BY EmptySeq DEF JsonInit
  <2>2. 0 \in 0 .. MaxBytes /\ 0 \in 0 .. MaxBytes + 1
    BY LimitsAssumption
  <2> QED
    BY <2>1, <2>2 DEF JsonInit, JsonTypeOK
<1>3. Reading /\ DecodedIsWhole
  BY <1>1, LimitsAssumption DEF JsonInit, Reading, DecodedIsWhole
<1>4. Paired(frames, expects)
  BY <1>1 DEF Paired
<1> QED
  BY <1>2, <1>3, <1>4 DEF JsonInv

(* A token refused changes only the verdict.                               *)
LEMMA RefuseStep ==
  ASSUME JsonInv, NEW t \in JsonTokens, NEW verdict \in {"invalid", "duplicate"},
         Refuse(t, verdict)
  PROVE  JsonInv'
<1>1. text' \in Seq(JsonTokens)
  BY AppendProperties DEF JsonInv, JsonTypeOK, Refuse
<1> QED
  BY <1>1 DEF Refuse, Moves, inputVars, JsonInv, JsonTypeOK, JsonVerdicts, Reading, Received,
     Paired, DecodedIsWhole

(* A token kept, with frames that still agree with the decoder.            *)
LEMMA KeepStep ==
  ASSUME JsonInv, NEW t \in JsonTokens, NEW rest \in Seq(Frames), Keep(t, rest),
         DecoderNext(t) \in Seq(Expectations), Paired(rest, DecoderNext(t)),
         Len(rest) <= MaxDepth
  PROVE  JsonInv'
<1>1. text' \in Seq(JsonTokens) /\ Len(text') = Len(text) + 1 /\ Len(text) \in Nat
  BY AppendProperties, LenProperties DEF JsonInv, JsonTypeOK, Keep
<1>2. /\ phase = "scan" /\ phase' = phase /\ size' = size /\ left' = left
      /\ frames' = rest /\ expects' = DecoderNext(t)
      /\ rootComplete' \in BOOLEAN /\ Len(text) < Received
  BY DEF Keep, inputVars, JsonInv, JsonTypeOK
<1>3. Received' = Received
  BY <1>2 DEF Received
<1>4. JsonTypeOK'
  BY <1>1, <1>2 DEF JsonInv, JsonTypeOK, Frames, Expectations
<1>5. Reading'
  BY <1>1, <1>2, <1>3, LimitsAssumption DEF JsonInv, JsonTypeOK, Reading, Received
<1>6. Paired(frames, expects)'
  BY <1>2 DEF Paired
<1>7. DecodedIsWhole'
  BY <1>2 DEF DecodedIsWhole
<1> QED
  BY <1>4, <1>5, <1>6, <1>7 DEF JsonInv

(* Every token of the scan.                                                *)
LEMMA TokenStep ==
  ASSUME JsonInv, NEW t \in JsonTokens,
         ScanMalformed(t) \/ ScanKey(t) \/ ScanClose(t) \/ ScanOpen(t) \/ ScanScalar(t)
  PROVE  JsonInv'
<1>1. frames \in Seq(Frames) /\ expects \in Seq(Expectations)
  BY DEF JsonInv, JsonTypeOK, Frames, Expectations
<1>2. /\ frames = <<>> <=> expects = <<>>
      /\ frames # <<>> => /\ Last(frames) \in Frames /\ Last(expects) \in Expectations
                          /\ (Last(frames).delimiter = "[") <=> (Last(expects) = "element")
                          /\ Last(frames).wantKey <=> (Last(expects) = "key")
  BY <1>1, Innermost DEF JsonInv
<1>3. Len(frames) \in Nat /\ Len(frames) <= MaxDepth
  BY <1>1, LenProperties DEF JsonInv, DecodedIsWhole
<1>4. CASE ScanMalformed(t)
  BY <1>4, RefuseStep DEF ScanMalformed
<1>5. CASE ScanKey(t)
  <2> DEFINE r == [delimiter |-> "{", wantKey |-> FALSE,
                   seen |-> Last(frames).seen \cup {t}]
  <2>1. AtKey /\ t \in Names /\ frames # <<>>
    BY <1>5 DEF ScanKey, AtKey, InObject
  <2>2. CASE t \in Last(frames).seen
    BY <1>5, <2>2, RefuseStep DEF ScanKey
  <2>3. CASE t \notin Last(frames).seen
    <3>1. r \in Frames
      BY <1>2, <2>1 DEF Frames, Opening
    <3>2. Last(expects) = "key" /\ expects # <<>>
      BY <1>2, <2>1 DEF AtKey
    <3>3. /\ WithLast(frames, r) \in Seq(Frames)
          /\ WithLast(expects, "value") \in Seq(Expectations)
          /\ Paired(WithLast(frames, r), WithLast(expects, "value"))
          /\ Len(WithLast(frames, r)) = Len(frames)
      <4>1. "value" \in Expectations
        BY DEF Expectations
      <4>2. /\ (r.delimiter = "[") <=> ("value" = "element")
            /\ r.wantKey <=> ("value" = "key")
        OBVIOUS
      <4> HIDE DEF r
      <4> QED
        BY <1>1, <2>1, <3>1, <4>1, <4>2, PairTop DEF JsonInv
    <3>4. DecoderNext(t) = WithLast(expects, "value")
      <4>1. t \notin Closing /\ t # "{" /\ t # "["
        BY <2>1, NamesAssumption DEF Closing
      <4> QED
        BY <3>2, <4>1 DEF DecoderNext
    <3>5. Keep(t, WithLast(frames, r))
      BY <1>5, <2>3 DEF ScanKey
    <3> HIDE DEF r
    <3> QED
      BY <1>3, <3>3, <3>4, <3>5, KeepStep
  <2> QED
    BY <2>2, <2>3
<1>6. CASE ScanClose(t)
  <2>1. t \in Closing /\ frames # <<>>
    BY <1>6 DEF ScanClose
  <2>2. CASE (Last(frames).delimiter = "{") = (t = "}")
    <3>1. /\ Front(frames) \in Seq(Frames) /\ Front(expects) \in Seq(Expectations)
          /\ Paired(Front(frames), Front(expects))
          /\ Len(Front(frames)) + 1 = Len(frames)
      BY <1>1, <2>1, PairPop DEF JsonInv
    <3>2. DecoderNext(t) = Front(expects)
      BY <2>1 DEF DecoderNext, Closing
    <3>3. Len(Front(frames)) <= MaxDepth
      BY <1>3, <3>1, LenProperties, LimitsAssumption
    <3>4. Keep(t, Front(frames))
      BY <1>6, <2>2 DEF ScanClose
    <3> QED
      BY <3>1, <3>2, <3>3, <3>4, KeepStep
  <2>3. CASE (Last(frames).delimiter = "{") # (t = "}")
    BY <1>6, <2>3, RefuseStep DEF ScanClose
  <2> QED
    BY <2>2, <2>3
<1>7. CASE ScanOpen(t)
  <2> DEFINE r == [delimiter |-> t, seen |-> {}, wantKey |-> t = "{"]
             x == IF t = "{" THEN "key" ELSE "element"
             after == IF expects # <<>> /\ Last(expects) = "value"
                      THEN WithLast(expects, "key") ELSE expects
  <2>1. t \in Opening /\ ~AtKey
    BY <1>7 DEF ScanOpen
  <2>2. CASE Len(frames) = MaxDepth
    BY <1>7, <2>2, RefuseStep DEF ScanOpen
  <2>3. CASE Len(frames) # MaxDepth
    <3>1. /\ ValueTaken \in Seq(Frames) /\ after \in Seq(Expectations)
          /\ Paired(ValueTaken, after)
          /\ Len(ValueTaken) = Len(frames)
      BY <2>1, PairValue DEF JsonInv
    <3>2. /\ r \in Frames /\ x \in Expectations
          /\ (r.delimiter = "[") <=> (x = "element")
          /\ r.wantKey <=> (x = "key")
      BY <2>1 DEF Frames, Expectations, Opening
    <3>3. DecoderNext(t) = Append(after, x)
      BY <2>1 DEF DecoderNext, Opening, Closing
    <3>4. Keep(t, Append(ValueTaken, r))
      BY <1>7, <2>3 DEF ScanOpen
    <3> HIDE DEF r, x, after
    <3>5. /\ Append(ValueTaken, r) \in Seq(Frames) /\ Append(after, x) \in Seq(Expectations)
          /\ Paired(Append(ValueTaken, r), Append(after, x))
          /\ Len(Append(ValueTaken, r)) = Len(ValueTaken) + 1
      BY <3>1, <3>2, PairPush
    <3>6. Len(Append(ValueTaken, r)) <= MaxDepth
      BY <1>3, <2>3, <3>1, <3>5, LimitsAssumption
    <3> QED
      BY <3>3, <3>4, <3>5, <3>6, KeepStep
  <2> QED
    BY <2>2, <2>3
<1>8. CASE ScanScalar(t)
  <2> DEFINE after == IF expects # <<>> /\ Last(expects) = "value"
                      THEN WithLast(expects, "key") ELSE expects
  <2>1. t \in Scalars /\ ~AtKey /\ Keep(t, ValueTaken)
    BY <1>8 DEF ScanScalar
  <2>2. /\ ValueTaken \in Seq(Frames) /\ after \in Seq(Expectations)
        /\ Paired(ValueTaken, after)
        /\ Len(ValueTaken) = Len(frames)
        /\ expects # <<>> => Last(expects) # "key"
    BY <2>1, PairValue DEF JsonInv
  <2>3. t \notin Closing /\ t # "{" /\ t # "["
    BY <2>1, NamesAssumption DEF Scalars, Closing
  <2>4. DecoderNext(t) = after
    BY <2>2, <2>3 DEF DecoderNext
  <2> HIDE DEF after
  <2> QED
    BY <1>3, <2>1, <2>2, <2>4, KeepStep
<1> QED
  BY <1>4, <1>5, <1>6, <1>7, <1>8

(* Every step of DecodeReader.                                             *)
LEMMA DecodeStep ==
  ASSUME JsonInv, JsonStep
  PROVE  JsonInv'
<1> USE LimitsAssumption
    DEF JsonInv, JsonTypeOK, JsonVerdicts, Reading, Received, DecodedIsWhole, Paired, Moves,
        inputVars, scanVars
<1>1. CASE ReadSome
  <2>1. /\ phase = "read" /\ phase' = "read" /\ UNCHANGED <<size, scanVars>>
        /\ left' \in 0 .. left - 1 /\ MaxBytes - left' <= size
    BY <1>1 DEF ReadSome
  <2>2. left' \in 0 .. MaxBytes
    BY <2>1
  <2> QED
    BY <2>1, <2>2
<1>2. CASE ReadEnds
  <2>1. Len(text) = 0
    BY <1>2, EmptySeq DEF ReadEnds
  <2> QED
    BY <1>2, <2>1 DEF ReadEnds
<1>3. CASE ReadFails
  BY <1>3 DEF ReadFails
<1>4. CASE Probe
  <2>1. Len(text) = 0
    BY <1>4, EmptySeq DEF Probe
  <2> QED
    BY <1>4, <2>1 DEF Probe
<1>5. CASE \E t \in JsonTokens :
              ScanMalformed(t) \/ ScanKey(t) \/ ScanClose(t) \/ ScanOpen(t) \/ ScanScalar(t)
  BY <1>5, TokenStep
<1>6. CASE ScanEnd
  <2>1. Complete => expects = <<>>
    BY Innermost DEF Complete, Frames, Expectations
  <2> QED
    BY <1>6, <2>1 DEF ScanEnd, Complete
<1>7. CASE DecodeValue
  BY <1>7 DEF DecodeValue
<1> QED
  BY <1>1, <1>2, <1>3, <1>4, <1>5, <1>6, <1>7 DEF JsonStep

(* Every step, of which only discovery's touch the scanner.                *)
LEMMA ReaderStep == JsonInv /\ [Next]_vars => JsonInv'
<1> SUFFICES ASSUME JsonInv, [Next]_vars PROVE JsonInv'
  OBVIOUS
<1>1. CASE UNCHANGED jsonVars
  BY <1>1 DEF jsonVars, JsonInv, JsonTypeOK, Reading, Received, DecodedIsWhole, Paired
<1>2. CASE DecodeBegin
  BY <1>2, LimitsAssumption
     DEF DecodeBegin, scanVars, JsonInv, JsonTypeOK, Reading, Received, DecodedIsWhole, Paired
<1>3. CASE JsonStep
  BY <1>3, DecodeStep
<1>4. CASE DecodeReturned
  <2>1. JsonInit'
    BY <1>4 DEF DecodeReturned, JsonInit
  <2> QED
    BY <2>1, JsonStart, PTL
<1> QED
  BY <1>1, <1>2, <1>3, <1>4 DEF Next, Discovering, vars

(* The invariant holds throughout.                                         *)
LEMMA JsonSafe == Spec => []JsonInv
<1>1. Init => JsonInv
  BY JsonStart DEF Init
<1> QED
  BY <1>1, ReaderStep, PTL DEF Spec

(* "DecodeReader reads at most maxBytes+1 bytes from r, rejects oversized  *)
(* input", and decodes what is exactly one value, no deeper than           *)
(* maxNestingDepth: whatever the reader delivers, and in whatever pieces.  *)
THEOREM DecodesWholeInput == Spec => []DecodedIsWhole
BY JsonSafe, PTL DEF JsonInv

(* validateTokens' errors for a closing delimiter and for a member name    *)
(* never speak before json.Decoder's own.                                  *)
THEOREM DecoderChecksFirst == Spec => []ScannerFollowsDecoder
<1>1. ASSUME JsonInv, phase = "scan", NEW t \in JsonTokens, DecoderAccepts(t)
      PROVE  /\ t \in Closing => frames # <<>> /\ (Last(frames).delimiter = "{") = (t = "}")
             /\ AtKey => t \in Names \cup {"}"}
  <2>1. frames \in Seq(Frames) /\ expects \in Seq(Expectations) /\ Paired(frames, expects)
    BY <1>1 DEF JsonInv, JsonTypeOK, Frames, Expectations
  <2>2. /\ frames = <<>> <=> expects = <<>>
        /\ frames # <<>> => /\ Last(frames) \in Frames /\ Last(expects) \in Expectations
                            /\ (Last(frames).delimiter = "[") <=> (Last(expects) = "element")
                            /\ Last(frames).wantKey <=> (Last(expects) = "key")
    BY <2>1, Innermost
  <2>3. AtKey => t \in Names \cup {"}"}
    BY <1>1, <2>2 DEF AtKey, InObject, DecoderAccepts
  <2>4. ASSUME t \in Closing
        PROVE  frames # <<>> /\ (Last(frames).delimiter = "{") = (t = "}")
    <3>1. frames # <<>> /\ expects # <<>>
      BY <1>1, <2>2, <2>4 DEF DecoderAccepts
    <3>2. Last(frames).delimiter \in {"{", "["} /\ t \in {"}", "]"}
      BY <2>2, <2>4, <3>1 DEF Frames, Opening, Closing
    <3>3. CASE Last(expects) = "key"
      <4>1. t = "}"
        BY <1>1, <3>1, <3>2, <3>3, NamesAssumption DEF DecoderAccepts
      <4> QED
        BY <2>2, <3>1, <3>2, <3>3, <4>1
    <3>4. CASE Last(expects) = "element"
      <4>1. t # "}"
        BY <1>1, <3>1, <3>4 DEF DecoderAccepts
      <4> QED
        BY <2>2, <3>1, <3>2, <3>4, <4>1
    <3>5. Last(expects) # "value"
      BY <1>1, <2>4, <3>1 DEF DecoderAccepts
    <3> QED
      BY <2>2, <3>1, <3>3, <3>4, <3>5 DEF Expectations
  <2> QED
    BY <2>3, <2>4
<1>2. JsonInv => ScannerFollowsDecoder
  BY <1>1 DEF ScannerFollowsDecoder
<1> QED
  BY JsonSafe, <1>2, PTL

-----------------------------------------------------------------------------
(* Where the tokens of a text are: up[i] is the position of the delimiter  *)
(* that opened the container token i is in, 0 if it is in none, as is what *)
(* follows a token here.                                                   *)
Outer(up, p) == IF p = 0 THEN 0 ELSE up[p]

Around(s, up, i) ==
    IF i = 0 THEN 0
    ELSE IF s[i] \in Opening THEN i
    ELSE IF s[i] \in Closing THEN Outer(up, up[i])
    ELSE up[i]

Nests(s, up) ==
    /\ up \in [1 .. Len(s) -> Nat]
    /\ \A i \in 1 .. Len(s) : up[i] < i /\ up[i] = Around(s, up, i - 1)

(* The member names: in an object, what neither closes it nor follows a    *)
(* name.  Read from left to right a text has one such up and one such ns.  *)
OpensObject(t) == t = "{"

ObjectAt(s, p) == p # 0 /\ OpensObject(s[p])

NamesIn(s, up, ns) ==
    /\ ns \subseteq 1 .. Len(s)
    /\ \A i \in 1 .. Len(s) :
          i \in ns <=> ObjectAt(s, up[i]) /\ s[i] \notin Closing /\ i - 1 \notin ns

NamesDiffer(s, up, ns) ==
    \A i, j \in ns : up[i] = up[j] /\ s[i] = s[j] => i = j

(* Validate "checks ... that no object contains duplicate member names":   *)
(* in a text that is decoded every member name is a string and those of    *)
(* one object differ, and a text called a duplicate repeats one of them.   *)
NamesAreJudged ==
    /\ phase \in {"decode", "ok", "rejected"} =>
          \E up, ns : /\ Nests(text, up) /\ NamesIn(text, up, ns)
                      /\ NamesDiffer(text, up, ns)
                      /\ \A i \in ns : text[i] \in Names
    /\ phase = "duplicate" =>
          \E up, ns : /\ Nests(text, up) /\ NamesIn(text, up, ns)
                      /\ ~NamesDiffer(text, up, ns)

(* validateTokens' frames are the open containers, the l-th of them the    *)
(* one opened at st[l], each object's with the names it has had.           *)
Top(st, l) == IF l = 0 THEN 0 ELSE st[l]

SeenAt(s, up, ns, p) == {s[i] : i \in {j \in ns : up[j] = p}}

FrameAt(s, f, up, ns, st, l) ==
    /\ st[l] \in 1 .. Len(s)
    /\ s[st[l]] = f[l].delimiter
    /\ up[st[l]] = Top(st, l - 1)
    /\ ObjectAt(s, st[l]) =>
          /\ f[l].seen = SeenAt(s, up, ns, st[l])
          /\ f[l].wantKey <=> (l < Len(f) \/ Len(s) \notin ns)

Located(s, f, up, ns, st) ==
    /\ Nests(s, up) /\ NamesIn(s, up, ns)
    /\ NamesDiffer(s, up, ns) /\ \A i \in ns : s[i] \in Names
    /\ st \in Seq(Nat) /\ Len(st) = Len(f)
    /\ Around(s, up, Len(s)) = Top(st, Len(f))
    /\ \A l \in 1 .. Len(f) : FrameAt(s, f, up, ns, st, l)
    /\ \A l, m \in 1 .. Len(f) : st[l] = st[m] => l = m

NameInv ==
    /\ phase \in {"idle", "read", "probe", "scan", "decode", "ok", "rejected"}
          => \E up, ns, st : Located(text, frames, up, ns, st)
    /\ phase = "duplicate" =>
          \E up, ns : /\ Nests(text, up) /\ NamesIn(text, up, ns)
                      /\ ~NamesDiffer(text, up, ns)

(* The next token's place, and whether it is a name.                       *)
UpWith(s, up) ==
    [i \in 1 .. Len(s) + 1 |-> IF i = Len(s) + 1 THEN Around(s, up, Len(s)) ELSE up[i]]

IsName(s, up, ns, t) ==
    ObjectAt(s, Around(s, up, Len(s))) /\ t \notin Closing /\ Len(s) \notin ns

NamesWith(s, up, ns, t) == IF IsName(s, up, ns, t) THEN ns \cup {Len(s) + 1} ELSE ns

(* The frames with another one for the innermost container.                *)
LEMMA LastReplaced ==
  ASSUME NEW f \in Seq(Frames), f # <<>>, NEW r \in Frames
  PROVE  /\ WithLast(f, r) \in Seq(Frames)
         /\ Len(WithLast(f, r)) = Len(f) /\ Len(f) \in Nat \ {0}
         /\ \A i \in 1 .. Len(f) - 1 : WithLast(f, r)[i] = f[i]
         /\ WithLast(f, r)[Len(f)] = r
<1>1. /\ Len(f) \in Nat \ {0} /\ Front(f) \in Seq(Frames)
      /\ Len(Front(f)) = Len(f) - 1
      /\ \A i \in 1 .. Len(f) - 1 : Front(f)[i] = f[i]
  BY FrontOf
<1> DEFINE g == Front(f)
<1> HIDE DEF g
<1>2. /\ Append(g, r) \in Seq(Frames) /\ Len(Append(g, r)) = Len(g) + 1
      /\ \A i \in 1 .. Len(g) : Append(g, r)[i] = g[i]
      /\ Append(g, r)[Len(g) + 1] = r
  <2>1. g \in Seq(Frames)
    BY <1>1 DEF g
  <2> QED
    BY <2>1, AppendProperties
<1>3. WithLast(f, r) = Append(g, r)
  BY DEF WithLast, g
<1>4. Len(g) + 1 = Len(f) /\ \A i \in 1 .. Len(f) - 1 : i \in 1 .. Len(g) /\ g[i] = f[i]
  BY <1>1 DEF g
<1> QED
  BY <1>1, <1>2, <1>3, <1>4

(* What surrounds the end of a text was opened before it.                  *)
LEMMA AroundBefore ==
  ASSUME NEW s \in Seq(JsonTokens), NEW up, Nests(s, up), NEW i \in 0 .. Len(s)
  PROVE  Around(s, up, i) \in 0 .. i
<1>1. CASE i = 0
  BY <1>1 DEF Around
<1>2. CASE i # 0
  <2>1. Len(s) \in Nat /\ i \in 1 .. Len(s)
    BY <1>2, LenProperties
  <2>2. up[i] \in Nat /\ up[i] < i
    BY <2>1 DEF Nests
  <2>3. Outer(up, up[i]) \in 0 .. i
    <3>1. CASE up[i] = 0
      BY <2>1, <3>1 DEF Outer
    <3>2. CASE up[i] # 0
      <4>1. up[i] \in 1 .. Len(s)
        BY <2>1, <2>2, <3>2
      <4>2. up[up[i]] \in Nat /\ up[up[i]] < up[i]
        BY <4>1 DEF Nests
      <4> QED
        BY <2>1, <2>2, <3>2, <4>2 DEF Outer
    <3> QED
      BY <3>1, <3>2
  <2> QED
    BY <1>2, <2>1, <2>2, <2>3 DEF Around
<1> QED
  BY <1>1, <1>2

(* One token more leaves the places and names of the others alone.         *)
Placed(s, up, ns, t) ==
    LET n == Len(s)  s2 == Append(s, t)  up2 == UpWith(s, up)
        c == Around(s, up, Len(s))
    IN  /\ n \in Nat /\ Len(s2) = n + 1 /\ s2[n + 1] = t /\ up2[n + 1] = c
        /\ \A i \in 1 .. n : s2[i] = s[i] /\ up2[i] = up[i]
        /\ \A i \in 0 .. n : Around(s2, up2, i) = Around(s, up, i)
        /\ Nests(s2, up2) /\ NamesIn(s2, up2, NamesWith(s, up, ns, t))
        /\ n + 1 \notin ns /\ c \in 0 .. n
        /\ \A p \in 0 .. n : ObjectAt(s2, p) <=> ObjectAt(s, p)

LEMMA PlaceNext ==
  ASSUME NEW s \in Seq(JsonTokens), NEW up, NEW ns, NEW t \in JsonTokens,
         Nests(s, up), NamesIn(s, up, ns)
  PROVE  Placed(s, up, ns, t)
<1> DEFINE n == Len(s)
           s2 == Append(s, t)
           up2 == UpWith(s, up)
           ns2 == NamesWith(s, up, ns, t)
           c == Around(s, up, n)
<1>1. n \in Nat /\ Len(s2) = n + 1 /\ s2[n + 1] = t /\ \A i \in 1 .. n : s2[i] = s[i]
  BY LenProperties, AppendProperties
<1>2. c \in 0 .. n
  BY <1>1, AroundBefore
<1>3. up \in [1 .. n -> Nat] /\ \A i \in 1 .. n : up[i] < i /\ up[i] = Around(s, up, i - 1)
  BY DEF Nests
<1>4. up2 \in [1 .. n + 1 -> Nat] /\ up2[n + 1] = c /\ \A i \in 1 .. n : up2[i] = up[i]
  BY <1>1, <1>2, <1>3 DEF UpWith
<1> HIDE DEF n, s2, up2, ns2, c
<1>5. ASSUME NEW i \in 0 .. n PROVE Around(s2, up2, i) = Around(s, up, i)
  <2>1. CASE i = 0
    BY <2>1 DEF Around
  <2>2. CASE i # 0
    <3>1. i \in 1 .. n
      BY <1>1, <2>2
    <3>2. s2[i] = s[i] /\ up2[i] = up[i] /\ up[i] \in Nat /\ up[i] < i
      BY <1>1, <1>3, <1>4, <3>1
    <3>3. up[i] # 0 => up[i] \in 1 .. n
      BY <1>1, <3>1, <3>2
    <3>4. Outer(up2, up2[i]) = Outer(up, up[i])
      BY <1>4, <3>2, <3>3 DEF Outer
    <3> QED
      BY <3>2, <3>4 DEF Around
  <2> QED
    BY <2>1, <2>2
<1>6. Nests(s2, up2)
  <2>1. ASSUME NEW i \in 1 .. n + 1
        PROVE  up2[i] < i /\ up2[i] = Around(s2, up2, i - 1)
    <3>1. CASE i = n + 1
      <4>1. i - 1 = n /\ n \in 0 .. n
        BY <1>1, <3>1
      <4> QED
        BY <1>1, <1>2, <1>4, <1>5, <3>1, <4>1 DEF c
    <3>2. CASE i # n + 1
      <4>1. i \in 1 .. n /\ i - 1 \in 0 .. n
        BY <1>1, <3>2
      <4> QED
        BY <1>3, <1>4, <1>5, <4>1
    <3> QED
      BY <3>1, <3>2
  <2> QED
    BY <1>1, <1>4, <2>1 DEF Nests
<1>7. ns \subseteq 1 .. n /\ n + 1 \notin ns
  BY <1>1 DEF NamesIn, n
<1>8. ASSUME NEW p \in 0 .. n PROVE ObjectAt(s2, p) <=> ObjectAt(s, p)
  <2>1. p # 0 => s2[p] = s[p]
    BY <1>1
  <2> QED
    BY <2>1 DEF ObjectAt
<1>9. NamesIn(s2, up2, ns2)
  <2>1. ns2 \subseteq 1 .. n + 1 /\ \A i \in 0 .. n : i \in ns2 <=> i \in ns
    BY <1>1, <1>7 DEF ns2, NamesWith, n
  <2>2. ASSUME NEW i \in 1 .. n + 1
        PROVE  i \in ns2 <=> ObjectAt(s2, up2[i]) /\ s2[i] \notin Closing /\ i - 1 \notin ns2
    <3>1. CASE i = n + 1
      <4>1. i - 1 = n /\ n \in 0 .. n
        BY <1>1, <3>1
      <4>2. ObjectAt(s2, c) <=> ObjectAt(s, c)
        BY <1>2, <1>8
      <4>3. i \in ns2 <=> IsName(s, up, ns, t)
        BY <1>7, <3>1 DEF ns2, NamesWith, n
      <4>4. IsName(s, up, ns, t) <=> ObjectAt(s, c) /\ t \notin Closing /\ n \notin ns
        BY DEF IsName, c, n
      <4> QED
        BY <1>1, <1>4, <2>1, <3>1, <4>1, <4>2, <4>3, <4>4
    <3>2. CASE i # n + 1
      <4>1. i \in 1 .. n /\ i \in 0 .. n /\ i - 1 \in 0 .. n
        BY <1>1, <3>2
      <4>2. s2[i] = s[i] /\ up2[i] = up[i] /\ up[i] \in 0 .. n
        BY <1>1, <1>3, <1>4, <4>1
      <4>3. ObjectAt(s2, up[i]) <=> ObjectAt(s, up[i])
        BY <1>8, <4>2
      <4>4. i \in ns <=> ObjectAt(s, up[i]) /\ s[i] \notin Closing /\ i - 1 \notin ns
        BY <4>1 DEF NamesIn, n
      <4> QED
        BY <2>1, <4>1, <4>2, <4>3, <4>4
    <3> QED
      BY <3>1, <3>2
  <2> QED
    BY <1>1, <2>1, <2>2 DEF NamesIn
<1> QED
  BY <1>1, <1>2, <1>4, <1>5, <1>6, <1>7, <1>8, <1>9 DEF Placed, n, s2, up2, ns2, c

(* The names of one object grow by the next token, if that is one.         *)
LEMMA SeenNext ==
  ASSUME NEW s \in Seq(JsonTokens), NEW up, NEW ns, NEW t \in JsonTokens,
         Nests(s, up), NamesIn(s, up, ns), NEW p \in 1 .. Len(s) + 1
  PROVE  SeenAt(Append(s, t), UpWith(s, up), NamesWith(s, up, ns, t), p)
            = IF IsName(s, up, ns, t) /\ p = Around(s, up, Len(s))
              THEN SeenAt(s, up, ns, p) \cup {t} ELSE SeenAt(s, up, ns, p)
<1> DEFINE n == Len(s)
           s2 == Append(s, t)
           up2 == UpWith(s, up)
           ns2 == NamesWith(s, up, ns, t)
           c == Around(s, up, Len(s))
           new == IsName(s, up, ns, t)
<1>1. /\ n \in Nat /\ s2[n + 1] = t /\ up2[n + 1] = c
      /\ \A i \in 1 .. n : s2[i] = s[i] /\ up2[i] = up[i]
  <2>1. Placed(s, up, ns, t)
    BY PlaceNext
  <2> QED
    BY <2>1 DEF Placed
<1>2. ns \subseteq 1 .. n /\ ns2 = IF new THEN ns \cup {n + 1} ELSE ns
  BY DEF NamesIn, NamesWith
<1> HIDE DEF n, s2, up2, ns2, c, new
<1>3. ASSUME NEW x
      PROVE  x \in SeenAt(s2, up2, ns2, p)
                <=> x \in SeenAt(s, up, ns, p) \/ (new /\ p = c /\ x = t)
  <2>1. x \in SeenAt(s2, up2, ns2, p) <=> \E j \in ns2 : up2[j] = p /\ s2[j] = x
    BY DEF SeenAt
  <2>2. x \in SeenAt(s, up, ns, p) <=> \E j \in ns : up[j] = p /\ s[j] = x
    BY DEF SeenAt
  <2>3. \A j \in ns : up2[j] = up[j] /\ s2[j] = s[j]
    BY <1>1, <1>2
  <2>4. CASE new
    BY <1>1, <1>2, <2>1, <2>2, <2>3, <2>4
  <2>5. CASE ~new
    BY <1>2, <2>1, <2>2, <2>3, <2>5
  <2> QED
    BY <2>4, <2>5
<1>4. SeenAt(s2, up2, ns2, p)
         = IF new /\ p = c THEN SeenAt(s, up, ns, p) \cup {t} ELSE SeenAt(s, up, ns, p)
  BY <1>3
<1> QED
  BY <1>4 DEF n, s2, up2, ns2, c, new

(* The frame of a container that stays open, but for its newest name and   *)
(* for what it wants next.                                                 *)
LEMMA FrameKept ==
  ASSUME NEW s \in Seq(JsonTokens), NEW up, NEW ns, NEW t \in JsonTokens,
         NEW f, NEW st, NEW f2, NEW st2, NEW l \in Nat,
         Nests(s, up), NamesIn(s, up, ns), FrameAt(s, f, up, ns, st, l),
         st2[l] = st[l], Top(st2, l - 1) = Top(st, l - 1),
         f2[l].delimiter = f[l].delimiter,
         ObjectAt(s, st[l]) =>
            /\ f2[l].seen = IF IsName(s, up, ns, t) /\ st[l] = Around(s, up, Len(s))
                            THEN f[l].seen \cup {t} ELSE f[l].seen
            /\ f2[l].wantKey <=> (l < Len(f2) \/ ~IsName(s, up, ns, t))
  PROVE  FrameAt(Append(s, t), f2, UpWith(s, up), NamesWith(s, up, ns, t), st2, l)
<1> DEFINE n == Len(s)
           s2 == Append(s, t)
           up2 == UpWith(s, up)
           ns2 == NamesWith(s, up, ns, t)
<1>1. /\ n \in Nat /\ Len(s2) = n + 1
      /\ \A i \in 1 .. n : s2[i] = s[i] /\ up2[i] = up[i]
      /\ \A p \in 0 .. n : ObjectAt(s2, p) <=> ObjectAt(s, p)
  <2>1. Placed(s, up, ns, t)
    BY PlaceNext
  <2> QED
    BY <2>1 DEF Placed
<1>2. st[l] \in 1 .. n /\ s[st[l]] = f[l].delimiter /\ up[st[l]] = Top(st, l - 1)
  BY DEF FrameAt
<1>3. st[l] \in 1 .. n + 1 /\ st[l] \in 0 .. n
  BY <1>1, <1>2
<1>4. SeenAt(s2, up2, ns2, st[l])
         = IF IsName(s, up, ns, t) /\ st[l] = Around(s, up, Len(s))
           THEN SeenAt(s, up, ns, st[l]) \cup {t} ELSE SeenAt(s, up, ns, st[l])
  BY <1>3, SeenNext, Zenon
<1>5. n + 1 \in ns2 <=> IsName(s, up, ns, t)
  <2>1. n + 1 \notin ns
    <3>1. Placed(s, up, ns, t)
      BY PlaceNext
    <3> QED
      BY <3>1 DEF Placed
  <2> QED
    BY <2>1 DEF NamesWith
<1>6. ObjectAt(s, st[l]) => f[l].seen = SeenAt(s, up, ns, st[l])
  BY DEF FrameAt
<1> HIDE DEF n, s2, up2, ns2
<1>7. ObjectAt(s2, st2[l]) =>
         /\ f2[l].seen = SeenAt(s2, up2, ns2, st2[l])
         /\ f2[l].wantKey <=> (l < Len(f2) \/ Len(s2) \notin ns2)
  BY <1>1, <1>3, <1>4, <1>5, <1>6
<1>8. st2[l] \in 1 .. Len(s2) /\ s2[st2[l]] = f2[l].delimiter /\ up2[st2[l]] = Top(st2, l - 1)
  BY <1>1, <1>2, <1>3
<1>9. FrameAt(s2, f2, up2, ns2, st2, l)
  BY <1>7, <1>8 DEF FrameAt
<1> QED
  BY <1>9 DEF s2, up2, ns2

(* Names still differ if the next token is none, or is new to its object.  *)
LEMMA DifferNext ==
  ASSUME NEW s \in Seq(JsonTokens), NEW up, NEW ns, NEW t \in JsonTokens,
         Nests(s, up), NamesIn(s, up, ns),
         NamesDiffer(s, up, ns), \A i \in ns : s[i] \in Names,
         IsName(s, up, ns, t) =>
            t \in Names \ SeenAt(s, up, ns, Around(s, up, Len(s)))
  PROVE  LET s2 == Append(s, t)  ns2 == NamesWith(s, up, ns, t)
         IN  NamesDiffer(s2, UpWith(s, up), ns2) /\ \A i \in ns2 : s2[i] \in Names
<1> DEFINE n == Len(s)
           s2 == Append(s, t)
           up2 == UpWith(s, up)
           ns2 == NamesWith(s, up, ns, t)
           c == Around(s, up, Len(s))
           new == IsName(s, up, ns, t)
<1>1. /\ n \in Nat /\ s2[n + 1] = t /\ up2[n + 1] = c
      /\ \A i \in 1 .. n : s2[i] = s[i] /\ up2[i] = up[i]
  <2>1. Placed(s, up, ns, t)
    BY PlaceNext
  <2> QED
    BY <2>1 DEF Placed
<1>2. ns \subseteq 1 .. n /\ ns2 = IF new THEN ns \cup {n + 1} ELSE ns
  BY DEF NamesIn, NamesWith
<1>3. new => t \in Names /\ \A j \in ns : up[j] = c => s[j] # t
  BY DEF SeenAt
<1> HIDE DEF n, s2, up2, ns2, c, new
<1>4. \A j \in ns : up2[j] = up[j] /\ s2[j] = s[j]
  BY <1>1, <1>2
<1>5. \A i \in ns2 : s2[i] \in Names
  BY <1>1, <1>2, <1>3, <1>4
<1>6. NamesDiffer(s2, up2, ns2)
  <2>1. ASSUME NEW i \in ns2, NEW j \in ns2, up2[i] = up2[j], s2[i] = s2[j] PROVE i = j
    <3>1. CASE i \in ns /\ j \in ns
      BY <1>4, <2>1, <3>1 DEF NamesDiffer
    <3>2. CASE i \notin ns \/ j \notin ns
      BY <1>1, <1>2, <1>3, <1>4, <2>1, <3>2
    <3> QED
      BY <3>1, <3>2
  <2> QED
    BY <2>1 DEF NamesDiffer
<1> QED
  BY <1>5, <1>6 DEF s2, up2, ns2

(* What is around the text once the next token has been added.             *)
LEMMA AroundNext ==
  ASSUME NEW s \in Seq(JsonTokens), NEW up, NEW ns, NEW t \in JsonTokens,
         Nests(s, up), NamesIn(s, up, ns)
  PROVE  Around(Append(s, t), UpWith(s, up), Len(Append(s, t)))
            = IF t \in Opening THEN Len(s) + 1
              ELSE IF t \in Closing THEN Outer(up, Around(s, up, Len(s)))
              ELSE Around(s, up, Len(s))
<1> DEFINE n == Len(s)
           s2 == Append(s, t)
           up2 == UpWith(s, up)
           c == Around(s, up, Len(s))
<1>1. Placed(s, up, ns, t)
  BY PlaceNext
<1>2. /\ n \in Nat /\ Len(s2) = n + 1 /\ s2[n + 1] = t /\ up2[n + 1] = c /\ c \in 0 .. n
      /\ \A i \in 1 .. n : up2[i] = up[i]
  BY <1>1 DEF Placed
<1> HIDE DEF n, s2, up2, c
<1>3. Outer(up2, c) = Outer(up, c)
  BY <1>2 DEF Outer
<1>4. n + 1 # 0
  BY <1>2
<1>5. Around(s2, up2, Len(s2)) = IF t \in Opening THEN n + 1
                                 ELSE IF t \in Closing THEN Outer(up, c) ELSE c
  BY <1>2, <1>3, <1>4 DEF Around
<1> QED
  BY <1>5 DEF n, s2, up2, c

(* The scan goes on with frames that tell where it is.                     *)
LEMMA LocatedNext ==
  ASSUME NEW s \in Seq(JsonTokens), NEW up, NEW ns, NEW t \in JsonTokens,
         NEW f, NEW st, NEW f2, NEW st2 \in Seq(Nat),
         Located(s, f, up, ns, st),
         IsName(s, up, ns, t) =>
            t \in Names \ SeenAt(s, up, ns, Around(s, up, Len(s))),
         Len(st2) = Len(f2),
         Around(Append(s, t), UpWith(s, up), Len(Append(s, t))) = Top(st2, Len(f2)),
         \A l \in 1 .. Len(f2) :
            FrameAt(Append(s, t), f2, UpWith(s, up), NamesWith(s, up, ns, t), st2, l),
         \A l, m \in 1 .. Len(f2) : st2[l] = st2[m] => l = m
  PROVE  Located(Append(s, t), f2, UpWith(s, up), NamesWith(s, up, ns, t), st2)
<1>1. /\ Nests(s, up) /\ NamesIn(s, up, ns)
      /\ NamesDiffer(s, up, ns) /\ \A i \in ns : s[i] \in Names
  BY DEF Located
<1>2. /\ Nests(Append(s, t), UpWith(s, up))
      /\ NamesIn(Append(s, t), UpWith(s, up), NamesWith(s, up, ns, t))
  <2>1. Placed(s, up, ns, t)
    BY <1>1, PlaceNext
  <2> QED
    BY <2>1 DEF Placed
<1>3. /\ NamesDiffer(Append(s, t), UpWith(s, up), NamesWith(s, up, ns, t))
      /\ \A i \in NamesWith(s, up, ns, t) : Append(s, t)[i] \in Names
  BY <1>1, DifferNext
<1> QED
  BY <1>2, <1>3 DEF Located

(* The scanner knows where it is, and which tokens are names.              *)
LEMMA ScannerKnows ==
  ASSUME JsonTypeOK, NEW up, NEW ns, NEW st, Located(text, frames, up, ns, st)
  PROVE  /\ frames # <<>> =>
               /\ Around(text, up, Len(text)) = st[Len(frames)]
               /\ FrameAt(text, frames, up, ns, st, Len(frames))
               /\ ObjectAt(text, st[Len(frames)]) <=> InObject
         /\ \A t \in JsonTokens \ Closing : IsName(text, up, ns, t) <=> AtKey
<1> DEFINE L == Len(frames)
           c == Around(text, up, Len(text))
<1>1. frames \in Seq(Frames) /\ L \in Nat /\ (frames = <<>> <=> L = 0)
  BY LenProperties, EmptySeq DEF JsonTypeOK, Frames
<1>2. c = Top(st, L)
  BY DEF Located
<1>3. CASE frames = <<>>
  <2>1. c = 0
    BY <1>1, <1>2, <1>3 DEF Top
  <2>2. ~ObjectAt(text, c)
    BY <2>1 DEF ObjectAt
  <2>3. ~AtKey
    BY <1>3, Zenon DEF AtKey, InObject
  <2> QED
    BY <1>3, <2>2, <2>3 DEF IsName
<1>4. CASE frames # <<>>
  <2>1. L # 0 /\ L \in 1 .. L /\ ~(L < L)
    BY <1>1, <1>4
  <2>2. c = st[L] /\ FrameAt(text, frames, up, ns, st, L)
    BY <1>2, <2>1 DEF Top, Located
  <2>3. st[L] # 0 /\ text[st[L]] = Last(frames).delimiter
    <3>1. st[L] \in 1 .. Len(text) /\ text[st[L]] = frames[L].delimiter
      BY <2>2 DEF FrameAt
    <3> QED
      BY <3>1 DEF Last
  <2>4. ObjectAt(text, c) <=> InObject
    BY <1>4, <2>2, <2>3, Zenon DEF ObjectAt, OpensObject, InObject
  <2>5. InObject => (Last(frames).wantKey <=> Len(text) \notin ns)
    BY <2>1, <2>2, <2>4 DEF FrameAt, Last
  <2>6. AtKey <=> InObject /\ Last(frames).wantKey
    BY DEF AtKey
  <2> QED
    BY <2>2, <2>4, <2>5, <2>6 DEF IsName
<1> QED
  BY <1>3, <1>4

(* The frames after a value.                                               *)
LEMMA ValueFrames ==
  ASSUME JsonTypeOK
  PROVE  /\ ValueTaken \in Seq(Frames) /\ Len(ValueTaken) = Len(frames)
         /\ Len(frames) \in Nat
         /\ \A l \in 1 .. Len(frames) :
               /\ ValueTaken[l].delimiter = frames[l].delimiter
               /\ ValueTaken[l].seen = frames[l].seen
               /\ l < Len(frames) => ValueTaken[l] = frames[l]
         /\ InObject => ValueTaken[Len(frames)].wantKey
<1>1. frames \in Seq(Frames) /\ Len(frames) \in Nat
  BY LenProperties DEF JsonTypeOK, Frames
<1>2. CASE ~InObject
  BY <1>1, <1>2 DEF ValueTaken
<1>3. CASE InObject
  <2> DEFINE r == [Last(frames) EXCEPT !.wantKey = TRUE]
  <2>1. frames # <<>> /\ ValueTaken = WithLast(frames, r)
    BY <1>3, Zenon DEF InObject, ValueTaken
  <2>2. Last(frames) \in Frames
    BY <1>1, <2>1, FrontOf
  <2>3. /\ r \in Frames /\ r.wantKey
        /\ r.delimiter = Last(frames).delimiter /\ r.seen = Last(frames).seen
    BY <2>2 DEF Frames
  <2> HIDE DEF r
  <2>4. /\ ValueTaken \in Seq(Frames) /\ Len(ValueTaken) = Len(frames)
        /\ \A l \in 1 .. Len(frames) - 1 : ValueTaken[l] = frames[l]
        /\ ValueTaken[Len(frames)] = r
    <3>1. /\ WithLast(frames, r) \in Seq(Frames)
          /\ Len(WithLast(frames, r)) = Len(frames)
          /\ \A l \in 1 .. Len(frames) - 1 : WithLast(frames, r)[l] = frames[l]
          /\ WithLast(frames, r)[Len(frames)] = r
      BY <1>1, <2>1, <2>3, LastReplaced
    <3> QED
      BY <2>1, <3>1, Zenon
  <2>5. Last(frames) = frames[Len(frames)]
    BY DEF Last
  <2>6. \A l \in 1 .. Len(frames) : l \in 1 .. Len(frames) - 1 \/ l = Len(frames)
    BY <1>1
  <2>7. \A l \in 1 .. Len(frames) : l < Len(frames) => l \in 1 .. Len(frames) - 1
    BY <1>1
  <2> QED
    BY <1>1, <2>3, <2>4, <2>5, <2>6, <2>7
<1> QED
  BY <1>2, <1>3

(* A new name is noted in the innermost object's frame; one it has had     *)
(* already is a repetition.                                                *)
LEMMA KeyLocated ==
  ASSUME JsonTypeOK, NEW up, NEW ns, NEW st, Located(text, frames, up, ns, st),
         NEW t \in Names, AtKey, NEW r \in Frames,
         r.delimiter = Last(frames).delimiter, ~r.wantKey,
         r.seen = Last(frames).seen \cup {t}
  PROVE  LET s2 == Append(text, t)  up2 == UpWith(text, up)
             ns2 == NamesWith(text, up, ns, t)
         IN  /\ t \notin Last(frames).seen => Located(s2, WithLast(frames, r), up2, ns2, st)
             /\ t \in Last(frames).seen
                   => Nests(s2, up2) /\ NamesIn(s2, up2, ns2) /\ ~NamesDiffer(s2, up2, ns2)
<1> DEFINE L == Len(frames)
           c == Around(text, up, Len(text))
           s2 == Append(text, t)
           up2 == UpWith(text, up)
           ns2 == NamesWith(text, up, ns, t)
           f2 == WithLast(frames, r)
<1>1. frames \in Seq(Frames) /\ frames # <<>> /\ InObject /\ text \in Seq(JsonTokens)
  BY DEF JsonTypeOK, Frames, AtKey, InObject
<1>2. /\ f2 \in Seq(Frames) /\ Len(f2) = L /\ L \in Nat \ {0}
      /\ \A l \in 1 .. L - 1 : f2[l] = frames[l]
      /\ f2[L] = r
  BY <1>1, LastReplaced
<1>3. t \in JsonTokens /\ t \notin Opening /\ t \notin Closing
  BY NamesAssumption, Zenon DEF JsonTokens, Scalars, Opening, Closing
<1>4. /\ Nests(text, up) /\ NamesIn(text, up, ns)
      /\ st \in Seq(Nat) /\ Len(st) = L
      /\ \A l \in 1 .. L : FrameAt(text, frames, up, ns, st, l)
      /\ \A l, m \in 1 .. L : st[l] = st[m] => l = m
      /\ c = Top(st, L)
  BY DEF Located
<1>5. /\ c = st[L] /\ FrameAt(text, frames, up, ns, st, L)
      /\ ObjectAt(text, st[L])
      /\ IsName(text, up, ns, t)
  BY <1>1, <1>3, ScannerKnows
<1>6. Last(frames) = frames[L]
  BY DEF Last
<1>7. Last(frames).seen = SeenAt(text, up, ns, c)
  BY <1>5, <1>6 DEF FrameAt
<1> HIDE DEF L, c, s2, up2, ns2, f2
<1>8. CASE t \notin Last(frames).seen
  <2>1. ASSUME NEW l \in 1 .. L PROVE FrameAt(s2, f2, up2, ns2, st, l)
    <3>1. l \in Nat /\ FrameAt(text, frames, up, ns, st, l)
      BY <1>4
    <3>2. CASE l = L
      <4>1. ~(l < Len(f2))
        BY <1>2, <3>2
      <4>2. f2[l].delimiter = frames[l].delimiter
        BY <1>2, <1>6, <3>2
      <4>3. /\ f2[l].seen = IF IsName(text, up, ns, t) /\ st[l] = c
                            THEN frames[l].seen \cup {t} ELSE frames[l].seen
            /\ f2[l].wantKey <=> (l < Len(f2) \/ ~IsName(text, up, ns, t))
        BY <1>2, <1>5, <1>6, <3>2, <4>1
      <4> QED
        BY <1>1, <1>3, <1>4, <3>1, <4>2, <4>3, FrameKept DEF c, s2, up2, ns2
    <3>3. CASE l # L
      <4>1. l \in 1 .. L - 1 /\ l < Len(f2) /\ L \in 1 .. L /\ l < Len(frames)
        BY <1>2, <3>3 DEF L
      <4>2. f2[l] = frames[l] /\ st[l] # c
        BY <1>2, <1>4, <1>5, <3>3, <4>1
      <4>3. ObjectAt(text, st[l]) => frames[l].wantKey
        BY <3>1, <4>1 DEF FrameAt
      <4>4. ObjectAt(text, st[l]) =>
               /\ f2[l].seen = IF IsName(text, up, ns, t) /\ st[l] = c
                               THEN frames[l].seen \cup {t} ELSE frames[l].seen
               /\ f2[l].wantKey <=> (l < Len(f2) \/ ~IsName(text, up, ns, t))
        BY <4>1, <4>2, <4>3
      <4> QED
        BY <1>1, <1>3, <1>4, <3>1, <4>2, <4>4, FrameKept DEF c, s2, up2, ns2
    <3> QED
      BY <3>2, <3>3
  <2>2. Around(s2, up2, Len(s2)) = Top(st, Len(f2))
    BY <1>1, <1>2, <1>3, <1>4, AroundNext DEF c, s2, up2
  <2>3. IsName(text, up, ns, t) => t \in Names \ SeenAt(text, up, ns, c)
    BY <1>7, <1>8
  <2>4. Located(s2, f2, up2, ns2, st)
    BY <1>1, <1>2, <1>3, <1>4, <2>1, <2>2, <2>3, LocatedNext DEF c, s2, up2, ns2
  <2> QED
    BY <1>8, <2>4 DEF s2, up2, ns2, f2
<1>9. CASE t \in Last(frames).seen
  <2>1. PICK j \in ns : up[j] = c /\ text[j] = t
    BY <1>7, <1>9 DEF SeenAt
  <2>2. Placed(text, up, ns, t)
    BY <1>1, <1>3, <1>4, PlaceNext
  <2>3. /\ Len(text) \in Nat /\ s2[Len(text) + 1] = t /\ up2[Len(text) + 1] = c
        /\ \A i \in 1 .. Len(text) : s2[i] = text[i] /\ up2[i] = up[i]
        /\ Nests(s2, up2) /\ NamesIn(s2, up2, ns2)
    BY <2>2 DEF Placed, s2, up2, ns2, c
  <2>4. j \in 1 .. Len(text) /\ j \in ns2 /\ Len(text) + 1 \in ns2
    BY <1>4, <1>5 DEF NamesIn, ns2, NamesWith
  <2>5. j # Len(text) + 1 /\ s2[j] = t /\ up2[j] = c
    BY <2>1, <2>3, <2>4
  <2>6. ~NamesDiffer(s2, up2, ns2)
    BY <2>3, <2>4, <2>5 DEF NamesDiffer
  <2> QED
    BY <1>9, <2>3, <2>6 DEF s2, up2, ns2
<1> QED
  BY <1>8, <1>9

(* A value taken leaves every name as it is, and its object wants a key.   *)
LEMMA ValueLocated ==
  ASSUME JsonTypeOK, NEW up, NEW ns, NEW st, Located(text, frames, up, ns, st),
         NEW t \in JsonTokens \ Closing, ~AtKey,
         NEW f2, NEW st2, NEW l \in 1 .. Len(frames),
         st2[l] = st[l], Top(st2, l - 1) = Top(st, l - 1), f2[l] = ValueTaken[l]
  PROVE  FrameAt(Append(text, t), f2, UpWith(text, up), NamesWith(text, up, ns, t), st2, l)
<1>1. /\ text \in Seq(JsonTokens) /\ Nests(text, up) /\ NamesIn(text, up, ns)
      /\ FrameAt(text, frames, up, ns, st, l)
  BY DEF Located, JsonTypeOK
<1>2. ~IsName(text, up, ns, t)
  BY ScannerKnows
<1>3. /\ Len(frames) \in Nat
      /\ f2[l].delimiter = frames[l].delimiter /\ f2[l].seen = frames[l].seen
      /\ l < Len(frames) => f2[l] = frames[l]
      /\ InObject => ValueTaken[Len(frames)].wantKey
  BY ValueFrames
<1>4. ASSUME ObjectAt(text, st[l]) PROVE f2[l].wantKey
  <2>1. CASE l < Len(frames)
    BY <1>1, <1>3, <1>4, <2>1 DEF FrameAt
  <2>2. CASE ~(l < Len(frames))
    <3>1. l = Len(frames)
      BY <1>3, <2>2
    <3>2. frames # <<>>
      <4>1. Len(frames) # 0
        BY <1>3
      <4> QED
        BY <4>1, EmptySeq DEF JsonTypeOK
    <3>3. InObject
      BY <1>4, <3>1, <3>2, ScannerKnows
    <3> QED
      BY <1>3, <3>1, <3>3
  <2> QED
    BY <2>1, <2>2
<1>5. l \in Nat /\ t \in JsonTokens
  BY <1>3
<1>6. ObjectAt(text, st[l]) =>
         /\ f2[l].seen = IF IsName(text, up, ns, t) /\ st[l] = Around(text, up, Len(text))
                         THEN frames[l].seen \cup {t} ELSE frames[l].seen
         /\ f2[l].wantKey <=> (l < Len(f2) \/ ~IsName(text, up, ns, t))
  BY <1>2, <1>3, <1>4
<1> QED
  BY <1>1, <1>3, <1>5, <1>6, FrameKept

LEMMA ScalarLocated ==
  ASSUME JsonTypeOK, NEW up, NEW ns, NEW st, Located(text, frames, up, ns, st),
         NEW t \in Scalars, ~AtKey
  PROVE  Located(Append(text, t), ValueTaken, UpWith(text, up),
                 NamesWith(text, up, ns, t), st)
<1>1. t \in JsonTokens /\ t \notin Opening /\ t \notin Closing
  BY NamesAssumption, Zenon DEF JsonTokens, Scalars, Opening, Closing
<1>2. /\ text \in Seq(JsonTokens) /\ Nests(text, up) /\ NamesIn(text, up, ns)
      /\ st \in Seq(Nat) /\ Len(st) = Len(frames)
      /\ \A l, m \in 1 .. Len(frames) : st[l] = st[m] => l = m
      /\ Around(text, up, Len(text)) = Top(st, Len(frames))
  BY DEF Located, JsonTypeOK
<1>3. Len(ValueTaken) = Len(frames)
  BY ValueFrames
<1>4. ~IsName(text, up, ns, t)
  BY <1>1, ScannerKnows
<1>5. ASSUME NEW l \in 1 .. Len(ValueTaken)
      PROVE  FrameAt(Append(text, t), ValueTaken, UpWith(text, up),
                     NamesWith(text, up, ns, t), st, l)
  BY <1>1, <1>3, ValueLocated
<1>6. Around(Append(text, t), UpWith(text, up), Len(Append(text, t)))
         = Top(st, Len(ValueTaken))
  BY <1>1, <1>2, <1>3, AroundNext
<1> QED
  BY <1>1, <1>2, <1>3, <1>4, <1>5, <1>6, LocatedNext

(* A container opened begins at the new token, and has had no names.       *)
LEMMA OpenLocated ==
  ASSUME JsonTypeOK, NEW up, NEW ns, NEW st, Located(text, frames, up, ns, st),
         NEW t \in Opening, ~AtKey, NEW r \in Frames,
         r.delimiter = t, r.seen = {}, OpensObject(t) => r.wantKey
  PROVE  Located(Append(text, t), Append(ValueTaken, r), UpWith(text, up),
                 NamesWith(text, up, ns, t), Append(st, Len(text) + 1))
<1> DEFINE L == Len(frames)
           n == Len(text)
           c == Around(text, up, Len(text))
           s2 == Append(text, t)
           up2 == UpWith(text, up)
           ns2 == NamesWith(text, up, ns, t)
           f2 == Append(ValueTaken, r)
           st2 == Append(st, Len(text) + 1)
<1>1. t \in JsonTokens /\ t \notin Closing
  BY Zenon DEF JsonTokens, Opening, Closing
<1>2. /\ text \in Seq(JsonTokens) /\ Nests(text, up) /\ NamesIn(text, up, ns)
      /\ st \in Seq(Nat) /\ Len(st) = L
      /\ \A l \in 1 .. L : FrameAt(text, frames, up, ns, st, l)
      /\ \A l, m \in 1 .. L : st[l] = st[m] => l = m
      /\ c = Top(st, L)
  BY DEF Located, JsonTypeOK
<1>3. ValueTaken \in Seq(Frames) /\ Len(ValueTaken) = L /\ L \in Nat
  BY ValueFrames
<1>4. ~IsName(text, up, ns, t)
  BY <1>1, ScannerKnows
<1>5. /\ n \in Nat /\ Len(s2) = n + 1 /\ s2[n + 1] = t /\ up2[n + 1] = c
      /\ n + 1 \notin ns
  <2>1. Placed(text, up, ns, t)
    BY <1>1, <1>2, PlaceNext
  <2> QED
    BY <2>1 DEF Placed
<1>6. Len(f2) = L + 1 /\ f2[L + 1] = r /\ \A l \in 1 .. L : f2[l] = ValueTaken[l]
  BY <1>3, AppendProperties
<1>7. /\ st2 \in Seq(Nat) /\ Len(st2) = L + 1 /\ st2[L + 1] = n + 1
      /\ \A l \in 1 .. L : st2[l] = st[l]
  <2>1. n + 1 \in Nat
    BY <1>5
  <2> HIDE DEF n
  <2>2. Append(st, n + 1) \in Seq(Nat) /\ Len(Append(st, n + 1)) = L + 1
        /\ Append(st, n + 1)[L + 1] = n + 1 /\ \A l \in 1 .. L : Append(st, n + 1)[l] = st[l]
    BY <1>2, <2>1, AppendProperties
  <2> QED
    BY <2>2 DEF n
<1>8. \A l \in 1 .. L : st[l] \in 1 .. n
  BY <1>2 DEF FrameAt
<1> HIDE DEF L, n, c, s2, up2, ns2, f2, st2
<1>9. \A l \in 0 .. L : Top(st2, l) = Top(st, l)
  BY <1>3, <1>7 DEF Top
<1>10. ASSUME NEW l \in 1 .. L + 1 PROVE FrameAt(s2, f2, up2, ns2, st2, l)
  <2>1. CASE l = L + 1
    <3>1. SeenAt(text, up, ns, n + 1) = {}
      <4>1. \A j \in ns : up[j] # n + 1
        BY <1>2, <1>5 DEF Nests, NamesIn, n
      <4> QED
        BY <4>1 DEF SeenAt
    <3>2. SeenAt(s2, up2, ns2, n + 1) = {}
      BY <1>1, <1>2, <1>4, <1>5, <3>1, SeenNext DEF n, s2, up2, ns2
    <3>3. st2[l] \in 1 .. Len(s2) /\ st2[l] = n + 1
      BY <1>5, <1>7, <2>1
    <3>4. s2[st2[l]] = f2[l].delimiter
      BY <1>5, <1>6, <1>7, <2>1
    <3>5. up2[st2[l]] = Top(st2, l - 1)
      <4>1. l - 1 = L /\ L \in 0 .. L
        BY <1>3, <2>1
      <4> QED
        BY <1>2, <1>5, <1>9, <3>3, <4>1
    <3>6. ObjectAt(s2, n + 1) => r.wantKey
      BY <1>5 DEF ObjectAt
    <3>7. Len(s2) \notin ns2
      BY <1>4, <1>5 DEF ns2, NamesWith
    <3> QED
      BY <1>6, <2>1, <3>2, <3>3, <3>4, <3>5, <3>6, <3>7 DEF FrameAt
  <2>2. CASE l # L + 1
    <3>1. l \in 1 .. L /\ l - 1 \in 0 .. L
      BY <1>3, <2>2
    <3>2. st2[l] = st[l] /\ Top(st2, l - 1) = Top(st, l - 1) /\ f2[l] = ValueTaken[l]
      BY <1>6, <1>7, <1>9, <3>1
    <3> QED
      BY <1>1, <3>1, <3>2, ValueLocated DEF L, s2, up2, ns2
  <2> QED
    BY <2>1, <2>2
<1>11. Around(s2, up2, Len(s2)) = Top(st2, L + 1)
  <2>1. Around(s2, up2, Len(s2)) = n + 1
    BY <1>1, <1>2, AroundNext DEF s2, up2, n
  <2>2. L + 1 # 0
    BY <1>3
  <2> QED
    BY <1>7, <2>1, <2>2 DEF Top
<1>12. \A l, m \in 1 .. L + 1 : st2[l] = st2[m] => l = m
  <2>1. \A l \in 1 .. L : st2[l] \in 1 .. n
    BY <1>7, <1>8
  <2>2. \A l \in 1 .. L + 1 : l \in 1 .. L \/ l = L + 1
    BY <1>3
  <2>3. n + 1 \notin 1 .. n
    BY <1>5
  <2> QED
    BY <1>2, <1>7, <2>1, <2>2, <2>3
<1>13. Located(s2, f2, up2, ns2, st2)
  <2>1. text \in Seq(JsonTokens) /\ t \in JsonTokens /\ st2 \in Seq(Nat)
    BY <1>1, <1>2, <1>7
  <2>2. Len(f2) = L + 1 /\ Len(st2) = Len(f2)
    BY <1>6, <1>7
  <2>3. /\ Around(s2, up2, Len(s2)) = Top(st2, Len(f2))
        /\ \A l \in 1 .. Len(f2) : FrameAt(s2, f2, up2, ns2, st2, l)
        /\ \A l, m \in 1 .. Len(f2) : st2[l] = st2[m] => l = m
    BY <1>10, <1>11, <1>12, <2>2
  <2> QED
    BY <1>4, <2>1, <2>2, <2>3, LocatedNext, Zenon DEF s2, up2, ns2
<1> QED
  BY <1>13 DEF s2, up2, ns2, f2, st2

(* A container closed: the one around it is the innermost again.           *)
LEMMA CloseLocated ==
  ASSUME JsonTypeOK, NEW up, NEW ns, NEW st, Located(text, frames, up, ns, st),
         NEW t \in Closing, frames # <<>>
  PROVE  Located(Append(text, t), Front(frames), UpWith(text, up),
                 NamesWith(text, up, ns, t), Front(st))
<1> DEFINE L == Len(frames)
           c == Around(text, up, Len(text))
           s2 == Append(text, t)
           up2 == UpWith(text, up)
           ns2 == NamesWith(text, up, ns, t)
           f2 == Front(frames)
           st2 == Front(st)
<1>1. t \in JsonTokens /\ t \notin Opening /\ ~IsName(text, up, ns, t)
  <2>1. t \in JsonTokens /\ t \notin Opening
    BY Zenon DEF JsonTokens, Opening, Closing
  <2> QED
    BY <2>1 DEF IsName
<1>2. /\ text \in Seq(JsonTokens) /\ Nests(text, up) /\ NamesIn(text, up, ns)
      /\ st \in Seq(Nat) /\ Len(st) = L
      /\ \A l \in 1 .. L : FrameAt(text, frames, up, ns, st, l)
      /\ \A l, m \in 1 .. L : st[l] = st[m] => l = m
      /\ c = Top(st, L)
  BY DEF Located, JsonTypeOK
<1>3. /\ L \in Nat \ {0} /\ f2 \in Seq(Frames) /\ Len(f2) = L - 1
      /\ \A l \in 1 .. L - 1 : f2[l] = frames[l]
  BY FrontOf DEF JsonTypeOK, Frames
<1>4. /\ st2 \in Seq(Nat) /\ Len(st2) = L - 1
      /\ \A l \in 1 .. L - 1 : st2[l] = st[l]
  <2>1. st # <<>>
    BY <1>2, <1>3, EmptySeq
  <2> QED
    BY <1>2, <2>1, FrontOf
<1> HIDE DEF L, c, s2, up2, ns2, f2, st2
<1>5. \A l \in 0 .. L - 1 : Top(st2, l) = Top(st, l)
  BY <1>3, <1>4 DEF Top
<1>6. ASSUME NEW l \in 1 .. Len(f2) PROVE FrameAt(s2, f2, up2, ns2, st2, l)
  <2>1. /\ l \in 1 .. L - 1 /\ l \in 1 .. L /\ l - 1 \in 0 .. L - 1 /\ l \in Nat
        /\ l < L
    BY <1>3
  <2>2. FrameAt(text, frames, up, ns, st, l)
    BY <1>2, <2>1
  <2>3. ObjectAt(text, st[l]) => frames[l].wantKey
    BY <2>1, <2>2 DEF FrameAt, L
  <2>4. /\ f2[l] = frames[l] /\ st2[l] = st[l] /\ Top(st2, l - 1) = Top(st, l - 1)
    BY <1>3, <1>4, <1>5, <2>1
  <2>5. ObjectAt(text, st[l]) =>
           /\ f2[l].seen = IF IsName(text, up, ns, t) /\ st[l] = Around(text, up, Len(text))
                           THEN frames[l].seen \cup {t} ELSE frames[l].seen
           /\ f2[l].wantKey <=> (l < Len(f2) \/ ~IsName(text, up, ns, t))
    BY <1>1, <2>3, <2>4
  <2> QED
    BY <1>1, <1>2, <2>1, <2>2, <2>4, <2>5, FrameKept DEF s2, up2, ns2
<1>7. Around(s2, up2, Len(s2)) = Top(st2, Len(f2))
  <2>1. Around(s2, up2, Len(s2)) = Outer(up, c)
    BY <1>1, <1>2, AroundNext DEF s2, up2, c
  <2>2. L \in 1 .. L /\ L # 0 /\ L - 1 \in 0 .. L - 1
    BY <1>3
  <2>3. c = st[L] /\ FrameAt(text, frames, up, ns, st, L)
    BY <1>2, <2>2 DEF Top
  <2>4. c # 0 /\ up[c] = Top(st, L - 1)
    BY <2>3 DEF FrameAt
  <2> QED
    BY <1>3, <1>5, <2>1, <2>2, <2>4 DEF Outer
<1>8. \A l, m \in 1 .. Len(f2) : st2[l] = st2[m] => l = m
  BY <1>2, <1>3, <1>4
<1>9. Located(s2, f2, up2, ns2, st2)
  BY <1>1, <1>2, <1>3, <1>4, <1>6, <1>7, <1>8, LocatedNext DEF s2, up2, ns2
<1> QED
  BY <1>9 DEF s2, up2, ns2, f2, st2

(* The empty text has neither places nor names.                            *)
LEMMA NamesStart == JsonInit => NameInv
<1> SUFFICES ASSUME JsonInit PROVE NameInv
  OBVIOUS
<1> DEFINE up == [i \in 1 .. 0 |-> 0]
           st == <<>>
<1>1. text = <<>> /\ frames = <<>> /\ Len(text) = 0 /\ Len(frames) = 0 /\ phase = "idle"
  BY EmptySeq DEF JsonInit
<1>2. st \in Seq(Nat) /\ Len(st) = 0
  BY EmptySeq
<1>3. up \in [1 .. 0 -> Nat] /\ \A i \in 1 .. 0 : FALSE
  OBVIOUS
<1> HIDE DEF up, st
<1>4. Nests(text, up) /\ NamesIn(text, up, {})
  BY <1>1, <1>3 DEF Nests, NamesIn
<1>5. NamesDiffer(text, up, {}) /\ \A i \in {} : text[i] \in Names
  BY DEF NamesDiffer
<1>6. Around(text, up, Len(text)) = Top(st, Len(frames))
  BY <1>1 DEF Around, Top
<1>7. Located(text, frames, up, {}, st)
  BY <1>1, <1>2, <1>3, <1>4, <1>5, <1>6 DEF Located
<1> QED
  BY <1>1, <1>7 DEF NameInv

(* A token kept, with frames that tell where it leads.                     *)
LEMMA NamesKept ==
  ASSUME NEW t, NEW rest, Keep(t, rest),
         \E up, ns, st : Located(Append(text, t), rest, up, ns, st)
  PROVE  NameInv'
<1>1. phase = "scan" /\ phase' = phase /\ text' = Append(text, t) /\ frames' = rest
  BY DEF Keep
<1>2. \E up, ns, st : Located(text', frames', up, ns, st)
  BY <1>1
<1>3. (\E up, ns, st : Located(text, frames, up, ns, st))'
  BY <1>2
<1> QED
  BY <1>1, <1>3 DEF NameInv

(* Every token of the scan.                                                *)
LEMMA NamesStep ==
  ASSUME JsonInv, NameInv, NEW t \in JsonTokens,
         ScanMalformed(t) \/ ScanKey(t) \/ ScanClose(t) \/ ScanOpen(t) \/ ScanScalar(t)
  PROVE  NameInv'
<1>1. JsonTypeOK /\ frames \in Seq(Frames)
  BY DEF JsonInv, JsonTypeOK, Frames
<1>2. phase = "scan"
  BY DEF ScanMalformed, ScanKey, ScanClose, ScanOpen, ScanScalar, Keep, Refuse, Moves
<1>3. PICK up, ns, st : Located(text, frames, up, ns, st)
  BY <1>2 DEF NameInv
<1>4. ASSUME Refuse(t, "invalid") PROVE NameInv'
  BY <1>4 DEF Refuse, Moves, NameInv
<1>5. CASE ScanMalformed(t)
  BY <1>4, <1>5 DEF ScanMalformed
<1>6. CASE ScanKey(t)
  <2> DEFINE r == [delimiter |-> "{", wantKey |-> FALSE,
                   seen |-> Last(frames).seen \cup {t}]
  <2>1. AtKey /\ t \in Names /\ frames # <<>> /\ Last(frames).delimiter = "{"
    BY <1>6, Zenon DEF ScanKey, AtKey, InObject
  <2>2. Last(frames) \in Frames
    BY <1>1, <2>1, FrontOf
  <2>3. /\ r \in Frames /\ ~r.wantKey /\ r.seen = Last(frames).seen \cup {t}
        /\ r.delimiter = Last(frames).delimiter
    BY <2>1, <2>2 DEF Frames
  <2>4. /\ t \in Last(frames).seen => Refuse(t, "duplicate")
        /\ t \notin Last(frames).seen => Keep(t, WithLast(frames, r))
    BY <1>6 DEF ScanKey
  <2> HIDE DEF r
  <2>5. /\ t \notin Last(frames).seen
              => Located(Append(text, t), WithLast(frames, r), UpWith(text, up),
                         NamesWith(text, up, ns, t), st)
        /\ t \in Last(frames).seen
              => /\ Nests(Append(text, t), UpWith(text, up))
                 /\ NamesIn(Append(text, t), UpWith(text, up), NamesWith(text, up, ns, t))
                 /\ ~NamesDiffer(Append(text, t), UpWith(text, up),
                                 NamesWith(text, up, ns, t))
    <3> HIDE DEF Located, NamesDiffer
    <3> QED
      BY <1>1, <1>3, <2>1, <2>3, KeyLocated
  <2>6. CASE t \notin Last(frames).seen
    BY <2>4, <2>5, <2>6, NamesKept
  <2>7. CASE t \in Last(frames).seen
    <3>1. phase' = "duplicate" /\ text' = Append(text, t)
      BY <2>4, <2>7 DEF Refuse, Moves
    <3>2. \E up2, ns2 : Nests(text', up2) /\ NamesIn(text', up2, ns2)
                        /\ ~NamesDiffer(text', up2, ns2)
      BY <2>5, <2>7, <3>1
    <3>3. (\E up2, ns2 : Nests(text, up2) /\ NamesIn(text, up2, ns2)
                         /\ ~NamesDiffer(text, up2, ns2))'
      BY <3>2
    <3> QED
      BY <3>1, <3>3 DEF NameInv
  <2> QED
    BY <2>6, <2>7
<1>7. CASE ScanClose(t)
  <2>1. t \in Closing /\ frames # <<>> /\ (Keep(t, Front(frames)) \/ Refuse(t, "invalid"))
    BY <1>7, Zenon DEF ScanClose
  <2>2. Located(Append(text, t), Front(frames), UpWith(text, up),
                NamesWith(text, up, ns, t), Front(st))
    BY <1>1, <1>3, <2>1, CloseLocated
  <2> QED
    BY <1>4, <2>1, <2>2, NamesKept
<1>8. CASE ScanOpen(t)
  <2> DEFINE r == [delimiter |-> t, seen |-> {}, wantKey |-> t = "{"]
  <2>1. /\ t \in Opening /\ ~AtKey
        /\ Keep(t, Append(ValueTaken, r)) \/ Refuse(t, "invalid")
    BY <1>8, Zenon DEF ScanOpen
  <2>2. /\ r \in Frames /\ r.delimiter = t /\ r.seen = {}
        /\ OpensObject(t) => r.wantKey
    BY <2>1 DEF Frames, OpensObject
  <2> HIDE DEF r
  <2>3. Located(Append(text, t), Append(ValueTaken, r), UpWith(text, up),
                NamesWith(text, up, ns, t), Append(st, Len(text) + 1))
    BY <1>1, <1>3, <2>1, <2>2, OpenLocated
  <2> QED
    BY <1>4, <2>1, <2>3, NamesKept
<1>9. CASE ScanScalar(t)
  <2>1. t \in Scalars /\ ~AtKey /\ Keep(t, ValueTaken)
    BY <1>9 DEF ScanScalar
  <2>2. Located(Append(text, t), ValueTaken, UpWith(text, up),
                NamesWith(text, up, ns, t), st)
    BY <1>1, <1>3, <2>1, ScalarLocated
  <2> QED
    BY <2>1, <2>2, NamesKept
<1> QED
  BY <1>5, <1>6, <1>7, <1>8, <1>9

(* Every step, of which only the scan's touch the text.                    *)
LEMMA NamesAlways == JsonInv /\ NameInv /\ [Next]_vars => NameInv'
<1> SUFFICES ASSUME JsonInv, NameInv, [Next]_vars PROVE NameInv'
  OBVIOUS
<1>1. ASSUME UNCHANGED <<text, frames>>,
             \/ phase' = phase
             \/ phase' \notin {"idle", "read", "probe", "scan", "decode", "ok",
                               "rejected", "duplicate"}
             \/ phase \notin JsonVerdicts /\ phase' # "duplicate"
      PROVE  NameInv'
  <2>1. phase \in {"idle", "read", "probe", "scan", "decode"} \cup JsonVerdicts
    BY DEF JsonInv, JsonTypeOK
  <2> QED
    BY <1>1, <2>1 DEF NameInv, JsonVerdicts
<1>2. CASE UNCHANGED jsonVars
  BY <1>1, <1>2 DEF jsonVars
<1>3. CASE DecodeBegin
  BY <1>1, <1>3 DEF DecodeBegin, scanVars, JsonVerdicts
<1>4. CASE ReadSome \/ ReadEnds \/ ReadFails \/ Probe \/ ScanEnd \/ DecodeValue
  BY <1>1, <1>4 DEF ReadSome, ReadEnds, ReadFails, Probe, ScanEnd, DecodeValue,
     Moves, scanVars, JsonVerdicts
<1>5. CASE \E t \in JsonTokens :
              ScanMalformed(t) \/ ScanKey(t) \/ ScanClose(t) \/ ScanOpen(t) \/ ScanScalar(t)
  BY <1>5, NamesStep
<1>6. CASE DecodeReturned
  <2>1. JsonInit'
    BY <1>6 DEF DecodeReturned, JsonInit
  <2> QED
    BY <2>1, NamesStart, PTL
<1> QED
  BY <1>2, <1>3, <1>4, <1>5, <1>6 DEF Next, Discovering, vars, JsonStep

(* What a document that was decoded, or refused as a duplicate, says of    *)
(* itself: validateTokens finds every repetition of a member name in one   *)
(* object, however deep, and no other.                                     *)
THEOREM NoDuplicateDecoded == Spec => []NamesAreJudged
<1>1. Init => NameInv
  BY NamesStart DEF Init
<1>2. NameInv => NamesAreJudged
  BY DEF NameInv, NamesAreJudged, Located
<1> QED
  BY JsonSafe, NamesAlways, <1>1, <1>2, PTL DEF Spec
=============================================================================
