----------------------------- MODULE JsonGrammar -----------------------------
(***************************************************************************)
(* What strictjson promises, from the grammar: a JSON text is one value    *)
(* within the nesting depth, in which no object repeats a member name.     *)
(* Values(n, d, strict) are the values of n tokens nested at most d deep,  *)
(* with names repeated or not.                                             *)
(***************************************************************************)
EXTENDS StrictJson

Joined(S, T) == {s \o t : s \in S, t \in T}

RECURSIVE Values(_, _, _), Elements(_, _, _), Members(_, _, _, _)

Values(n, d, strict) ==
    IF n = 1 THEN {<<s>> : s \in Scalars}
    ELSE IF n = 0 \/ d = 0 THEN {}
    ELSE {<<"[">> \o s \o <<"]">> : s \in Elements(n - 2, d - 1, strict)}
         \cup {<<"{">> \o s \o <<"}">> : s \in Members(n - 2, d - 1, strict, Names)}

Elements(n, d, strict) ==
    IF n = 0 THEN {<<>>}
    ELSE UNION {Joined(Values(k, d, strict), Elements(n - k, d, strict)) : k \in 1 .. n}

Members(n, d, strict, free) ==
    IF n = 0 THEN {<<>>}
    ELSE UNION {{<<name>> \o s :
                    s \in Joined(Values(k, d, strict),
                                 Members(n - 1 - k, d, strict,
                                         IF strict THEN free \ {name} ELSE free))}
                  : name \in free, k \in 1 .. n - 1}

StrictTexts == [n \in 0 .. MaxBytes |-> Values(n, MaxDepth, TRUE)]
LooseTexts == [n \in 0 .. MaxBytes |-> Values(n, MaxDepth, FALSE)]

(* The input begins with what has been scanned, and is one of these texts. *)
MayBe(texts) == size <= MaxBytes /\ \E s \in texts[size] : SubSeq(s, 1, Len(text)) = text

(* "DecodeReader reads at most maxBytes+1 bytes from r, rejects oversized  *)
(* input", and Validate "checks that data contains exactly one JSON value  *)
(* and that no object contains duplicate member names": an input is        *)
(* decoded only if the whole of it, up to the reader's end, is such a      *)
(* text, and none that is one is refused before its destination has been   *)
(* asked, or called anything but a duplicate if only names are repeated.   *)
ScannerMatchesGrammar ==
    CASE phase \in {"decode", "ok", "rejected"} ->
            size <= MaxBytes /\ text \in StrictTexts[size]
      [] phase = "tooLarge" -> size > MaxBytes
      [] phase = "duplicate" -> ~MayBe(StrictTexts)
      [] phase = "invalid" -> ~MayBe(LooseTexts)
      [] OTHER -> TRUE
=============================================================================
