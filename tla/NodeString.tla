----------------------------- MODULE NodeString -----------------------------
(* Node lists as SLURM prints them, rack[1-2]n[01-03],login, read by         *)
(* split_node_string and expanded by expand_node_group (worker.cpp).  A      *)
(* text is a sequence of characters, of which a run of letters that is never *)
(* taken apart counts as one; so is the name of a node.                      *)
EXTENDS Naturals, Sequences, SequencesExt

Numeral == <<"0", "1", "2", "3", "4", "5", "6", "7", "8", "9">>
DigitValue == [c \in Range(Numeral) |-> (CHOOSE i \in 1..10 : Numeral[i] = c) - 1]
End == "end of text"

(* std::to_string *)
Decimal[n \in Nat] == IF n < 10 THEN <<Numeral[n + 1]>>
                      ELSE Append(Decimal[n \div 10], Numeral[(n % 10) + 1])

-----------------------------------------------------------------------------
(* The reader: between brackets or not, the number being read (val[0] or,    *)
(* after a '-', val[1]), the digits of the first one, the text since         *)
(* seg_start, the part being built and the groups of parts read so far.      *)
NoPart == [prefix |-> <<>>, ranges |-> <<>>]
Reader == [verdict |-> "reading", bracket |-> FALSE, first |-> TRUE, val |-> <<0, 0>>,
           width |-> 0, seg |-> <<>>, part |-> NoPart, groups |-> << <<>> >>]

AddPart(groups, part) == Front(groups) \o <<Append(Last(groups), part)>>

NumberStart(s) == [s EXCEPT !.first = TRUE, !.val = <<0, 0>>, !.width = 0]

RangeRead(s) ==
  [s EXCEPT !.part.ranges = Append(@, [from |-> s.val[1], width |-> s.width,
                                       to |-> IF s.first THEN s.val[1] ELSE s.val[2]])]

InBracket(s, c) ==
  CASE c = "," -> NumberStart(RangeRead(s))
    [] c = "]" -> LET r == RangeRead(s)
                  IN  [r EXCEPT !.bracket = FALSE, !.groups = AddPart(@, r.part),
                                !.part = NoPart, !.seg = <<>>]
    [] c = "-" -> [s EXCEPT !.first = FALSE]
    [] c \in DOMAIN DigitValue ->
         [s EXCEPT !.val[IF s.first THEN 1 ELSE 2] = @ * 10 + DigitValue[c],
                   !.width = IF s.first THEN @ + 1 ELSE @]
    [] OTHER -> [s EXCEPT !.verdict = "refused"]

(* With disable_expansion a '[' is never left behind. *)
Outside(s, c, expansion) ==
  LET ended == IF s.seg = <<>> THEN s
               ELSE [s EXCEPT !.groups = AddPart(@, [NoPart EXCEPT !.prefix = s.seg]),
                              !.part = NoPart]
  IN  CASE c = "[" /\ ~expansion -> [s EXCEPT !.verdict = "hangs"]
        [] c = "[" /\ expansion  -> [NumberStart(s) EXCEPT !.part.prefix = s.seg, !.bracket = TRUE]
        [] c = ","               -> [ended EXCEPT !.groups = Append(@, <<>>), !.seg = <<>>]
        [] c = End               -> [ended EXCEPT !.verdict = "read"]
        [] OTHER                 -> [s EXCEPT !.seg = Append(@, c)]

Step(s, c, expansion) ==
  IF s.verdict # "reading" THEN s
  ELSE IF s.bracket THEN InBracket(s, c) ELSE Outside(s, c, expansion)

Scan(text, expansion) ==
  FoldLeft(LAMBDA s, c : Step(s, c, expansion), Reader, Append(text, End))

-----------------------------------------------------------------------------
Low(r)  == IF r.from > r.to THEN r.to ELSE r.from
High(r) == IF r.from > r.to THEN r.from ELSE r.to

(* The number of missing zeros is a size_t: for a number of more digits than *)
(* the first one of its range it wraps, and std::string throws.              *)
Outgrown(r) == Len(Decimal[High(r)]) > r.width

Padded(n, width) ==
  [i \in 1..(width - Len(Decimal[n])) |-> "0"] \o Decimal[n]

(* The texts one part may stand for, and the names a group may, in the order *)
(* of the nested loops.                                                      *)
Texts(part) ==
  IF part.ranges = <<>> THEN <<part.prefix>>
  ELSE FlattenSeq([i \in DOMAIN part.ranges |->
         LET r == part.ranges[i]
         IN  [k \in 1..(High(r) - Low(r) + 1) |-> part.prefix \o Padded(Low(r) + k - 1, r.width)]])

Names(group) ==
  FoldLeft(LAMBDA done, part :
             FlattenSeq([i \in DOMAIN done |->
               LET t == Texts(part) IN [j \in DOMAIN t |-> done[i] \o t[j]]]),
           << <<>> >>, group)

(* What becomes of a call: the names, "refused" (it returns false and adds   *)
(* none), "throws" or "hangs".                                               *)
SplitNodeString(text, expansion) ==
  LET s == Scan(text, expansion)
      ranges == UNION {Range(part.ranges) : part \in UNION {Range(g) : g \in Range(s.groups)}}
      verdict == IF s.verdict = "read" /\ \E r \in ranges : Outgrown(r) THEN "throws"
                 ELSE s.verdict
  IN  [verdict |-> verdict,
       names |-> IF verdict = "read" THEN FlattenSeq([g \in DOMAIN s.groups |-> Names(s.groups[g])])
                 ELSE <<>>]
=============================================================================
