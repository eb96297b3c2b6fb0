----------------------------- MODULE ChainNames -----------------------------
(***************************************************************************)
(* The log chains of one directory listing (internal/logchain: templates.go,*)
(* group.go): which names are rotated parts of which log, which encoding of *)
(* a generation is read, which numbers are missing, and the provisional     *)
(* order of the parts.                                                      *)
(*                                                                          *)
(* A name is a sequence of tokens [sep, kind, val]: the text after a        *)
(* separator.  A token's kind says which of the table's building blocks its *)
(* text has the shape of: "number" (1 to 5 digits), "date", "ext" (an       *)
(* extension), "comp" (a compression suffix), "archive" (the id, sequence   *)
(* number and time of a journal archive, with .journal), "tmp" and "word".  *)
(* An entry is [name, place, size, mtime, kind, format]; place is its place *)
(* in the listing (by name), kind what the text check says of its bytes,    *)
(* format the place of its compression in formatPreference.                 *)
(***************************************************************************)
EXTENDS Integers, FiniteSets, Sequences, SequencesExt, FiniteSetsExt, TLC

CONSTANTS MaxParts,        \* the most parts of a chain read as one text
          MaxMissingNames, \* the most missing parts a chain names
          FirstYear, LastYear \* the numbers yearKey reads as years

KeyNone == 0   KeyNumber == 1   KeyDate == 2   KeyJournalTime == 3

-----------------------------------------------------------------------------
(* The name templates, tried in order; a match is at most one record. *)

Is(n, i, kind) == i \in DOMAIN n /\ n[i].kind = kind
IsDot(n, i, kind) == Is(n, i, kind) /\ n[i].sep = "."
Plain(n) == IF IsDot(n, Len(n), "comp") THEN Front(n) ELSE n
Digits(n, i) == Is(n, i, "number") \/ Is(n, i, "date")

yearKey(t) == t.val \in FirstYear..LastYear
NumberKey(t) == IF yearKey(t) THEN [kind |-> KeyDate, date |-> t.val, number |-> 0]
                ELSE [kind |-> KeyNumber, date |-> 0, number |-> t.val]
DateKey(n, i, numbered) ==
  [kind |-> KeyDate, date |-> n[i].val, number |-> IF numbered THEN n[i + 1].val ELSE 0]

\* g is a name without its compression suffix, n the whole name.
Numbered(g) ==
  IF Len(g) >= 2 /\ IsDot(g, Len(g), "number")
  THEN {[row |-> "numbered", chain |-> Front(g), gen |-> g, key |-> NumberKey(Last(g)),
         at |-> Len(g), needsActive |-> FALSE]}
  ELSE {}

\* The shortest name before a date: its first place from which the shape fits.
FirstDate(g, Fits(_)) == LET ok == {i \in 2..Len(g) : Is(g, i, "date") /\ Fits(i)}
                         IN IF ok = {} THEN {} ELSE {Min(ok)}
Dated(g) == LET Fits(i) == i = Len(g) \/ (i + 1 = Len(g) /\ Digits(g, i + 1)) IN
  {[row |-> "dated", chain |-> SubSeq(g, 1, i - 1), gen |-> g, key |-> DateKey(g, i, i < Len(g)),
    at |-> 0, needsActive |-> FALSE] : i \in FirstDate(g, Fits)}
DatedExt(g) == LET Fits(i) == /\ IsDot(g, Len(g), "ext")
                              /\ i + 1 = Len(g) \/ (i + 2 = Len(g) /\ Is(g, i + 1, "number")) IN
  {[row |-> "dated-ext", chain |-> Append(SubSeq(g, 1, i - 1), Last(g)), gen |-> g,
    key |-> DateKey(g, i, i + 2 = Len(g)), at |-> 0, needsActive |-> FALSE] : i \in FirstDate(g, Fits)}
BeforeExt(g) ==
  IF /\ Len(g) >= 3
     /\ IsDot(g, Len(g), "ext") \/ IsDot(g, Len(g), "comp")
     /\ Is(g, Len(g) - 1, "number")
  THEN {[row |-> "numbered-ext", chain |-> Append(SubSeq(g, 1, Len(g) - 2), Last(g)), gen |-> g,
         key |-> NumberKey(g[Len(g) - 1]), at |-> Len(g) - 1, needsActive |-> TRUE]}
  ELSE {}
Journal(n) ==
  IF Len(n) >= 2 /\ Is(n, Len(n), "archive")
  THEN {[row |-> "journal", chain |-> Append(Front(n), [sep |-> ".", kind |-> "ext", val |-> "journal"]),
         gen |-> n, key |-> [kind |-> KeyJournalTime, date |-> Last(n).val, number |-> 0],
         at |-> 0, needsActive |-> FALSE]}
  ELSE {}

Templates(n, g) == <<Numbered(g), Dated(g), DatedExt(g), BeforeExt(g), BeforeExt(n), Journal(n)>>
FirstOf(hits) == IF hits = <<>> THEN {} ELSE hits[1]
matchName(n) == FirstOf(SelectSeq(Templates(n, Plain(n)), LAMBDA m : m # {}))
newestLow(m) == m.row \in {"numbered", "numbered-ext"} /\ m.key.kind = KeyNumber

-----------------------------------------------------------------------------
(* What a chain keeps, and which encoding of a generation is its part. *)

isCandidateFile(e) == e.kind # "dir" /\ Last(e.name).kind # "tmp"
textCheck(e) == IF e.size = 0 THEN "text" ELSE e.kind
textChainKeeps(e) == textCheck(e) # "binary"
\* A member is an entry with the match of its name.
member(e) == [file |-> e, match |-> matchName(e.name)]
Match(m) == CHOOSE k \in m.match : TRUE
keepRule(members, e) == textChainKeeps(e) \/ \E m \in Range(members) : Match(m).row = "journal"

formatRank(e) == IF e.size = 0 \/ textCheck(e) = "unreadable" THEN 0 ELSE e.format
cannotBeRead(e) == textCheck(e) # "text"

\* The members of one chain whose row needs the active file, when it has none.
withoutActiveOnlyParts(members) == SelectSeq(members, LAMBDA m : ~Match(m).needsActive)
Generations(members) == {Match(m).gen : m \in Range(members)}
countGenerations(members) == Cardinality(Generations(members))

\* A better format first, readable or not.
FaultyPreferred(a, b) ==
  IF formatRank(a) # formatRank(b) THEN formatRank(a) < formatRank(b) ELSE a.place < b.place
Preferred(a, b) ==
  LET rank(e) == <<IF cannotBeRead(e) THEN 1 ELSE 0, formatRank(e), Len(e.name)>>
      d == {i \in 1..3 : rank(a)[i] # rank(b)[i]}
  IN IF d = {} THEN a.place < b.place ELSE rank(a)[Min(d)] < rank(b)[Min(d)]

\* The part a generation makes: its encodings as the chain keeps them, best first.
PartOf(best) == [file |-> best[1].file, active |-> FALSE, key |-> Match(best[1]).key,
                 low |-> newestLow(Match(best[1])), row |-> Match(best[1]).row,
                 duplicates |-> [i \in 1..(Len(best) - 1) |-> best[i + 1].file]]
choosePart(encodings) == PartOf(SortSeq(encodings, LAMBDA a, b : Preferred(a.file, b.file)))

\* The generations in the order they first appear, until the chain is too large.
chooseParts(members, given, limit) ==
  LET Encodings(e) == SelectSeq(members, LAMBDA o : Match(o).gen = Match(e).gen /\ keepRule(given, o.file))
      IsFirst(e) == \A o \in Range(members) : Match(o).gen = Match(e).gen => e.file.place <= o.file.place
      Chosen(firsts) == [i \in 1..Min({Len(firsts), limit}) |-> choosePart(Encodings(firsts[i]))]
  IN Chosen(SelectSeq(members, LAMBDA e : IsFirst(e) /\ Encodings(e) # <<>>))

-----------------------------------------------------------------------------
(* The numbers no part has, and the provisional order. *)

NumberedParts(parts) == {p \in Range(parts) : p.key.kind = KeyNumber}
missingNumbers(parts) ==
  LET present == {p.key.number : p \in NumberedParts(parts)}
      lowest == IF 0 \in present THEN 0 ELSE 1
      absent == (lowest..Max(present)) \ present
  IN IF present = {} \/ Cardinality(absent) > Cardinality(present) THEN {} ELSE absent

Named(numbers) == {n \in numbers : Cardinality({m \in numbers : m < n}) < MaxMissingNames}
\* The name a missing part would have: that of the highest one around its number.
Renumbered(m, number) == [m.gen EXCEPT ![m.at].val = number]
missingName(parts, number) ==
  LET p == CHOOSE q \in NumberedParts(parts) : \A o \in NumberedParts(parts) : o.key.number <= q.key.number
  IN Renumbered(Match(member(p.file)), number)

\* The kinds of key, the one whose newest part is older first.
Newest(parts, kind) == Max({p.file.mtime : p \in {q \in Range(parts) : ~q.active /\ q.key.kind = kind}})
keyKindRank(parts, kind) ==
  LET before(k) == \/ Newest(parts, k) < Newest(parts, kind)
                   \/ Newest(parts, k) = Newest(parts, kind) /\ k < kind
      kinds == {p.key.kind : p \in {q \in Range(parts) : ~q.active}}
  IN Cardinality({k \in kinds : before(k)})

sortProvisional(parts) ==
  LET rank(p) == <<IF p.active THEN 1 ELSE 0, IF p.active THEN 0 ELSE keyKindRank(parts, p.key.kind),
                   p.key.date, p.key.number, p.file.mtime, p.file.place>>
      Older(a, b) == LET d == {i \in 1..6 : rank(a)[i] # rank(b)[i]} IN
        d # {} /\ IF Min(d) \in {3, 4} /\ a.low THEN rank(a)[Min(d)] > rank(b)[Min(d)]
                  ELSE rank(a)[Min(d)] < rank(b)[Min(d)]
  IN SortSeq(parts, Older)

-----------------------------------------------------------------------------
(* The chains of a listing: `only` restricts them to one name, <<>> to none. *)

ActivePart(e) == [file |-> e, active |-> TRUE, key |-> [kind |-> KeyNone, date |-> 0, number |-> 0],
                  low |-> FALSE, row |-> "", duplicates |-> <<>>]

PartsOf(members, given, kept) ==
  chooseParts(members, given, MaxParts + 1 - Cardinality(kept))
  \o [i \in 1..Cardinality(kept) |-> ActivePart(CHOOSE e \in kept : TRUE)]

\* A chain of those parts, without the numbers that are absent; none below two parts.
Candidate(chain, named, parts, absent) ==
  IF named < 2 \/ Len(parts) < 2 THEN {}
  ELSE {[name |-> chain, parts |-> sortProvisional(parts), missing |-> Named(absent),
         missingCount |-> Cardinality(absent), tooMany |-> Len(parts) > MaxParts, named |-> named]}
CandidateOf(chain, named, parts) ==
  Candidate(chain, named, parts, IF Len(parts) > MaxParts THEN {} ELSE missingNumbers(parts))

\* The chain of one name from the files whose names give it and the file named like it.
buildCandidate(chain, given, active) ==
  LET named == countGenerations(IF active = {} THEN withoutActiveOnlyParts(given) ELSE given)
      kept == {e \in active : keepRule(given, e)}
  IN CandidateOf(chain, named + Cardinality(active),
                 PartsOf(IF kept = {} THEN withoutActiveOnlyParts(given) ELSE given, given, kept))

matchEntries(entries) ==
  LET files == SelectSeq(entries, isCandidateFile) IN [i \in DOMAIN files |-> member(files[i])]
journalChainNames(matched) ==
  {Match(m).chain : m \in {k \in Range(matched) : k.match # {} /\ Match(k).row = "journal"}}
GroupMatched(matched, journals, only) ==
  LET isBare(m) == m.match = {} \/ m.file.name \in journals
      chains == {Match(m).chain : m \in {k \in Range(matched) : ~isBare(k)}}
  IN UNION {buildCandidate(c, SelectSeq(matched, LAMBDA m : ~isBare(m) /\ Match(m).chain = c),
                           {m.file : m \in {k \in Range(matched) : isBare(k) /\ k.file.name = c}}) :
            c \in {n \in chains : only = <<>> \/ n = only}}
GroupFiles(matched, only) == GroupMatched(matched, journalChainNames(matched), only)
groupNamed(entries, only) == GroupFiles(matchEntries(entries), only)
Group(entries) == groupNamed(entries, <<>>)

\* The files of a listing that can belong to the chain of a name, and the chain a
\* search groups from them.
chainEntries(entries, name) ==
  SelectSeq(entries, LAMBDA e : \/ e.name = name
                                \/ isCandidateFile(e) /\ \E m \in matchName(e.name) : m.chain = name)
chainNamed(entries, name) == groupNamed(chainEntries(entries, name), name)
=============================================================================
