---------------------------- MODULE ChainListing ----------------------------
(***************************************************************************)
(* One directory of rotated logs as ChainNames groups it, at every listing *)
(* a rotation, a compression or a copy can leave: an entry appears or       *)
(* vanishes at a time.                                                      *)
(***************************************************************************)
EXTENDS ChainNames

CONSTANT Universe \* the entries the directory can hold, by name; several of one name

VARIABLE present

Listing == SelectSeq(Universe, LAMBDA e : e \in present)
Files == {e \in present : isCandidateFile(e)}

Init == present = {}
Appear(e) == /\ \A o \in present : o.name # e.name
             /\ present' = present \union {e}
Vanish(e) == e \in present /\ present' = present \ {e}
Next == \E e \in Range(Universe) : Appear(e) \/ Vanish(e)
Spec == Init /\ [][Next]_present

-----------------------------------------------------------------------------
FilesOf(c) == UNION {{p.file} \union Range(p.duplicates) : p \in Range(c.parts)}
PartWith(c, e) == CHOOSE p \in Range(c.parts) : e = p.file \/ e \in Range(p.duplicates)

HasActive(c) == \E p \in Range(c.parts) : p.active
JournalChains == {m.chain : m \in {x \in UNION {matchName(e.name) : e \in Files} : x.row = "journal"}}

\* Each file whose name makes it a part, and that is text or cannot be told, is in its
\* chain once, as a part or beside one; no two parts are of one generation; a part is
\* readable text when one of its encodings is; no file belongs to two chains.
EachGenerationIsReadOnce ==
  LET chains == Group(Listing) IN
  /\ \A c, d \in chains : FilesOf(c) \intersect FilesOf(d) # {} => c = d
  /\ \A c \in {x \in chains : ~x.tooMany} :
       /\ \A o \in {e \in Files : e.name \notin JournalChains} : \A m \in matchName(o.name) :
            m.chain = c.name /\ textChainKeeps(o) /\ (m.needsActive => HasActive(c)) => o \in FilesOf(c)
       /\ Cardinality(FilesOf(c)) = FoldSeq(LAMBDA p, n : n + 1 + Len(p.duplicates), 0, c.parts)
       /\ \A p, q \in Range(c.parts) : p # q /\ ~p.active /\ ~q.active => Match(member(p.file)).gen # Match(member(q.file)).gen
       /\ \A e \in FilesOf(c) : textCheck(e) = "text" => textCheck(PartWith(c, e).file) = "text"

\* A handle is answered with the chain the listing of its directory shows (group.go:259).
HandlesNameListedChains ==
  \A n \in {m.chain : m \in UNION {matchName(e.name) : e \in Files}} :
    groupNamed(Listing, n) = {c \in Group(Listing) : c.name = n}

\* The provisional order puts every older part before every newer one, not only its
\* neighbour, and the active part last; the missing names are names no part has that
\* would be read as parts of this chain.
PartsComeOldestFirst ==
  \A c \in Group(Listing) :
    /\ \A i, j \in DOMAIN c.parts : i < j =>
         LET p == c.parts[i]   q == c.parts[j] IN
         /\ ~p.active
         /\ p.key.kind = q.key.kind =>
              IF p.key.kind = KeyNumber THEN p.key.number >= q.key.number ELSE p.key.date <= q.key.date
         /\ \A k \in i..j : p.key.kind = q.key.kind => c.parts[k].key.kind = p.key.kind
    /\ \A n \in c.missing : LET name == missingName(c.parts, n) IN
         /\ \A p \in Range(c.parts) : p.file.name # name
         /\ \E m \in matchName(name) : m.chain = c.name /\ m.key.kind = KeyNumber /\ m.key.number = n

=============================================================================
