------------------------------ MODULE Liballoc ------------------------------
(***************************************************************************)
(* The kernel allocator (mem/liballoc): malloc, free and realloc on a list *)
(* of major blocks of pages, each a list of minor blocks in address order. *)
(* An allocator state h is a record of                                     *)
(*   majors       the list from l_memRoot, each with its first page, its   *)
(*                number of pages, its usage and its minors; a minor has   *)
(*                the offset of its header, its size and req_size          *)
(*   l_bestBet    the first page of a major, or None                       *)
(*   l_inuse, l_allocated                                                  *)
(* Sizes are in units small enough to tell the cases of malloc apart.      *)
(* malloc runs under liballoc_lock, so each operation is one transition.   *)
(***************************************************************************)
EXTENDS Integers, Sequences, SequencesExt

CONSTANTS l_pageSize,    \* units per page
          l_pageCount,   \* fewest pages of a major
          MajorHeader,   \* sizeof(struct liballoc_major)
          MinorHeader,   \* sizeof(struct liballoc_minor)
          AlignSpace,    \* ALIGNMENT + ALIGN_INFO
          None

ASSUME LiballocAssumption ==
  /\ l_pageSize \in Nat \ {0} /\ l_pageCount \in Nat \ {0}
  /\ MajorHeader \in Nat /\ MinorHeader \in Nat \ {0} /\ AlignSpace \in Nat

NoHeap == [majors |-> <<>>, l_bestBet |-> None, l_inuse |-> 0, l_allocated |-> 0]

Size(maj) == maj.pages * l_pageSize
Unused(maj) == Size(maj) - maj.usage

Index(h, base) == SelectInSeq(h.majors, LAMBDA maj : maj.base = base)

PagesFor(size) ==
  LET st == size + MajorHeader + MinorHeader
      pages == st \div l_pageSize + (IF st % l_pageSize = 0 THEN 0 ELSE 1)
  IN IF pages < l_pageCount THEN l_pageCount ELSE pages

allocate_new_page(base, size) ==
  [base |-> base, pages |-> PagesFor(size), usage |-> MajorHeader, minors |-> <<>>]

\* The free space in front of the first minor (i = 0), between two minors, and
\* behind the last one: cases 2, 3, 4.1 and 4.2 of malloc.
GapStart(maj, i) ==
  IF i = 0 THEN MajorHeader
  ELSE maj.minors[i].at + MinorHeader + maj.minors[i].size
GapEnd(maj, i) ==
  IF i = Len(maj.minors) THEN Size(maj) ELSE maj.minors[i + 1].at

Gaps(maj, size) ==
  {i \in 0 .. Len(maj.minors) : GapEnd(maj, i) - GapStart(maj, i) >= size + MinorHeader}

FirstGap(maj, size) ==
  CHOOSE i \in Gaps(maj, size) : \A j \in Gaps(maj, size) : i <= j

\* Case 1 skips a major by its usage alone; the others look for a gap.
EnoughUnused(maj, size) == Unused(maj) >= size + MinorHeader
Fits(maj, size) == EnoughUnused(maj, size) /\ Gaps(maj, size) # {}

Insert(maj, size, req) ==
  LET i == FirstGap(maj, size)
      min == [at |-> GapStart(maj, i), size |-> size, req_size |-> req]
  IN [maj EXCEPT !.minors = InsertAt(@, i + 1, min),
                 !.usage = @ + size + MinorHeader]

\* The majors in the order malloc tries them: from the best bet to the end if
\* the bet looks large enough, then all of them.
Visits(h, size) ==
  LET n == Len(h.majors)
      b == Index(h, h.l_bestBet)
      startedBet == b # 0 /\ Unused(h.majors[b]) > size + MinorHeader
  IN (IF startedBet THEN [k \in 1 .. n - b + 1 |-> b + k - 1] ELSE <<>>)
     \o [k \in 1 .. n |-> k]

\* The best bet moves to every major on the way with more room than the last.
Bet(majors, bet, path) ==
  FoldLeft(LAMBDA best, i : IF best.size < Unused(majors[i])
                            THEN [base |-> majors[i].base, size |-> Unused(majors[i])]
                            ELSE best,
           bet, path)

Found(h, size) ==
  SelectInSeq(Visits(h, size), LAMBDA i : Fits(h.majors[i], size))

\* The pages malloc needs from liballoc_alloc: 0 when a major has room.
PagesNeeded(h, req) ==
  LET size == req + AlignSpace
  IN IF Found(h, size) # 0 THEN 0 ELSE PagesFor(size)

\* malloc; a new major, if one is needed, is at page base.  The new major is
\* considered as best bet unless it was made on the way out of case 1.
malloc(h, req, base) ==
  LET size == req + AlignSpace
      visits == Visits(h, size)
      found == Found(h, size)
      path == IF found = 0 THEN visits ELSE SubSeq(visits, 1, found)
      case1 == path # <<>> /\ ~EnoughUnused(h.majors[Last(path)], size)
      new == allocate_new_page(base, size)
      majors == IF found = 0 THEN Append(h.majors, new) ELSE h.majors
      m == IF found = 0 THEN Len(majors) ELSE visits[found]
      b == Index(h, h.l_bestBet)
      bet == [base |-> h.l_bestBet,
              size |-> IF b = 0 THEN 0 ELSE Unused(h.majors[b])]
      seen == IF found = 0 /\ ~case1 THEN Append(path, m) ELSE path
  IN [majors |-> [majors EXCEPT ![m] = Insert(@, size, req)],
      l_bestBet |-> Bet(majors, bet, seen).base,
      l_inuse |-> h.l_inuse + size,
      l_allocated |-> h.l_allocated + (IF found = 0 THEN Size(new) ELSE 0)]

\* Variant: free forgets that the header of the minor was counted.
Without_header(h, p) ==
  LET maj == h.majors[Index(h, p.base)]
      k == SelectInSeq(maj.minors, LAMBDA min : min.at = p.at)
  IN [maj EXCEPT !.minors = RemoveAt(@, k), !.usage = @ - maj.minors[k].size]

\* free: what is left of the major of p, and whether that is nothing.
Without(h, p) ==
  LET maj == h.majors[Index(h, p.base)]
      k == SelectInSeq(maj.minors, LAMBDA min : min.at = p.at)
  IN [maj EXCEPT !.minors = RemoveAt(@, k),
                 !.usage = @ - (maj.minors[k].size + MinorHeader)]

Empties(h, p) == Without(h, p).minors = <<>>

MinorOf(h, p) ==
  LET maj == h.majors[Index(h, p.base)]
  IN maj.minors[SelectInSeq(maj.minors, LAMBDA min : min.at = p.at)]

\* Variant: the best bet is kept when its major is given back.
free_keepBet(h, p) ==
  LET m == Index(h, p.base)
      maj == Without(h, p)
      majors == IF Empties(h, p) THEN RemoveAt(h.majors, m)
                ELSE [h.majors EXCEPT ![m] = maj]
      b == SelectInSeq(majors, LAMBDA x : x.base = h.l_bestBet)
  IN [majors |-> majors,
      l_bestBet |-> IF ~Empties(h, p) /\ b # 0 /\ Unused(maj) > Unused(majors[b]) THEN p.base
                           ELSE h.l_bestBet,
      l_inuse |-> h.l_inuse - MinorOf(h, p).size,
      l_allocated |-> h.l_allocated - (IF Empties(h, p) THEN Size(maj) ELSE 0)]

free(h, p) ==
  LET m == Index(h, p.base)
      maj == Without(h, p)
      majors == IF Empties(h, p) THEN RemoveAt(h.majors, m)
                ELSE [h.majors EXCEPT ![m] = maj]
      b == SelectInSeq(majors, LAMBDA x : x.base = h.l_bestBet)
  IN [majors |-> majors,
      l_bestBet |-> IF Empties(h, p)
                      THEN IF h.l_bestBet = p.base THEN None ELSE h.l_bestBet
                      ELSE IF b # 0 /\ Unused(maj) > Unused(majors[b]) THEN p.base
                           ELSE h.l_bestBet,
      l_inuse |-> h.l_inuse - MinorOf(h, p).size,
      l_allocated |-> h.l_allocated - (IF Empties(h, p) THEN Size(maj) ELSE 0)]

\* realloc: what it compares with, and what it keeps when the block is enough.
ReqSize(h, p) == MinorOf(h, p).req_size

SetReqSize(h, p, req) ==
  LET m == Index(h, p.base)
      k == SelectInSeq(h.majors[m].minors, LAMBDA min : min.at = p.at)
  IN [h EXCEPT !.majors[m].minors[k].req_size = req]

\* The blocks malloc has given out, by major and offset.
Pointers(h) ==
  UNION {{[base |-> h.majors[i].base, at |-> h.majors[i].minors[k].at] :
            k \in DOMAIN h.majors[i].minors} : i \in DOMAIN h.majors}
=============================================================================
