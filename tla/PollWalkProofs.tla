--------------------------- MODULE PollWalkProofs ---------------------------
(***************************************************************************)
(* That no bill is skipped, for any number of bills, overlapping polls and   *)
(* faults, any page size, cap and overlap.                                   *)
(***************************************************************************)
EXTENDS PollWalk, FiniteSetTheorems, WellFoundedInduction, TLAPS

-----------------------------------------------------------------------------
(* The inductive invariant                                                   *)

\* The types, and the ranges a walk's counters keep to.
WalkTypes ==
  /\ TypeOK
  /\ \A p \in Poll :
       /\ poll[p].page \in Nat \ {0}
       /\ poll[p].pc = "walk" => poll[p].left \in Nat \ {0}
       /\ poll[p].pc = "cursor" => poll[p].page = 1 /\ poll[p].last = 0

\* Nobody asks for what was saved only now, or later: a save is never missed.
IsPast(t) == t = 0 \/ t < now

ClockInv ==
  /\ now > 0
  /\ \A b \in Bill : saved[b] <= now
  /\ IsPast(cursor)
  /\ \A p \in Poll :
       poll[p].started <= now /\ poll[p].last <= now /\ IsPast(poll[p].since)

\* A walk, or a commit that was cut short, still has its query to go on with.
Reading(q) == q.pc = "walk" \/ (q.pc = "commit" /\ q.truncated)

\* Every draft without a run is in hand or modified since t.
Covered(q, t) == \A b \in drafts : b \in runs \/ b \in q.seen \/ ModifiedSince(b, t)

\* What Xero has to say of a query, and the place of a bill in it.
Found(since) == {b \in drafts : ModifiedSince(b, since)}

Rank(since, b) == Cardinality({c \in Found(since) : Precedes(c, b)})

\* The pages a walk has stepped over hold nothing new.
SteppedOver(q) ==
  q.page > 1 =>
    \A b \in Found(q.since) :
      Rank(q.since, b) \div PageSize < q.page - 1 => b \in q.seen

\* What a poll has in hand, and what its query or its commit leaves to others.
QueryInv(q) ==
  /\ Reading(q) =>
       /\ Covered(q, q.since)
       /\ q.last # 0 => Before(q.last, Overlap) <= q.since
  /\ q.pc = "commit" /\ ~q.truncated => Covered(q, Before(q.started, Overlap))
  /\ q.pc = "walk" => SteppedOver(q)

\* Edits between two pages of one query move bills to pages already read.
WalkInv == ~EditsInSteps => \A p \in Poll : QueryInv(poll[p])

CursorInv == ~EditsInSteps => NoBillSkipped

IInv ==
  /\ WalkTypes
  /\ ClockInv
  /\ WalkInv
  /\ CursorInv

-----------------------------------------------------------------------------
(* Numbers                                                                   *)

Below == {p \in Nat \X Nat : p[1] < p[2]}

LEMMA BelowWellFounded == IsWellFoundedOn(Below, Nat)
BY NatLessThanWellFounded, Zenon DEF OpToRel, Below

\* A bounded set of times has a newest one.
LEMMA NewestOf ==
  ASSUME NEW T, T \subseteq Nat, T # {}, NEW n \in Nat, \A t \in T : t <= n
  PROVE  Max(T) \in T /\ \A t \in T : t <= Max(T)
<1> DEFINE U == {u \in Nat : \A t \in T : t <= u}
<1>1. U \subseteq Nat /\ U # {}
  OBVIOUS
<1>2. PICK m \in U : \A u \in U : <<u, m>> \notin Below
  BY <1>1, BelowWellFounded, WFMin, Zenon
<1>3. \A u \in U : ~(u < m)
  <2> SUFFICES ASSUME NEW u \in U, u < m PROVE FALSE
    OBVIOUS
  <2>1. <<u, m>> \in Nat \X Nat /\ <<u, m>>[1] < <<u, m>>[2]
    OBVIOUS
  <2> QED
    BY <1>2, <2>1, Zenon DEF Below
<1>4. m \in T
  <2> SUFFICES ASSUME m \notin T PROVE FALSE
    OBVIOUS
  <2>1. m \in Nat /\ \A t \in T : t \in Nat /\ t < m
    OBVIOUS
  <2>2. PICK t \in T : TRUE
    OBVIOUS
  <2>3. m - 1 \in Nat /\ \A u \in T : u <= m - 1
    BY <2>1, <2>2
  <2> QED
    BY <1>3, <2>3
<1>5. \E x \in T : \A y \in T : x >= y
  BY <1>2, <1>4
<1> QED
  BY <1>5 DEF Max

LEMMA PagesInOrder ==
  ASSUME NEW m \in Nat, NEW n \in Nat, m <= n, PageSize \in Nat \ {0}
  PROVE  m \div PageSize <= n \div PageSize
OBVIOUS

LEMMA OnPage ==
  ASSUME NEW n \in Nat, NEW k \in Nat, PageSize \in Nat \ {0}
  PROVE  /\ n \div PageSize \in Nat
         /\ n \div PageSize = k <=> n \in (PageSize * k) .. (PageSize * k + PageSize - 1)
         /\ n \div PageSize > k => n >= PageSize * k + PageSize
<1>1. /\ n \div PageSize \in Nat
      /\ PageSize * (n \div PageSize) <= n /\ n < PageSize * (n \div PageSize) + PageSize
  OBVIOUS
<1>2. PageSize * k <= n /\ n < PageSize * k + PageSize => n \div PageSize = k
  OBVIOUS
<1>3. PageSize * k \in Nat
  OBVIOUS
<1>4. n \div PageSize > k => n >= PageSize * k + PageSize
  OBVIOUS
<1> QED
  BY <1>1, <1>2, <1>3, <1>4

-----------------------------------------------------------------------------
(* The places of the bills in Xero's answer                                  *)

LEMMA FoundTypes ==
  ASSUME TypeOK, NEW since
  PROVE  /\ Found(since) \subseteq drafts /\ drafts \subseteq Bill /\ Bill \subseteq Nat
         /\ saved \in [Bill -> Nat]
         /\ IsFiniteSet(Found(since))
         /\ Cardinality(Found(since)) \in Nat
         /\ \A b \in Bill : /\ IsFiniteSet({c \in Found(since) : Precedes(c, b)})
                            /\ Rank(since, b) \in Nat
<1>1. Found(since) \subseteq drafts /\ drafts \subseteq Bill /\ Bill \subseteq Nat
      /\ saved \in [Bill -> Nat]
  BY PollWalkAssumption DEF TypeOK, Found
<1>2. IsFiniteSet(Found(since)) /\ Cardinality(Found(since)) \in Nat
  BY <1>1, PollWalkAssumption, FS_Subset, FS_CardinalityType
<1>3. ASSUME NEW b \in Bill
      PROVE  IsFiniteSet({c \in Found(since) : Precedes(c, b)}) /\ Rank(since, b) \in Nat
  <2>1. {c \in Found(since) : Precedes(c, b)} \in SUBSET Found(since)
    OBVIOUS
  <2> QED
    BY <1>2, <2>1, FS_Subset, FS_CardinalityType DEF Rank
<1> QED
  BY <1>1, <1>2, <1>3

\* Xero's order is strict and total, ties in the time going by number.
LEMMA BillsInOrder ==
  ASSUME TypeOK
  PROVE  /\ \A b \in Bill : ~Precedes(b, b)
         /\ \A b, c \in Bill : b # c => Precedes(b, c) \/ Precedes(c, b)
         /\ \A b, c, d \in Bill : Precedes(b, c) /\ Precedes(c, d) => Precedes(b, d)
<1>1. \A b \in Bill : b \in Nat /\ saved[b] \in Nat
  BY PollWalkAssumption DEF TypeOK
<1> QED
  BY <1>1 DEF Precedes

\* Of two bills of an answer the earlier has the smaller place.
LEMMA RanksInOrder ==
  ASSUME TypeOK, NEW since, NEW b \in Found(since), NEW c \in Found(since), Precedes(b, c)
  PROVE  Rank(since, b) < Rank(since, c)
<1> DEFINE Earlier(d) == {e \in Found(since) : Precedes(e, d)}
<1>1. /\ Found(since) \subseteq Bill /\ IsFiniteSet(Earlier(c))
      /\ Rank(since, b) \in Nat /\ Rank(since, c) \in Nat
  BY FoundTypes
<1>2. Earlier(b) \subseteq Earlier(c)
  BY <1>1, BillsInOrder
<1>3. b \in Earlier(c) /\ b \notin Earlier(b)
  BY <1>1, BillsInOrder
<1>4. Cardinality(Earlier(b)) <= Cardinality(Earlier(c))
      /\ Cardinality(Earlier(b)) # Cardinality(Earlier(c))
  BY <1>1, <1>2, <1>3, FS_Subset
<1> QED
  BY <1>1, <1>4 DEF Rank

\* The places are 0, 1, ... without a gap.
LEMMA RanksAreOnto ==
  ASSUME TypeOK, NEW since
  PROVE  /\ \A b \in Found(since) : Rank(since, b) < Cardinality(Found(since))
         /\ \A j \in 0 .. (Cardinality(Found(since)) - 1) :
              \E b \in Found(since) : Rank(since, b) = j
<1> DEFINE S == Found(since)
           n == Cardinality(S)
           f == [b \in S |-> Rank(since, b)]
<1>1. /\ S \subseteq Bill /\ Bill \subseteq Nat /\ saved \in [Bill -> Nat]
      /\ IsFiniteSet(S) /\ n \in Nat
      /\ \A b \in S : Rank(since, b) \in Nat
  BY FoundTypes
<1>2. \A b \in S : Rank(since, b) < n
  <2> SUFFICES ASSUME NEW b \in S PROVE Rank(since, b) < n
    OBVIOUS
  <2>1. {c \in S : Precedes(c, b)} \in SUBSET S /\ b \notin {c \in S : Precedes(c, b)}
    BY <1>1, BillsInOrder
  <2>2. Cardinality({c \in S : Precedes(c, b)}) <= n /\ Cardinality({c \in S : Precedes(c, b)}) # n
    BY <1>1, <2>1, FS_Subset
  <2> QED
    BY <1>1, <2>2 DEF Rank
<1>3. \A b, c \in S : b # c => Precedes(b, c) \/ Precedes(c, b)
  BY <1>1, BillsInOrder
<1>4. \A b, c \in S : Rank(since, b) = Rank(since, c) => b = c
  BY <1>1, <1>3, RanksInOrder
<1>5. f \in Injection(S, 0 .. (n - 1))
  <2>1. f \in [S -> 0 .. (n - 1)]
    BY <1>1, <1>2
  <2>2. \A b, c \in S : f[b] = f[c] => b = c
    BY <1>4
  <2> HIDE DEF f
  <2> QED
    BY <2>1, <2>2 DEF Injection, IsInjective
<1>6. IsFiniteSet(0 .. (n - 1)) /\ Cardinality(0 .. (n - 1)) = n
  BY <1>1, FS_Interval
<1>7. f \in Surjection(S, 0 .. (n - 1))
  BY <1>5, <1>6, FS_Injection
<1>8. \A j \in 0 .. (n - 1) : \E b \in S : f[b] = j
  BY <1>7 DEF Surjection
<1> QED
  BY <1>2, <1>8

LEMMA PageOf ==
  ASSUME NEW since, NEW page
  PROVE  Page(since, page) = {b \in Found(since) : Rank(since, b) \div PageSize = page - 1}
BY DEF Page, Found, Rank

\* A page that is not full is the last: no bill comes after it.
LEMMA ShortPageIsLast ==
  ASSUME TypeOK, NEW since, NEW page \in Nat \ {0},
         Cardinality(Page(since, page)) < PageSize,
         NEW b \in Found(since)
  PROVE  Rank(since, b) \div PageSize <= page - 1
<1> SUFFICES ASSUME Rank(since, b) \div PageSize > page - 1
             PROVE  FALSE
  <2>1. Rank(since, b) \in Nat
    BY FoundTypes
  <2>2. Rank(since, b) \div PageSize \in Nat
    BY <2>1, PollWalkAssumption
  <2> QED
    BY <2>2
<1> DEFINE answer == Page(since, page)
           J == (PageSize * (page - 1)) .. (PageSize * (page - 1) + PageSize - 1)
           f == [c \in answer |-> Rank(since, c)]
<1>1. PageSize \in Nat \ {0} /\ page - 1 \in Nat /\ PageSize * (page - 1) \in Nat
  BY PollWalkAssumption
<1>2. /\ IsFiniteSet(Found(since)) /\ Cardinality(Found(since)) \in Nat
      /\ \A c \in Found(since) : Rank(since, c) \in Nat
  BY FoundTypes
<1>3. answer \in SUBSET Found(since)
  BY PageOf
<1>4. IsFiniteSet(answer) /\ Cardinality(answer) \in Nat
  BY <1>2, <1>3, FS_Subset, FS_CardinalityType
<1>5. f \in [answer -> J]
  BY <1>1, <1>2, <1>3, OnPage, PageOf
<1>6. ASSUME NEW j \in J
      PROVE  \E c \in answer : f[c] = j
  <2>1. j \in Nat /\ j < Rank(since, b)
    BY <1>1, <1>2, OnPage
  <2>2. j \in 0 .. (Cardinality(Found(since)) - 1)
    BY <1>2, <2>1, RanksAreOnto
  <2>3. PICK c \in Found(since) : Rank(since, c) = j
    BY <2>2, RanksAreOnto
  <2>4. c \in answer
    BY <1>1, <1>2, <2>1, <2>3, OnPage, PageOf
  <2> QED
    BY <2>3, <2>4
<1>7. f \in Surjection(answer, J)
  BY <1>5, <1>6 DEF Surjection
<1>8. Cardinality(J) <= Cardinality(answer)
  BY <1>4, <1>7, FS_Surjection
<1>9. Cardinality(J) = PageSize
  BY <1>1, FS_Interval
<1> QED
  BY <1>1, <1>4, <1>8, <1>9

-----------------------------------------------------------------------------
(* What is covered stays covered                                             *)

LEMMA ModifiedBefore ==
  ASSUME TypeOK, NEW b \in Bill, NEW s \in Nat, NEW t \in Nat, s <= t, ModifiedSince(b, t)
  PROVE  ModifiedSince(b, s)
<1>1. saved[b] \in Nat
  BY DEF TypeOK
<1> QED
  BY <1>1 DEF ModifiedSince

\* Polls proceed, others write runs: nobody saves a bill.
LEMMA NothingSaved ==
  ASSUME UNCHANGED <<saved, drafts>>, runs \subseteq runs', NEW q, QueryInv(q)
  PROVE  QueryInv(q)'
<1>1. \A since : Found(since)' = Found(since)
  BY DEF Found, ModifiedSince
<1>2. \A since, b : Rank(since, b)' = Rank(since, b)
  BY <1>1 DEF Rank, Precedes
<1>3. \A t : Covered(q, t) => Covered(q, t)'
  BY DEF Covered, ModifiedSince
<1>4. SteppedOver(q) => SteppedOver(q)'
  BY <1>1, <1>2 DEF SteppedOver
<1> QED
  BY <1>3, <1>4 DEF QueryInv, Reading

\* A save is later than every query and every cursor.
LEMMA SavedNow ==
  ASSUME TypeOK, ClockInv, NEW b \in Bill, saved'[b] = now, NEW t \in Nat, IsPast(t)
  PROVE  ModifiedSince(b, t)'
<1>1. now \in Nat
  BY DEF TypeOK
<1> QED
  BY <1>1 DEF IsPast, ModifiedSince

LEMMA BeforeIsPast ==
  ASSUME TypeOK, ClockInv, NEW t \in Nat, t <= now
  PROVE  Before(t, Overlap) \in Nat /\ IsPast(Before(t, Overlap))
<1>1. now \in Nat /\ Overlap \in Nat \ {0}
  BY PollWalkAssumption DEF TypeOK
<1> QED
  BY <1>1 DEF Before, IsPast

-----------------------------------------------------------------------------
(* Every step keeps the invariant                                            *)

LEMMA InitInv == Init => IInv
<1> SUFFICES ASSUME Init PROVE IInv
  OBVIOUS
<1>1. TypeOK
  BY PollWalkAssumption DEF Init, TypeOK, Idle, PollState
<1>2. WalkTypes
  BY <1>1 DEF Init, WalkTypes, Idle
<1>3. ClockInv
  BY PollWalkAssumption DEF Init, ClockInv, IsPast, Idle
<1>4. WalkInv
  BY DEF Init, WalkInv, QueryInv, Reading, Idle
<1>5. CursorInv
  BY DEF Init, CursorInv, NoBillSkipped, ModifiedSince
<1> QED
  BY <1>2, <1>3, <1>4, <1>5 DEF IInv

\* While no walk is between two pages of one query, people save and approve
\* what they like.
LEMMA EditKeeps ==
  ASSUME IInv, NEW b \in Bill, Save(b) \/ Approve(b)
  PROVE  IInv'
<1>1. TypeOK /\ ClockInv /\ now \in Nat /\ cursor \in Nat /\ IsPast(cursor)
      /\ saved \in [Bill -> Nat] /\ drafts \subseteq Bill
  BY DEF IInv, WalkTypes, TypeOK, ClockInv
<1>2. /\ UNCHANGED <<now, cursor, faults>>
      /\ runs' = runs \ {b}
      /\ poll' = [p \in Poll |-> [poll[p] EXCEPT !.seen = @ \ {b}]]
      /\ EditsInSteps \/ ~Stepping
  BY DEF Save, Approve, Outdated
<1>3. /\ saved' \in [Bill -> Nat]
      /\ \A c \in Bill : saved'[c] = saved[c] \/ saved'[c] = now
      /\ drafts' \subseteq Bill /\ malformed' \subseteq drafts'
      /\ \A c \in drafts' \ {b} : c \in drafts /\ saved'[c] = saved[c]
      /\ b \in drafts' => saved'[b] = now
  <2>1. CASE Save(b)
    BY <1>1, <2>1 DEF Save, TypeOK
  <2>2. CASE Approve(b)
    BY <1>1, <2>2 DEF Approve, TypeOK
  <2> QED
    BY <2>1, <2>2
<1>4. ASSUME NEW p \in Poll
      PROVE  /\ poll'[p] \in PollState
             /\ poll'[p].seen = poll[p].seen \ {b}
             /\ poll'[p].pc = poll[p].pc /\ poll'[p].page = poll[p].page
             /\ poll'[p].left = poll[p].left /\ poll'[p].last = poll[p].last
             /\ poll'[p].since = poll[p].since /\ poll'[p].started = poll[p].started
             /\ poll'[p].truncated = poll[p].truncated
  BY <1>1, <1>2 DEF TypeOK, PollState
<1>5. poll' \in [Poll -> PollState]
  BY <1>2, <1>4
<1>6. WalkTypes'
  <2>1. UNCHANGED <<now, cursor, faults>> /\ runs' \subseteq runs
    BY <1>2
  <2>2. TypeOK'
    BY <1>1, <1>3, <1>5, <2>1 DEF TypeOK
  <2>3. \A p \in Poll :
          /\ poll'[p].page \in Nat \ {0}
          /\ poll'[p].pc = "walk" => poll'[p].left \in Nat \ {0}
          /\ poll'[p].pc = "cursor" => poll'[p].page = 1 /\ poll'[p].last = 0
    BY <1>4 DEF IInv, WalkTypes
  <2> QED
    BY <2>2, <2>3 DEF WalkTypes
<1>7. ClockInv'
  <2>1. now' = now /\ cursor' = cursor
    BY <1>2
  <2>2. \A c \in Bill : saved'[c] <= now
    BY <1>1, <1>3 DEF ClockInv
  <2>3. \A p \in Poll :
          poll'[p].started <= now /\ poll'[p].last <= now /\ IsPast(poll'[p].since)
    BY <1>1, <1>4 DEF ClockInv
  <2> QED
    BY <1>1, <2>1, <2>2, <2>3 DEF ClockInv, IsPast
<1>8. ASSUME NEW t \in Nat, IsPast(t), NEW c \in drafts',
             c # b => c \in runs' \/ ModifiedSince(c, t)
      PROVE  c \in runs' \/ ModifiedSince(c, t)'
  <2>1. CASE c = b
    BY <1>1, <1>3, <1>8, <2>1, SavedNow
  <2>2. CASE c # b
    BY <1>3, <1>8, <2>2 DEF ModifiedSince
  <2> QED
    BY <2>1, <2>2
<1>9. ASSUME NEW p \in Poll, NEW t \in Nat, IsPast(t), Covered(poll[p], t)
      PROVE  \A c \in drafts' : c \in runs' \/ c \in poll'[p].seen \/ ModifiedSince(c, t)'
  <2> SUFFICES ASSUME NEW c \in drafts', c \notin runs', c \notin poll'[p].seen
               PROVE  ModifiedSince(c, t)'
    OBVIOUS
  <2>1. c # b => ModifiedSince(c, t)
    BY <1>2, <1>3, <1>4, <1>9 DEF Covered
  <2> QED
    BY <1>8, <1>9, <2>1
<1>10. ASSUME ~EditsInSteps, NEW p \in Poll
       PROVE  QueryInv(poll[p])'
  <2>1. QueryInv(poll[p]) /\ poll[p] \in PollState /\ poll[p].page \in Nat \ {0}
    BY <1>1, <1>10 DEF IInv, WalkInv, WalkTypes, TypeOK
  <2>2. poll[p].since \in Nat /\ IsPast(poll[p].since)
    BY <1>1, <2>1 DEF ClockInv, PollState
  <2>3. poll[p].started \in Nat /\ poll[p].started <= now
    BY <1>1, <2>1 DEF ClockInv, PollState
  <2>4. Before(poll[p].started, Overlap) \in Nat /\ IsPast(Before(poll[p].started, Overlap))
    BY <1>1, <2>3, BeforeIsPast
  <2>5. (Reading(poll[p]) => /\ Covered(poll[p], poll[p].since)
                             /\ poll[p].last # 0 => Before(poll[p].last, Overlap) <= poll[p].since)'
    BY <1>4, <1>9, <2>1, <2>2 DEF QueryInv, Reading, Covered, Before
  <2>6. (poll[p].pc = "commit" /\ ~poll[p].truncated =>
           Covered(poll[p], Before(poll[p].started, Overlap)))'
    BY <1>4, <1>9, <2>1, <2>4 DEF QueryInv, Covered, Before
  <2>7. (poll[p].pc = "walk" => SteppedOver(poll[p]))'
    BY <1>2, <1>4, <1>10, <2>1 DEF Stepping, SteppedOver
  <2> QED
    BY <2>5, <2>6, <2>7 DEF QueryInv
<1>11. ASSUME ~EditsInSteps
       PROVE  NoBillSkipped'
  <2>1. \A c \in drafts' : c # b => c \in runs' \/ ModifiedSince(c, cursor)
    BY <1>2, <1>3, <1>11 DEF IInv, CursorInv, NoBillSkipped
  <2>2. \A c \in drafts' : c \in runs' \/ ModifiedSince(c, cursor)'
    BY <1>1, <1>2, <1>8, <2>1
  <2> QED
    BY <1>2, <2>2 DEF NoBillSkipped, ModifiedSince
<1> QED
  BY <1>6, <1>7, <1>10, <1>11 DEF IInv, WalkInv, CursorInv

\* What a step of one poll has to leave behind.
PollFits(r) ==
  /\ r \in PollState
  /\ r.page \in Nat \ {0}
  /\ r.pc = "walk" => r.left \in Nat \ {0}
  /\ r.pc = "cursor" => r.page = 1 /\ r.last = 0
  /\ r.started <= now
  /\ r.last <= now
  /\ IsPast(r.since)
  /\ ~EditsInSteps => QueryInv(r)

LEMMA PollKeeps ==
  ASSUME IInv, NEW p \in Poll, NEW r, poll' = [poll EXCEPT ![p] = r], PollFits(r),
         UNCHANGED <<now, saved, drafts, malformed>>, runs \subseteq runs', runs' \subseteq Bill,
         cursor' \in Nat, IsPast(cursor'), faults' \in Nat, CursorInv'
  PROVE  IInv'
<1>1. TypeOK /\ poll \in [Poll -> PollState]
  BY DEF IInv, WalkTypes, TypeOK
<1>2. poll'[p] = r /\ \A q \in Poll : q # p => poll'[q] = poll[q]
  BY <1>1
<1>3. poll' \in [Poll -> PollState]
  BY <1>1 DEF PollFits
<1>4. TypeOK'
  BY <1>1, <1>3 DEF TypeOK
<1>5. \A q \in Poll :
        /\ poll'[q].page \in Nat \ {0}
        /\ poll'[q].pc = "walk" => poll'[q].left \in Nat \ {0}
        /\ poll'[q].pc = "cursor" => poll'[q].page = 1 /\ poll'[q].last = 0
        /\ poll'[q].started <= now
        /\ poll'[q].last <= now
        /\ IsPast(poll'[q].since)
  BY <1>2 DEF PollFits, IInv, WalkTypes, ClockInv
<1>6. ClockInv'
  BY <1>5 DEF IInv, ClockInv, IsPast
<1>7. ~EditsInSteps => \A q \in Poll : QueryInv(poll'[q])
  BY <1>2 DEF PollFits, IInv, WalkInv
<1>8. \A q : QueryInv(q) => QueryInv(q)'
  BY NothingSaved
<1>9. WalkInv'
  BY <1>7, <1>8 DEF WalkInv
<1> QED
  BY <1>4, <1>5, <1>6, <1>9 DEF IInv, WalkTypes

LEMMA IdleFits ==
  ASSUME TypeOK
  PROVE  PollFits(Idle)
<1>1. Idle \in PollState /\ Idle.page = 1 /\ Idle.pc = "idle" /\ Idle.started = 0
      /\ Idle.last = 0 /\ Idle.since = 0
  BY DEF Idle, PollState
<1> QED
  BY <1>1 DEF PollFits, TypeOK, IsPast, QueryInv, Reading

LEMMA BeginKeeps ==
  ASSUME IInv, NEW p \in Poll, Begin(p)
  PROVE  IInv'
<1> DEFINE r == [Idle EXCEPT !.pc = "cursor", !.started = now]
<1>1. TypeOK /\ now \in Nat
  BY DEF IInv, WalkTypes, TypeOK
<1>2. /\ r \in PollState /\ r.page = 1 /\ r.last = 0 /\ r.pc = "cursor"
      /\ r.started = now /\ r.since = 0
  BY <1>1 DEF Idle, PollState
<1>3. poll' = [poll EXCEPT ![p] = r]
      /\ UNCHANGED <<now, saved, drafts, malformed, cursor, runs, faults>>
  BY DEF Begin
<1> HIDE DEF r
<1>4. PollFits(r)
  BY <1>1, <1>2 DEF PollFits, IsPast, QueryInv, Reading
<1>5. CursorInv'
  BY <1>3 DEF IInv, CursorInv, NoBillSkipped, ModifiedSince
<1> QED
  BY <1>1, <1>3, <1>4, <1>5, PollKeeps DEF IInv, WalkTypes, TypeOK, ClockInv

\* The cursor covers every draft without a run, so the first query does.
LEMMA ReadCursorKeeps ==
  ASSUME IInv, NEW p \in Poll, ReadCursor(p)
  PROVE  IInv'
<1> DEFINE r == [poll[p] EXCEPT !.pc = "walk", !.since = cursor, !.left = MaxPages]
<1>1. TypeOK /\ now \in Nat /\ cursor \in Nat /\ IsPast(cursor) /\ MaxPages \in Nat \ {0}
  BY PollWalkAssumption DEF IInv, WalkTypes, TypeOK, ClockInv
<1>2. /\ poll[p] \in PollState /\ poll[p].page = 1 /\ poll[p].last = 0
      /\ poll[p].started <= now
  BY DEF ReadCursor, IInv, WalkTypes, TypeOK, ClockInv
<1>3. /\ r \in PollState /\ r.pc = "walk" /\ r.since = cursor /\ r.left = MaxPages
      /\ r.page = 1 /\ r.last = 0 /\ r.started <= now
  BY <1>1, <1>2 DEF PollState
<1>4. poll' = [poll EXCEPT ![p] = r]
      /\ UNCHANGED <<now, saved, drafts, malformed, cursor, runs, faults>>
  BY DEF ReadCursor
<1> HIDE DEF r
<1>5. ~EditsInSteps => Covered(r, cursor)
  BY DEF IInv, CursorInv, NoBillSkipped, Covered
<1>6. ~EditsInSteps => QueryInv(r)
  BY <1>3, <1>5 DEF QueryInv, SteppedOver
<1>7. PollFits(r)
  BY <1>1, <1>3, <1>6 DEF PollFits
<1>8. CursorInv'
  BY <1>4 DEF IInv, CursorInv, NoBillSkipped, ModifiedSince
<1> QED
  BY <1>1, <1>4, <1>7, <1>8, PollKeeps DEF IInv, WalkTypes, TypeOK, ClockInv

LEMMA EndKeeps ==
  ASSUME IInv, NEW p \in Poll, Reject(p) \/ Fail(p)
  PROVE  IInv'
<1>1. TypeOK /\ IsPast(cursor) /\ faults' \in Nat
  BY DEF IInv, WalkTypes, TypeOK, ClockInv, Reject, Fail
<1>2. poll' = [poll EXCEPT ![p] = Idle]
      /\ UNCHANGED <<now, saved, drafts, malformed, cursor, runs>>
  BY DEF Reject, Fail
<1>3. CursorInv'
  BY <1>2 DEF IInv, CursorInv, NoBillSkipped, ModifiedSince
<1> QED
  BY <1>1, <1>2, <1>3, IdleFits, PollKeeps DEF TypeOK

\* Where the new cursor lies: before all that is still in hand.
LEMMA NewCursorIsPast ==
  ASSUME IInv, NEW p \in Poll, poll[p].pc = "commit"
  PROVE  NewCursor(p) \in Nat /\ IsPast(NewCursor(p))
<1>1. /\ TypeOK /\ ClockInv /\ cursor \in Nat /\ IsPast(cursor)
      /\ poll[p] \in PollState /\ poll[p].started <= now /\ poll[p].last <= now
  BY DEF IInv, WalkTypes, TypeOK, ClockInv
<1>2. poll[p].started \in Nat /\ poll[p].last \in Nat
  BY <1>1 DEF PollState
<1>3. \A t \in {poll[p].started, poll[p].last} :
        Before(t, Overlap) \in Nat /\ IsPast(Before(t, Overlap))
  BY <1>1, <1>2, BeforeIsPast
<1> QED
  BY <1>1, <1>3 DEF NewCursor

\* The new cursor covers what the poll leaves without a run.
LEMMA NewCursorCovers ==
  ASSUME IInv, ~EditsInSteps, NEW p \in Poll, poll[p].pc = "commit"
  PROVE  Covered(poll[p], NewCursor(p))
<1>1. /\ TypeOK /\ drafts \subseteq Bill /\ Overlap \in Nat \ {0}
      /\ poll[p] \in PollState /\ QueryInv(poll[p])
  BY PollWalkAssumption DEF IInv, WalkTypes, WalkInv, TypeOK
<1>2. CASE ~poll[p].truncated
  BY <1>1, <1>2 DEF QueryInv, NewCursor
<1>3. CASE poll[p].truncated /\ poll[p].last # 0
  <2>1. NewCursor(p) = Before(poll[p].last, Overlap)
    BY <1>3 DEF NewCursor
  <2>2. Covered(poll[p], poll[p].since) /\ NewCursor(p) <= poll[p].since
    BY <1>1, <1>3, <2>1 DEF QueryInv, Reading
  <2>3. NewCursor(p) \in Nat /\ poll[p].since \in Nat
    BY <1>1, NewCursorIsPast DEF PollState
  <2>4. \A b \in drafts : ModifiedSince(b, poll[p].since) => ModifiedSince(b, NewCursor(p))
    BY <1>1, <2>2, <2>3, ModifiedBefore
  <2> QED
    BY <2>2, <2>4 DEF Covered
<1>4. CASE poll[p].truncated /\ poll[p].last = 0
  <2>1. NewCursor(p) = cursor
    BY <1>4 DEF NewCursor
  <2> QED
    BY <2>1 DEF Covered, IInv, CursorInv, NoBillSkipped
<1> QED
  BY <1>2, <1>3, <1>4

LEMMA CommitKeeps ==
  ASSUME IInv, NEW p \in Poll, Commit(p)
  PROVE  IInv'
<1>1. TypeOK /\ poll[p] \in PollState
  BY DEF IInv, WalkTypes, TypeOK
<1>2. /\ poll[p].pc = "commit"
      /\ runs' = runs \cup poll[p].seen /\ cursor' = NewCursor(p)
      /\ poll' = [poll EXCEPT ![p] = Idle]
      /\ UNCHANGED <<now, saved, drafts, malformed, faults>>
  BY DEF Commit
<1>3. cursor' \in Nat /\ IsPast(cursor')
  BY <1>2, NewCursorIsPast
<1>4. CursorInv'
  <2>1. ~EditsInSteps => Covered(poll[p], cursor')
    BY <1>2, NewCursorCovers
  <2> QED
    BY <1>2, <2>1 DEF CursorInv, NoBillSkipped, Covered, ModifiedSince
<1>5. runs \subseteq runs' /\ runs' \subseteq Bill /\ faults' \in Nat
  BY <1>1, <1>2 DEF TypeOK, PollState
<1> QED
  BY <1>1, <1>2, <1>3, <1>4, <1>5, IdleFits, PollKeeps

\* Of some drafts one was saved last.
LEMMA NewestSaved ==
  ASSUME TypeOK, ClockInv, NEW S, S \subseteq drafts, S # {}
  PROVE  LET newest == Max({saved[b] : b \in S})
         IN  /\ newest \in Nat /\ newest <= now
             /\ \E b \in S : saved[b] = newest
             /\ \A b \in S : saved[b] <= newest
<1> DEFINE T == {saved[b] : b \in S}
<1>1. now \in Nat /\ S \subseteq Bill /\ \A b \in Bill : saved[b] \in Nat /\ saved[b] <= now
  BY DEF TypeOK, ClockInv
<1>2. T \subseteq Nat /\ T # {} /\ \A t \in T : t <= now
  BY <1>1
<1>3. \A b \in S : saved[b] \in T
  OBVIOUS
<1>4. \A t \in T : \E b \in S : saved[b] = t
  OBVIOUS
<1> HIDE DEF T
<1>5. Max(T) \in T /\ \A t \in T : t <= Max(T)
  BY <1>1, <1>2, NewestOf
<1>6. Max(T) \in Nat /\ Max(T) <= now /\ (\E b \in S : saved[b] = Max(T))
      /\ \A b \in S : saved[b] <= Max(T)
  BY <1>2, <1>3, <1>4, <1>5
<1> QED
  BY <1>6 DEF T

\* What the walk makes of an answer.
LEMMA FetchResult ==
  ASSUME IInv, NEW p \in Poll, Fetch(p)
  PROVE  LET q == poll[p]
             answer == Page(q.since, q.page)
             fresh == answer \ q.seen
             short == Cardinality(answer) < PageSize
         IN  \E r \in PollState :
               /\ poll' = [poll EXCEPT ![p] = r]
               /\ r.started = q.started /\ r.seen = q.seen \cup fresh
               /\ r.last = IF fresh = {} THEN q.last ELSE Max({saved[b] : b \in fresh})
               /\ r.truncated = ~short
               /\ r.pc \in {"walk", "commit"}
               /\ r.pc = "walk" => ~short /\ r.left \in Nat \ {0}
               /\ short => r.since = q.since /\ r.page = q.page
               /\ ~short /\ fresh # {} =>
                    r.since = Before(Max({saved[b] : b \in answer}), 1) /\ r.page = 1
               /\ ~short /\ fresh = {} => r.since = q.since /\ r.page = q.page + 1
<1> DEFINE q == poll[p]
           answer == Page(q.since, q.page)
           fresh == answer \ q.seen
           short == Cardinality(answer) < PageSize
           next == IF short THEN q ELSE NextQuery(p, answer, fresh)
           last == IF fresh = {} THEN q.last ELSE Max({saved[b] : b \in fresh})
           refused == q.refused \/ fresh \cap malformed # {}
           seen == q.seen \cup fresh
           pc == IF short \/ LastRequest(p) THEN "commit" ELSE "walk"
           r == [next EXCEPT !.seen = seen, !.refused = refused, !.last = last,
                             !.left = q.left - 1, !.truncated = ~short, !.pc = pc]
<1>1. /\ TypeOK /\ ClockInv /\ q.pc = "walk" /\ q \in PollState
      /\ q.page \in Nat \ {0} /\ q.left \in Nat \ {0}
  BY DEF Fetch, IInv, WalkTypes, TypeOK
<1>2. answer \subseteq drafts /\ fresh \subseteq drafts /\ drafts \subseteq Bill
  BY <1>1, FoundTypes, PageOf
<1>3. last \in Nat
  BY <1>1, <1>2, NewestSaved DEF PollState
<1>4. fresh # {} => Before(Max({saved[b] : b \in answer}), 1) \in Nat
  <2>1. fresh # {} => Max({saved[b] : b \in answer}) \in Nat
    BY <1>1, <1>2, NewestSaved
  <2> QED
    BY <2>1 DEF Before
<1>5. /\ refused \in BOOLEAN /\ seen \in SUBSET Bill /\ pc \in {"walk", "commit"}
      /\ (~short) \in BOOLEAN
  BY <1>1, <1>2 DEF PollState
<1>6. q.left - 1 \in Nat /\ (pc = "walk" => ~short /\ q.left - 1 \in Nat \ {0})
  BY <1>1 DEF LastRequest
<1>7. /\ next.seen = q.seen /\ next.refused = q.refused /\ next.last = q.last /\ next.left = q.left
      /\ next.started = q.started
      /\ short => next.since = q.since /\ next.page = q.page
      /\ ~short /\ fresh # {} =>
           next.since = Before(Max({saved[b] : b \in answer}), 1) /\ next.page = 1
      /\ ~short /\ fresh = {} => next.since = q.since /\ next.page = q.page + 1
      /\ next \in PollState
  <2> DEFINE back == Before(Max({saved[b] : b \in answer}), 1)
             requeried == [q EXCEPT !.since = back, !.page = 1]
             stepped == [q EXCEPT !.page = @ + 1]
  <2>1. next = IF short THEN q ELSE IF fresh # {} THEN requeried ELSE stepped
    BY DEF NextQuery
  <2> HIDE DEF back, next
  <2>2. fresh # {} => back \in Nat
    BY <1>4 DEF back
  <2> HIDE DEF q, answer, fresh, short
  <2>3. /\ back \in Nat => requeried \in PollState
        /\ requeried.seen = q.seen /\ requeried.refused = q.refused
        /\ requeried.last = q.last /\ requeried.left = q.left /\ requeried.started = q.started
        /\ requeried.since = back /\ requeried.page = 1
    BY <1>1 DEF PollState
  <2>4. /\ stepped \in PollState
        /\ stepped.seen = q.seen /\ stepped.refused = q.refused
        /\ stepped.last = q.last /\ stepped.left = q.left /\ stepped.started = q.started
        /\ stepped.since = q.since /\ stepped.page = q.page + 1
    BY <1>1 DEF PollState
  <2> HIDE DEF requeried, stepped
  <2>5. CASE short
    BY <1>1, <2>1, <2>5
  <2>6. CASE ~short /\ fresh # {}
    BY <2>1, <2>2, <2>3, <2>6 DEF back
  <2>7. CASE ~short /\ fresh = {}
    BY <2>1, <2>4, <2>7
  <2> QED
    BY <2>5, <2>6, <2>7
<1>8. poll' = [poll EXCEPT ![p] = [next EXCEPT
                 !.seen = @ \cup fresh,
                 !.refused = @ \/ fresh \cap malformed # {},
                 !.last = IF fresh = {} THEN @ ELSE Max({saved[b] : b \in fresh}),
                 !.left = @ - 1,
                 !.truncated = ~short,
                 !.pc = pc]]
  BY DEF Fetch
<1> HIDE DEF next
<1>9. poll' = [poll EXCEPT ![p] = r]
  BY <1>7, <1>8
<1> HIDE DEF q, answer, fresh, short, last, refused, seen, pc
<1>10. /\ r \in PollState /\ r.started = next.started /\ r.seen = seen /\ r.last = last
       /\ r.truncated = ~short /\ r.pc = pc /\ r.left = q.left - 1
       /\ r.since = next.since /\ r.page = next.page
  BY <1>3, <1>5, <1>6, <1>7 DEF PollState
<1> HIDE DEF r
<1>11. /\ seen = q.seen \cup fresh
       /\ last = IF fresh = {} THEN q.last ELSE Max({saved[b] : b \in fresh})
  BY DEF seen, last
<1> QED
  BY <1>5, <1>6, <1>7, <1>9, <1>10, <1>11 DEF q, answer, fresh, short

\* What a walk has not in hand comes on this page or after it.
LEMMA NotYetOnPage ==
  ASSUME IInv, ~EditsInSteps, NEW p \in Poll, poll[p].pc = "walk",
         NEW b \in Found(poll[p].since), b \notin poll[p].seen
  PROVE  /\ Rank(poll[p].since, b) \in Nat
         /\ Rank(poll[p].since, b) \div PageSize \in Nat
         /\ Rank(poll[p].since, b) \div PageSize >= poll[p].page - 1
<1>1. TypeOK /\ poll[p].page \in Nat \ {0} /\ SteppedOver(poll[p])
  BY DEF IInv, WalkTypes, WalkInv, QueryInv
<1>2. Rank(poll[p].since, b) \in Nat
  BY <1>1, FoundTypes
<1>3. Rank(poll[p].since, b) \div PageSize \in Nat
  BY <1>2, PollWalkAssumption
<1>4. poll[p].page > 1 => ~(Rank(poll[p].since, b) \div PageSize < poll[p].page - 1)
  BY <1>1 DEF SteppedOver
<1> QED
  BY <1>1, <1>2, <1>3, <1>4

\* A bill after the page was saved no earlier than the newest on it.
LEMMA AfterThePage ==
  ASSUME TypeOK, NEW since, NEW page \in Nat \ {0}, NEW b \in Found(since),
         Rank(since, b) \div PageSize > page - 1,
         NEW c \in Page(since, page)
  PROVE  saved[b] >= saved[c]
<1>1. c \in Found(since) /\ Rank(since, c) \div PageSize = page - 1
  BY PageOf
<1>2. saved[b] \in Nat /\ saved[c] \in Nat /\ Rank(since, b) \in Nat /\ Rank(since, c) \in Nat
  BY <1>1, FoundTypes
<1> SUFFICES ASSUME saved[b] < saved[c] PROVE FALSE
  BY <1>2
<1>3. Rank(since, b) < Rank(since, c)
  BY <1>1, RanksInOrder DEF Precedes
<1>4. Rank(since, b) \div PageSize <= Rank(since, c) \div PageSize
  BY <1>2, <1>3, PollWalkAssumption, PagesInOrder
<1>5. Rank(since, b) \div PageSize \in Nat
  BY <1>2, PollWalkAssumption
<1> QED
  BY <1>1, <1>4, <1>5

LEMMA FetchKeeps ==
  ASSUME IInv, NEW p \in Poll, Fetch(p)
  PROVE  IInv'
<1> DEFINE q == poll[p]
           answer == Page(q.since, q.page)
           fresh == answer \ q.seen
           short == Cardinality(answer) < PageSize
           newest == Max({saved[b] : b \in answer})
           last == Max({saved[b] : b \in fresh})
<1>1. /\ TypeOK /\ ClockInv /\ now \in Nat /\ drafts \subseteq Bill
      /\ q.pc = "walk" /\ q \in PollState /\ q.page \in Nat \ {0}
      /\ q.started <= now /\ q.last <= now /\ IsPast(q.since)
      /\ \A b \in Bill : saved[b] \in Nat
  BY DEF Fetch, IInv, WalkTypes, TypeOK, ClockInv
<1>2. ~EditsInSteps => /\ Covered(q, q.since) /\ SteppedOver(q)
                       /\ q.last # 0 => Before(q.last, Overlap) <= q.since
  BY <1>1 DEF IInv, WalkInv, QueryInv, Reading
<1>3. PICK r \in PollState :
        /\ poll' = [poll EXCEPT ![p] = r]
        /\ r.started = q.started /\ r.seen = q.seen \cup fresh
        /\ r.last = IF fresh = {} THEN q.last ELSE last
        /\ r.truncated = ~short
        /\ r.pc \in {"walk", "commit"}
        /\ r.pc = "walk" => ~short /\ r.left \in Nat \ {0}
        /\ short => r.since = q.since /\ r.page = q.page
        /\ ~short /\ fresh # {} => r.since = Before(newest, 1) /\ r.page = 1
        /\ ~short /\ fresh = {} => r.since = q.since /\ r.page = q.page + 1
  BY FetchResult
<1>4. UNCHANGED <<now, saved, drafts, malformed, cursor, runs, faults>>
  BY DEF Fetch
<1>5. /\ answer = {b \in Found(q.since) : Rank(q.since, b) \div PageSize = q.page - 1}
      /\ Found(q.since) \subseteq drafts
  BY <1>1, PageOf, FoundTypes
<1>6. ~EditsInSteps => \A b \in Found(q.since) \ q.seen :
        /\ Rank(q.since, b) \in Nat /\ Rank(q.since, b) \div PageSize \in Nat
        /\ Rank(q.since, b) \div PageSize >= q.page - 1
  BY <1>1, NotYetOnPage
<1>7. ~EditsInSteps => \A b \in drafts : b \in runs \/ b \in q.seen \/ b \in Found(q.since)
  BY <1>2 DEF Covered, Found
<1>8. short => \A b \in Found(q.since) : Rank(q.since, b) \div PageSize <= q.page - 1
  BY <1>1, ShortPageIsLast
<1>9. fresh # {} =>
        /\ newest \in Nat /\ newest <= now /\ \E c \in answer : saved[c] = newest
        /\ last \in Nat /\ last <= newest
  <2> SUFFICES ASSUME fresh # {} PROVE newest \in Nat /\ newest <= now
                                       /\ (\E c \in answer : saved[c] = newest)
                                       /\ last \in Nat /\ last <= newest
    OBVIOUS
  <2>1. answer \subseteq drafts /\ answer # {} /\ fresh \subseteq drafts
    BY <1>5
  <2>2. /\ newest \in Nat /\ newest <= now
        /\ (\E c \in answer : saved[c] = newest) /\ \A c \in answer : saved[c] <= newest
    BY <1>1, <2>1, NewestSaved
  <2>3. last \in Nat /\ \E c \in fresh : saved[c] = last
    BY <1>1, <2>1, NewestSaved
  <2> QED
    BY <2>2, <2>3
<1> HIDE DEF q, answer, fresh, short, newest, last
<1>10. ASSUME ~EditsInSteps, short
       PROVE  QueryInv(r)
  <2>1. ASSUME NEW b \in drafts PROVE b \in runs \/ b \in r.seen
    <3>1. CASE b \in Found(q.since) \ q.seen
      <4>1. Rank(q.since, b) \div PageSize = q.page - 1
        BY <1>1, <1>6, <1>8, <1>10, <3>1
      <4> QED
        BY <1>3, <1>5, <3>1, <4>1 DEF fresh
    <3> QED
      BY <1>3, <1>7, <1>10, <3>1
  <2>2. QueryInv(r)
    BY <1>3, <1>10, <2>1 DEF QueryInv, Reading, Covered
  <2> QED
    BY <2>2
\* The next query goes back to just before the newest bill of the page.
<1>11. ASSUME ~EditsInSteps, ~short, fresh # {}
       PROVE  QueryInv(r)
  <2>1. r.since = Before(newest, 1) /\ r.page = 1 /\ r.last = last /\ r.truncated
    BY <1>3, <1>11
  <2>2. /\ r.since \in Nat /\ IsPast(r.since)
        /\ newest \in Nat /\ (r.since = 0 \/ r.since < newest)
        /\ Before(r.last, Overlap) <= r.since
    BY <1>1, <1>9, <1>11, <2>1, PollWalkAssumption DEF Before, IsPast
  <2>3. ASSUME NEW b \in drafts, b \notin runs, b \notin r.seen
        PROVE  ModifiedSince(b, r.since)
    <3>1. b \in Found(q.since) \ q.seen /\ b \notin answer
      BY <1>3, <1>7, <1>11, <2>3 DEF fresh
    <3>2. Rank(q.since, b) \div PageSize > q.page - 1
      BY <1>1, <1>5, <1>6, <1>11, <3>1
    <3>3. PICK c \in answer : saved[c] = newest
      BY <1>9, <1>11
    <3>4. saved[b] >= newest
      BY <1>1, <3>1, <3>2, <3>3, AfterThePage DEF answer
    <3>5. saved[b] \in Nat
      BY <1>1
    <3> QED
      BY <2>2, <3>4, <3>5 DEF ModifiedSince
  <2>4. QueryInv(r)
    BY <2>1, <2>2, <2>3 DEF QueryInv, Covered, SteppedOver
  <2> QED
    BY <2>4
\* A page with nothing new is stepped over.
<1>12. ASSUME ~EditsInSteps, ~short, fresh = {}
       PROVE  QueryInv(r)
  <2>1. /\ r.since = q.since /\ r.page = q.page + 1 /\ r.last = q.last /\ r.truncated
        /\ r.seen = q.seen /\ answer \subseteq q.seen
    BY <1>3, <1>12 DEF fresh
  <2>2. Covered(r, r.since) /\ (r.last # 0 => Before(r.last, Overlap) <= r.since)
    BY <1>2, <1>12, <2>1 DEF Covered
  <2>3. SteppedOver(r)
    <3> SUFFICES ASSUME NEW b \in Found(q.since), b \notin q.seen,
                        Rank(q.since, b) \div PageSize < q.page
                 PROVE  FALSE
      BY <1>1, <2>1 DEF SteppedOver
    <3>1. Rank(q.since, b) \div PageSize = q.page - 1
      BY <1>1, <1>6, <1>12
    <3> QED
      BY <1>5, <2>1, <3>1
  <2>4. QueryInv(r)
    BY <2>1, <2>2, <2>3 DEF QueryInv
  <2> QED
    BY <2>4
<1>13. PollFits(r)
  <2>1. ~EditsInSteps => QueryInv(r)
    BY <1>10, <1>11, <1>12
  <2>2. fresh # {} => Before(newest, 1) \in Nat /\ IsPast(Before(newest, 1))
    BY <1>1, <1>9 DEF Before, IsPast
  <2>3. r.page \in Nat \ {0} /\ IsPast(r.since)
    BY <1>1, <1>3, <2>2
  <2>4. r.last <= now
    BY <1>1, <1>3, <1>9
  <2> QED
    BY <1>1, <1>3, <2>1, <2>3, <2>4 DEF PollFits
<1>14. CursorInv'
  BY <1>4 DEF IInv, CursorInv, NoBillSkipped, ModifiedSince
<1> QED
  BY <1>1, <1>3, <1>4, <1>13, <1>14, PollKeeps DEF q, IInv, WalkTypes, TypeOK, ClockInv

LEMMA TickKeeps ==
  ASSUME IInv, Tick
  PROVE  IInv'
<1>1. /\ now' = now + 1 /\ now \in Nat
      /\ UNCHANGED <<saved, drafts, malformed, cursor, runs, poll, faults>>
  BY DEF Tick, IInv, WalkTypes, TypeOK
<1>2. WalkTypes'
  BY <1>1 DEF IInv, WalkTypes, TypeOK
<1>3. ClockInv'
  <2>1. /\ \A b \in Bill : saved[b] \in Nat
        /\ cursor \in Nat
        /\ \A p \in Poll : /\ poll[p].started \in Nat /\ poll[p].last \in Nat
                            /\ poll[p].since \in Nat
    BY DEF IInv, WalkTypes, TypeOK, PollState
  <2> QED
    BY <1>1, <2>1 DEF IInv, ClockInv, IsPast
<1>4. \A q : QueryInv(q) => QueryInv(q)'
  BY <1>1, NothingSaved
<1>5. WalkInv'
  BY <1>1, <1>4 DEF IInv, WalkInv
<1>6. CursorInv'
  BY <1>1 DEF IInv, CursorInv, NoBillSkipped, ModifiedSince
<1> QED
  BY <1>2, <1>3, <1>5, <1>6 DEF IInv

LEMMA NextInv == IInv /\ [Next]_vars => IInv'
<1> SUFFICES ASSUME IInv, [Next]_vars PROVE IInv'
  OBVIOUS
<1>1. ASSUME NEW b \in Bill, Save(b) \/ Approve(b) PROVE IInv'
  BY <1>1, EditKeeps
<1>2. ASSUME NEW p \in Poll, Begin(p) \/ Proceed(p) \/ Fail(p) PROVE IInv'
  BY <1>2, BeginKeeps, ReadCursorKeeps, FetchKeeps, CommitKeeps, EndKeeps DEF Proceed
<1>3. CASE Tick
  BY <1>3, TickKeeps
<1>4. CASE UNCHANGED vars
  <2>1. UNCHANGED <<now, saved, drafts, malformed, cursor, runs, poll, faults>>
    BY <1>4 DEF vars
  <2>2. WalkTypes' /\ ClockInv'
    BY <2>1 DEF IInv, WalkTypes, TypeOK, ClockInv, IsPast
  <2>3. \A q : QueryInv(q) => QueryInv(q)'
    BY <2>1, NothingSaved
  <2>4. WalkInv' /\ CursorInv'
    BY <2>1, <2>3 DEF IInv, WalkInv, CursorInv, NoBillSkipped, ModifiedSince
  <2> QED
    BY <2>2, <2>4 DEF IInv
<1> QED
  BY <1>1, <1>2, <1>3, <1>4 DEF Next

\* When no bill is saved or approved between two pages of one query, a draft
\* without a run is always one the next poll asks Xero for, however many bills
\* share a time, wherever polls are cut short, overlap or fail, and whatever is
\* saved while a page is fetched or a poll commits (walk_pages, advance_cursor).
THEOREM NothingIsSkipped ==
  ASSUME ~EditsInSteps
  PROVE  Spec => []NoBillSkipped
<1>1. IInv => NoBillSkipped
  BY DEF IInv, CursorInv
<1> QED
  BY InitInv, NextInv, <1>1, PTL DEF Spec

\* The state keeps its types; in particular neither the page number nor the
\* requests left to a walk ever reach zero while it goes on (walk_pages).
THEOREM TypeCorrect == Spec => []TypeOK
<1>1. IInv => TypeOK
  BY DEF IInv, WalkTypes
<1> QED
  BY InitInv, NextInv, <1>1, PTL DEF Spec
=============================================================================
