------------------------- MODULE PrintSpoolerProofs -------------------------
(***************************************************************************)
(* Proofs about PrintSpooler, for any number of clients and any buffer     *)
(* size the server accepts, zero included.                                 *)
(***************************************************************************)
EXTENDS PrintSpooler, FiniteSetTheorems, TLAPS

USE SizeAssumption, ClientsAssumption

-----------------------------------------------------------------------------
\* Arithmetic of the ring.

\* The index that follows another is the next one, or 0 after the last.
LEMMA FollowingWraps ==
  ASSUME NEW i \in Nat, i < bufferSize
  PROVE  Following(i) = IF i + 1 = bufferSize THEN 0 ELSE i + 1
  <1>1. CASE i + 1 = bufferSize
    BY <1>1, SMT DEF Following
  <1>2. CASE i + 1 < bufferSize
    BY <1>2, SMT DEF Following
  <1> QED  BY <1>1, <1>2

\* The ring seen from the next head is the ring seen from this one, one on.
LEMMA SlotsFromNextHead ==
  ASSUME NEW h \in Nat, h < bufferSize, NEW i \in Nat, i < bufferSize
  PROVE  LET from(k, j) == IF k + j < bufferSize THEN k + j
                                                 ELSE k + j - bufferSize
         IN  from(Following(h), i) = from(h, i + 1)
  BY FollowingWraps

-----------------------------------------------------------------------------
\* Counting clients.

\* The clients at some labels are a finite set: their number is a natural,
\* positive when there is one, and when it is 1 there is only one.
LEMMA CountingClients ==
  ASSUME NEW labels
  PROVE  /\ NClients(labels) \in Nat
         /\ \A c \in ClientsAt(labels) : NClients(labels) > 0
         /\ NClients(labels) <= 1 =>
               \A c, d \in ClientsAt(labels) : c = d
         /\ NClients(labels) = 0 => ClientsAt(labels) = {}
  <1>1. IsFiniteSet(ClientsAt(labels))
    BY FS_Subset DEF ClientsAt
  <1>2. NClients(labels) \in Nat
    BY <1>1, FS_CardinalityType DEF NClients
  <1>3. NClients(labels) = 0 => ClientsAt(labels) = {}
    BY <1>1, FS_EmptySet DEF NClients
  <1>4. NClients(labels) = 1 => \E x : ClientsAt(labels) = {x}
    BY <1>1, FS_Singleton DEF NClients
  <1> QED  BY <1>1, <1>2, <1>3, <1>4, FS_EmptySet DEF NClients

\* A client that moves from one label to another is counted where it goes and
\* no longer where it was.
LEMMA CountAfterMove ==
  ASSUME NEW labels, cpc \in [Clients -> ClientLabels],
         NEW c \in Clients, NEW here, NEW there, ClientAt(c, here, there)
  PROVE  NClients(labels)' = NClients(labels)
                               + (IF there \in labels THEN 1 ELSE 0)
                               - (IF here \in labels THEN 1 ELSE 0)
  <1> DEFINE S == ClientsAt(labels)
  <1>1. IsFiniteSet(S)
    BY FS_Subset DEF ClientsAt
  <1>2. S' = IF there \in labels THEN S \cup {c} ELSE S \ {c}
    BY DEF ClientAt, ClientsAt
  <1>3. c \in S <=> here \in labels
    BY DEF ClientAt, ClientsAt
  <1>4. Cardinality(S) \in Nat
    BY <1>1, FS_CardinalityType
  <1>5. /\ Cardinality(S \cup {c}) = IF c \in S THEN Cardinality(S)
                                              ELSE Cardinality(S) + 1
        /\ Cardinality(S \ {c}) = IF c \in S THEN Cardinality(S) - 1
                                           ELSE Cardinality(S)
    BY <1>1, FS_AddElement, FS_RemoveElement
  <1>6. /\ NClients(labels) = Cardinality(S)
        /\ NClients(labels)' = Cardinality(S')
    BY DEF NClients
  <1>7. CASE there \in labels
    BY <1>2, <1>3, <1>4, <1>5, <1>6, <1>7
  <1>8. CASE there \notin labels
    BY <1>2, <1>3, <1>4, <1>5, <1>6, <1>8
  <1> QED  BY <1>7, <1>8

-----------------------------------------------------------------------------
\* What the inductive invariant says of a state.

\* A state with all its tokens has no token too many.
LEMMA AccountedIsSound == IndInv => SoundInv
  <1> SUFFICES ASSUME IndInv
               PROVE  SoundInv
    OBVIOUS
  <1>1. \A L : NClients(L) \in Nat /\ NServer(L) \in Nat
    BY CountingClients DEF NServer
  <1>2. mutex \in Nat /\ empty \in Nat /\ full \in Nat /\ Count \in Nat
    BY DEF IndInv, TypeOK, RingHoldsTheJobs
  <1>3. NoTokenMadeUp
    BY <1>1, <1>2 DEF IndInv, TokensAccountedFor, NoTokenMadeUp, InTheMutex,
                      Occupied, InTransit
  <1> QED  BY <1>3 DEF IndInv, SoundInv

\* Two processes inside would need two mutex tokens, a client inside holds a
\* token of empty and a printer inside one of full.
LEMMA SoundConsequences ==
  ASSUME SoundInv
  PROVE  MutualExclusion /\ NoOverrun
  <1> USE DEF SoundInv
  <1>1. \A L \in {ClientInside, Claiming, Announcing} :
           /\ NClients(L) \in Nat
           /\ \A c \in ClientsAt(L) : NClients(L) > 0
           /\ NClients(L) <= 1 => \A c, d \in ClientsAt(L) : c = d
           /\ NClients(L) = 0 => ClientsAt(L) = {}
    BY CountingClients
  <1>2. /\ mutex \in Nat /\ empty \in Nat /\ full \in Nat
        /\ bufferSize \in Nat /\ Count \in 0 .. bufferSize
    BY DEF TypeOK, RingHoldsTheJobs
  <1>3. /\ mutex + NClients(ClientInside) + NServer(ServerInside) <= 1
        /\ empty + NClients(Claiming) + Count + NServer(Returning) <= bufferSize
        /\ full + NClients(Announcing) + NServer(Fetching) <= Count
    BY <1>1, <1>2 DEF NoTokenMadeUp, InTheMutex, Occupied, InTransit,
                      NServer
  <1>a. MutualExclusion
    <2>1. NClients(ClientInside) <= 1
      BY <1>1, <1>2, <1>3 DEF NServer
    <2>2. spc \in ServerInside => NClients(ClientInside) = 0
      BY <1>1, <1>2, <1>3 DEF NServer
    <2> QED  BY <1>1, <2>1, <2>2 DEF MutualExclusion
  <1>b. NoOverrun
    <2>1. ASSUME NEW c \in Clients, cpc[c] \in {"store", "advance"}
          PROVE  Count < bufferSize
      <3>1. NClients(Claiming) > 0
        BY <1>1, <2>1 DEF ClientsAt, Claiming
      <3> QED  BY <1>1, <1>2, <1>3, <3>1 DEF NServer
    <2>2. ASSUME spc \in {"read", "advance"}
          PROVE  Count > 0
      <3>1. NServer(Fetching) = 1
        BY <2>2 DEF NServer, Fetching
      <3> QED  BY <1>1, <1>2, <1>3, <3>1
    <2> QED  BY <2>1, <2>2 DEF NoOverrun
  <1> QED  BY <1>a, <1>b

\* When everyone is blocked and every token is accounted for, no token is on
\* its way: all jobs are printed.
LEMMA InvariantConsequences ==
  ASSUME IndInv
  PROVE  MutualExclusion /\ NoOverrun /\ StopsOnlyWhenDone
  <1> USE DEF IndInv
  <1>0. MutualExclusion /\ NoOverrun
    BY AccountedIsSound, SoundConsequences
  <1>a. NClients(ClientInside) \in Nat /\ NClients(Claiming) \in Nat
                                      /\ NClients(Announcing) \in Nat
    BY CountingClients
  <1>b. /\ mutex \in Nat /\ empty \in Nat /\ full \in Nat
        /\ bufferSize \in Nat /\ Count \in 0 .. bufferSize
    BY DEF TypeOK, RingHoldsTheJobs
  <1>c. /\ mutex + NClients(ClientInside) + NServer(ServerInside) = 1
        /\ empty + NClients(Claiming) + Count + NServer(Returning) = bufferSize
        /\ full + NClients(Announcing) + NServer(Fetching) = Count
    BY <1>a, <1>b DEF TokensAccountedFor, InTheMutex, Occupied, InTransit,
                      NServer
  <1> SUFFICES ASSUME bufferSize > 0, ServerBlocked,
                      \A c \in Clients : ClientBlocked(c)
               PROVE  /\ \A c \in Clients : cpc[c] = "done"
                      /\ Len(printed) = Len(accepted)
                      /\ spc = "wait_full"
    BY <1>0 DEF StopsOnlyWhenDone
  <1>1. ClientsAt(ClientInside) = {} /\ ClientsAt(Announcing) = {}
    BY DEF ClientsAt, ClientInside, Announcing, ClientBlocked
  <1>2. NClients(ClientInside) = 0 /\ NClients(Announcing) = 0
    BY <1>1, FS_EmptySet DEF NClients
  <1>3. mutex = 1 /\ spc = "wait_full" /\ full = 0
    BY <1>b, <1>c, <1>2 DEF ServerBlocked, NServer, ServerInside
  <1>4. Count = 0
    BY <1>b, <1>c, <1>2, <1>3 DEF NServer, Fetching
  <1>5. ClientsAt(Claiming) = {}
    BY <1>3 DEF ClientsAt, Claiming, ClientBlocked
  <1>6. empty = bufferSize
    <2>1. NClients(Claiming) = 0
      BY <1>5, FS_EmptySet DEF NClients
    <2> QED  BY <1>b, <1>c, <1>3, <1>4, <2>1 DEF NServer, Returning
  <1>7. \A c \in Clients : cpc[c] = "done"
    BY <1>3, <1>6 DEF ClientBlocked
  <1>8. Len(accepted) \in Nat /\ Len(printed) \in Nat
    BY DEF TypeOK
  <1>9. Len(printed) = Len(accepted)
    BY <1>3, <1>4, <1>8 DEF Count, Taken, NServer, InHand
  <1> QED  BY <1>3, <1>7, <1>9

-----------------------------------------------------------------------------
\* The invariant holds when the server has booted.
LEMMA InvariantInitially == Init => IndInv
  <1> SUFFICES ASSUME Init PROVE IndInv
    OBVIOUS
  <1> USE DEF Init
  <1>0. /\ accepted \in Seq(Clients) /\ Len(accepted) = 0
        /\ printed \in Seq(Clients \cup {NoJob}) /\ Len(printed) = 0
    OBVIOUS
  <1>1. TypeOK
    <2>1. elements \in [Slots -> Clients \cup {NoJob}]
      OBVIOUS
    <2>2. /\ cpc \in [Clients -> ClientLabels]
          /\ didWait \in [Clients -> BOOLEAN]
          /\ spc \in ServerLabels
      BY DEF ClientLabels, ServerLabels
    <2>3. bufferSize \in Nat
      OBVIOUS
    <2> QED  BY <1>0, <2>1, <2>2, <2>3 DEF TypeOK
  <1>2. ClientsAt(ClientInside) = {} /\ ClientsAt(Claiming) = {}
                                    /\ ClientsAt(Announcing) = {}
    BY DEF ClientsAt, ClientInside, Claiming, Announcing
  <1>3. Count = 0 /\ Taken = 0
    <2>1. NServer(InHand) = 0
      BY DEF NServer, InHand
    <2> HIDE DEF Init
    <2> QED  BY <1>0, <2>1 DEF Count, Taken
  <1>4. TokensAccountedFor
    BY <1>2, <1>3, FS_EmptySet
    DEF TokensAccountedFor, InTheMutex, Occupied, InTransit, NClients,
        NServer, ServerInside, Returning, Fetching
  <1>5. RingHoldsTheJobs
    BY <1>3 DEF RingHoldsTheJobs, SlotOf, InHand
  <1>6. PrintedInOrder
    BY DEF PrintedInOrder
  <1> QED  BY <1>1, <1>4, <1>5, <1>6 DEF IndInv

-----------------------------------------------------------------------------
\* Every step preserves the invariant.

\* A step that leaves the buffer, the printer's job and the history alone,
\* and brings nobody to where he holds a job, keeps what they say together.
LEMMA RingUntouched ==
  ASSUME SoundInv, UNCHANGED <<buffer, job, accepted, printed>>,
         spc' \in InHand <=> spc \in InHand,
         spc' = "advance" => spc = "advance",
         \A d \in Clients : cpc'[d] = "advance" => cpc[d] = "advance"
  PROVE  /\ Taken' = Taken /\ Count' = Count
         /\ RingHoldsTheJobs' /\ PrintedInOrder'
  <1>1. UNCHANGED <<elements, headIndex, tailIndex, job, accepted, printed>>
    BY DEF buffer
  <1>2. Taken' = Taken /\ Count' = Count
    BY <1>1 DEF Taken, Count, NServer
  <1>3. \A i : SlotOf(i)' = SlotOf(i)
    BY <1>1 DEF SlotOf
  <1>4. RingHoldsTheJobs'
    BY <1>1, <1>2, <1>3 DEF SoundInv, RingHoldsTheJobs
  <1>5. PrintedInOrder'
    BY <1>1 DEF SoundInv, PrintedInOrder
  <1> QED  BY <1>2, <1>4, <1>5

\* The numbers the tokens are counted with.
LEMMA CountsAreNumbers ==
  ASSUME SoundInv
  PROVE  /\ mutex \in Nat /\ empty \in Nat /\ full \in Nat
         /\ bufferSize \in Nat /\ Count \in Nat /\ Taken \in Nat
         /\ Count <= bufferSize /\ Len(accepted) = Taken + Count
         /\ InTheMutex \in Nat /\ Occupied \in Nat /\ InTransit \in Nat
  <1>1. \A L : NClients(L) \in Nat /\ NServer(L) \in Nat
    BY CountingClients DEF NServer
  <1>2. Len(accepted) \in Nat /\ Len(printed) \in Nat
    BY DEF SoundInv, TypeOK
  <1>3. Taken \in Nat /\ Len(accepted) = Taken + Count
    BY <1>2 DEF SoundInv, RingHoldsTheJobs, Taken, Count, NServer
  <1>4. /\ mutex \in Nat /\ empty \in Nat /\ full \in Nat
        /\ bufferSize \in Nat /\ Count \in Nat /\ Count <= bufferSize
    BY DEF SoundInv, TypeOK, RingHoldsTheJobs
  <1>5. InTheMutex \in Nat /\ Occupied \in Nat /\ InTransit \in Nat
    BY <1>1, <1>4 DEF InTheMutex, Occupied, InTransit
  <1> QED
    BY <1>3, <1>4, <1>5

\* A step that makes up no token and, if all were there, loses none.
TokensKept == NoTokenMadeUp' /\ (TokensAccountedFor => TokensAccountedFor')

\* That is what a step does that moves tokens only between a semaphore and a
\* process.
LEMMA TokensMove ==
  ASSUME SoundInv,
         mutex' + InTheMutex' = mutex + InTheMutex,
         empty' + Occupied' = empty + Occupied,
         Count' \in Nat,
         full' + InTransit' = full + InTransit + (Count' - Count)
  PROVE  TokensKept
  <1>1. /\ mutex + InTheMutex <= 1
        /\ empty + Occupied <= bufferSize
        /\ full + InTransit <= Count
    BY DEF SoundInv, NoTokenMadeUp
  <1>2. Count \in Nat /\ full + InTransit \in Nat
    <2>1. Count \in Nat /\ full \in Nat /\ InTransit \in Nat
      BY CountsAreNumbers
    <2> QED  BY <2>1
  <1>3. full' + InTransit' <= Count'
    <2>1. \A a, n, m \in Nat : a <= n => a + (m - n) <= m
      OBVIOUS
    <2> QED  BY <1>1, <1>2, <2>1
  <1>4. full + InTransit = Count => full' + InTransit' = Count'
    BY <1>2
  <1>5. NoTokenMadeUp'
    BY <1>1, <1>3 DEF NoTokenMadeUp
  <1>6. TokensAccountedFor => TokensAccountedFor'
    BY <1>4 DEF TokensAccountedFor
  <1> QED
    BY <1>5, <1>6 DEF TokensKept

\* How the number of clients at some labels changes when one of them moves.
Gain(labels, here, there) == (IF there \in labels THEN 1 ELSE 0)
                               - (IF here \in labels THEN 1 ELSE 0)

\* What a client's step does to its label and to the counts.
LEMMA ClientMoves ==
  ASSUME SoundInv, NEW c \in Clients, NEW here, NEW there \in ClientLabels,
         ClientAt(c, here, there), UNCHANGED spc, Count' \in Int
  PROVE  /\ cpc[c] = here
         /\ cpc' \in [Clients -> ClientLabels]
         /\ \A d \in Clients : cpc'[d] = IF d = c THEN there ELSE cpc[d]
         /\ InTheMutex' = InTheMutex + Gain(ClientInside, here, there)
         /\ Occupied' = Occupied + Gain(Claiming, here, there)
                          + (Count' - Count)
         /\ InTransit' = InTransit + Gain(Announcing, here, there)
  <1>1. cpc \in [Clients -> ClientLabels]
    BY DEF SoundInv, TypeOK
  <1>2. \A L : /\ NClients(L) \in Nat /\ NServer(L) \in Nat
               /\ NServer(L)' = NServer(L)
    BY CountingClients DEF NServer
  <1>3. \A L : /\ Gain(L, here, there) \in Int
               /\ NClients(L)' = NClients(L) + Gain(L, here, there)
    <2>1. \A L : NClients(L)' = NClients(L) + (IF there \in L THEN 1 ELSE 0)
                                            - (IF here \in L THEN 1 ELSE 0)
      BY <1>1, CountAfterMove
    <2> QED  BY <1>2, <2>1 DEF Gain
  <1>4. Count \in Nat
    BY CountsAreNumbers
  <1>5. InTheMutex' = InTheMutex + Gain(ClientInside, here, there)
    BY <1>2, <1>3 DEF InTheMutex
  <1>6. Occupied' = Occupied + Gain(Claiming, here, there) + (Count' - Count)
    BY <1>2, <1>3, <1>4 DEF Occupied
  <1>7. InTransit' = InTransit + Gain(Announcing, here, there)
    BY <1>2, <1>3 DEF InTransit
  <1> QED  BY <1>1, <1>5, <1>6, <1>7 DEF ClientAt

\* A step of a client that touches neither the buffer nor the printer, and
\* does not bring the client to where it holds a job, keeps the invariant if
\* the semaphores lose what the client gains.
LEMMA ClientFrame ==
  ASSUME SoundInv, NEW c \in Clients, NEW here, NEW there \in ClientLabels,
         ClientAt(c, here, there), there # "advance",
         UNCHANGED <<buffer, server, accepted, printed>>,
         didWait' \in [Clients -> BOOLEAN],
         mutex' \in Nat, mutex' = mutex - Gain(ClientInside, here, there),
         empty' \in Nat, empty' = empty - Gain(Claiming, here, there),
         full' \in Nat,  full' = full - Gain(Announcing, here, there)
  PROVE  SoundInv' /\ TokensKept
  <1>1. UNCHANGED <<spc, job, announced>>
    BY DEF server
  <1>2. \A L : Gain(L, here, there) \in Int
    BY DEF Gain
  <1>3. /\ cpc' \in [Clients -> ClientLabels]
        /\ \A d \in Clients : cpc'[d] = IF d = c THEN there ELSE cpc[d]
    BY DEF SoundInv, TypeOK, ClientAt
  <1>4. TypeOK'
    BY <1>1, <1>3 DEF SoundInv, TypeOK, buffer
  <1>5. RingHoldsTheJobs' /\ PrintedInOrder' /\ Count' = Count
    BY <1>1, <1>3, RingUntouched
  <1>6. Count \in Nat /\ Count' \in Nat
    BY <1>5, CountsAreNumbers
  <1>7. mutex' + InTheMutex' = mutex + InTheMutex
    <2>1. InTheMutex' = InTheMutex + Gain(ClientInside, here, there)
      BY <1>1, <1>6, ClientMoves
    <2>2. mutex \in Nat /\ InTheMutex \in Nat
      BY CountsAreNumbers
    <2> QED  BY <1>2, <2>1, <2>2
  <1>8. empty' + Occupied' = empty + Occupied
    <2>1. Occupied' = Occupied + Gain(Claiming, here, there) + (Count' - Count)
      BY <1>1, <1>6, ClientMoves
    <2>2. empty \in Nat /\ Occupied \in Nat
      BY CountsAreNumbers
    <2> QED  BY <1>2, <1>5, <1>6, <2>1, <2>2
  <1>9. full' + InTransit' = full + InTransit
    <2>1. InTransit' = InTransit + Gain(Announcing, here, there)
      BY <1>1, <1>6, ClientMoves
    <2>2. full \in Nat /\ InTransit \in Nat
      BY CountsAreNumbers
    <2> QED  BY <1>2, <2>1, <2>2
  <1>10. full' + InTransit' = full + InTransit + (Count' - Count)
    <2>1. full \in Nat /\ InTransit \in Nat
      BY CountsAreNumbers
    <2> QED  BY <1>5, <1>6, <1>9, <2>1
  <1>11. TokensKept
    BY <1>6, <1>7, <1>8, <1>10, TokensMove
  <1> QED  BY <1>4, <1>5, <1>11 DEF SoundInv, TokensKept

\* Every step of a client keeps the invariant: one case for each label of
\* put_a_job.
LEMMA ClientStepKeepsInvariant ==
  ASSUME SoundInv, NEW c \in Clients, put_a_job(c)
  PROVE  SoundInv' /\ TokensKept
  <1>0. MutualExclusion /\ NoOverrun
    BY SoundConsequences
  <1>1. CASE PutCheck(c)
    <2>1. /\ ClientAt(c, "check", "wait_empty")
          /\ UNCHANGED <<buffer, server, accepted, printed>>
          /\ didWait' \in [Clients -> BOOLEAN]
      BY <1>1 DEF PutCheck, willSemaphoreWait, SoundInv, TypeOK
    <2>2. /\ "wait_empty" \in ClientLabels
          /\ Gain(ClientInside, "check", "wait_empty") = 0
          /\ Gain(Claiming, "check", "wait_empty") = 0
          /\ Gain(Announcing, "check", "wait_empty") = 0
      BY DEF ClientLabels, Gain, ClientInside, Claiming, Announcing
    <2>3. /\ mutex' \in Nat /\ mutex' = mutex - 0
          /\ empty' \in Nat /\ empty' = empty - 0
          /\ full' \in Nat /\ full' = full - 0
      BY <1>1, CountsAreNumbers DEF PutCheck, semaphore
    <2> QED  BY <2>1, <2>2, <2>3, ClientFrame
  <1>2. CASE PutWaitEmpty(c)
    <2>1. /\ ClientAt(c, "wait_empty", "wait_mutex")
          /\ UNCHANGED <<buffer, server, didWait, accepted, printed>>
          /\ didWait' \in [Clients -> BOOLEAN]
      BY <1>2 DEF PutWaitEmpty, SoundInv, TypeOK
    <2>2. /\ "wait_mutex" \in ClientLabels
          /\ Gain(ClientInside, "wait_empty", "wait_mutex") = 0
          /\ Gain(Claiming, "wait_empty", "wait_mutex") = 1
          /\ Gain(Announcing, "wait_empty", "wait_mutex") = 0
      BY DEF ClientLabels, Gain, ClientInside, Claiming, Announcing
    <2>3. /\ mutex' \in Nat /\ mutex' = mutex - 0
          /\ empty' \in Nat /\ empty' = empty - 1
          /\ full' \in Nat /\ full' = full - 0
      BY <1>2, CountsAreNumbers DEF PutWaitEmpty, sem_wait, sem_post
    <2> QED  BY <2>1, <2>2, <2>3, ClientFrame
  <1>3. CASE PutWaitMutex(c)
    <2>1. /\ ClientAt(c, "wait_mutex", "store")
          /\ UNCHANGED <<buffer, server, didWait, accepted, printed>>
          /\ didWait' \in [Clients -> BOOLEAN]
      BY <1>3 DEF PutWaitMutex, SoundInv, TypeOK
    <2>2. /\ "store" \in ClientLabels
          /\ Gain(ClientInside, "wait_mutex", "store") = 1
          /\ Gain(Claiming, "wait_mutex", "store") = 0
          /\ Gain(Announcing, "wait_mutex", "store") = 0
      BY DEF ClientLabels, Gain, ClientInside, Claiming, Announcing
    <2>3. /\ mutex' \in Nat /\ mutex' = mutex - 1
          /\ empty' \in Nat /\ empty' = empty - 0
          /\ full' \in Nat /\ full' = full - 0
      BY <1>3, CountsAreNumbers DEF PutWaitMutex, sem_wait, sem_post
    <2> QED  BY <2>1, <2>2, <2>3, ClientFrame
  <1>4. CASE PutPostMutex(c)
    <2>1. /\ ClientAt(c, "post_mutex", "post_full")
          /\ UNCHANGED <<buffer, server, didWait, accepted, printed>>
          /\ didWait' \in [Clients -> BOOLEAN]
      BY <1>4 DEF PutPostMutex, SoundInv, TypeOK
    <2>2. /\ "post_full" \in ClientLabels
          /\ Gain(ClientInside, "post_mutex", "post_full") = -1
          /\ Gain(Claiming, "post_mutex", "post_full") = 0
          /\ Gain(Announcing, "post_mutex", "post_full") = 0
      BY DEF ClientLabels, Gain, ClientInside, Claiming, Announcing
    <2>3. /\ mutex' \in Nat /\ mutex' = mutex - (-1)
          /\ empty' \in Nat /\ empty' = empty - 0
          /\ full' \in Nat /\ full' = full - 0
      BY <1>4, CountsAreNumbers DEF PutPostMutex, sem_wait, sem_post
    <2> QED  BY <2>1, <2>2, <2>3, ClientFrame
  <1>5. CASE PutPostFull(c)
    <2>1. /\ ClientAt(c, "post_full", "done")
          /\ UNCHANGED <<buffer, server, didWait, accepted, printed>>
          /\ didWait' \in [Clients -> BOOLEAN]
      BY <1>5 DEF PutPostFull, SoundInv, TypeOK
    <2>2. /\ "done" \in ClientLabels
          /\ Gain(ClientInside, "post_full", "done") = 0
          /\ Gain(Claiming, "post_full", "done") = 0
          /\ Gain(Announcing, "post_full", "done") = -1
      BY DEF ClientLabels, Gain, ClientInside, Claiming, Announcing
    <2>3. /\ mutex' \in Nat /\ mutex' = mutex - 0
          /\ empty' \in Nat /\ empty' = empty - 0
          /\ full' \in Nat /\ full' = full - (-1)
      BY <1>5, CountsAreNumbers DEF PutPostFull, sem_wait, sem_post
    <2> QED  BY <2>1, <2>2, <2>3, ClientFrame
  <1>6. CASE PushStore(c)
    <2>1. /\ ClientAt(c, "store", "advance")
          /\ elements' = [elements EXCEPT ![tailIndex] = c]
          /\ UNCHANGED <<headIndex, tailIndex, semaphore, server, didWait,
                         accepted, printed>>
      BY <1>6 DEF PushStore
    <2>2. UNCHANGED <<mutex, empty, full, spc, job, announced>>
      BY <2>1 DEF semaphore, server
    <2>3. /\ Count' = Count /\ Taken' = Taken
          /\ \A L : NServer(L)' = NServer(L)
          /\ \A i : SlotOf(i)' = SlotOf(i)
      BY <2>1, <2>2 DEF Count, Taken, NServer, SlotOf
    <2>4. TokensKept
      <3>1. /\ "advance" \in ClientLabels
            /\ Gain(ClientInside, "store", "advance") = 0
            /\ Gain(Claiming, "store", "advance") = 0
            /\ Gain(Announcing, "store", "advance") = 0
        BY DEF ClientLabels, Gain, ClientInside, Claiming, Announcing
      <3>2. /\ InTheMutex' = InTheMutex + 0
            /\ Occupied' = Occupied + 0 + (Count' - Count)
            /\ InTransit' = InTransit + 0
        BY <2>1, <2>2, <2>3, <3>1, ClientMoves, CountsAreNumbers
      <3> QED  BY <2>2, <2>3, <3>2, TokensMove, CountsAreNumbers
    <2>5. /\ cpc[c] = "store" /\ cpc' \in [Clients -> ClientLabels]
          /\ \A d \in Clients : cpc'[d] = IF d = c THEN "advance" ELSE cpc[d]
      BY <2>1 DEF ClientLabels, ClientAt, SoundInv, TypeOK
    <2>6. TypeOK'
      BY <2>1, <2>2, <2>5 DEF SoundInv, TypeOK
    <2>7. Count < bufferSize /\ Count \in Nat /\ bufferSize \in Nat
      BY <1>0, <2>5, CountsAreNumbers DEF NoOverrun
    <2>8. tailIndex = SlotOf(Count) /\ headIndex \in Nat
             /\ headIndex < bufferSize /\ tailIndex \in Slots
      BY <2>7 DEF SoundInv, TypeOK, RingHoldsTheJobs, Slots
    <2>9. \A i \in 0 .. Count - 1 : SlotOf(i) # tailIndex
      BY <2>7, <2>8 DEF SlotOf
    <2>10. \A i \in 0 .. Count - 1 : elements'[SlotOf(i)] = elements[SlotOf(i)]
      BY <2>1, <2>9 DEF SoundInv, TypeOK
    <2>11. elements'[tailIndex] = c
      BY <2>1, <2>8 DEF SoundInv, TypeOK
    <2>12. \A d \in Clients : cpc[d] # "advance"
      BY <1>0, <2>5 DEF MutualExclusion, ClientsAt, ClientInside
    <2>13. RingHoldsTheJobs'
      BY <2>1, <2>2, <2>3, <2>5, <2>10, <2>11, <2>12
      DEF SoundInv, RingHoldsTheJobs
    <2>14. PrintedInOrder'
      BY <2>1 DEF SoundInv, PrintedInOrder
    <2> QED  BY <2>4, <2>6, <2>13, <2>14 DEF SoundInv, TokensKept
  <1>7. CASE PushAdvance(c)
    <2>1. /\ ClientAt(c, "advance", "post_mutex")
          /\ tailIndex' = Following(tailIndex)
          /\ accepted' = Append(accepted, c)
          /\ UNCHANGED <<elements, headIndex, semaphore, server, didWait,
                         printed>>
      BY <1>7 DEF PushAdvance
    <2>2. UNCHANGED <<mutex, empty, full, spc, job, announced>>
      BY <2>1 DEF semaphore, server
    <2>3. /\ cpc[c] = "advance" /\ cpc' \in [Clients -> ClientLabels]
          /\ \A d \in Clients :
                cpc'[d] = IF d = c THEN "post_mutex" ELSE cpc[d]
      BY <2>1 DEF ClientLabels, ClientAt, SoundInv, TypeOK
    <2>4. /\ Count < bufferSize /\ Count \in Nat /\ bufferSize \in Nat
          /\ Taken \in Nat /\ Len(accepted) = Taken + Count
      BY <1>0, <2>3, CountsAreNumbers DEF NoOverrun
    <2>5. /\ accepted \in Seq(Clients) /\ Len(printed) \in Nat
          /\ Len(accepted') = Len(accepted) + 1
          /\ accepted' \in Seq(Clients)
          /\ accepted'[Len(accepted) + 1] = c
          /\ \A i \in 1 .. Len(accepted) : accepted'[i] = accepted[i]
      BY <2>1 DEF SoundInv, TypeOK
    <2>6. /\ Taken' = Taken /\ \A L : NServer(L)' = NServer(L)
          /\ \A i : SlotOf(i)' = SlotOf(i)
      BY <2>1, <2>2 DEF Taken, NServer, SlotOf
    <2>7. Count' = Count + 1
      BY <2>4, <2>5, <2>6 DEF Count
    <2>8. TokensKept
      <3>1. /\ "post_mutex" \in ClientLabels
            /\ Gain(ClientInside, "advance", "post_mutex") = 0
            /\ Gain(Claiming, "advance", "post_mutex") = -1
            /\ Gain(Announcing, "advance", "post_mutex") = 1
        BY DEF ClientLabels, Gain, ClientInside, Claiming, Announcing
      <3>2. Count' \in Int /\ Count' - Count = 1
        BY <2>4, <2>7
      <3>3. /\ InTheMutex' = InTheMutex + 0
            /\ Occupied' = Occupied + (-1) + 1
            /\ InTransit' = InTransit + 1
        BY <2>1, <2>2, <3>1, <3>2, ClientMoves
      <3>4. Count' \in Nat /\ Count' - Count = 1
        BY <2>4, <2>7
      <3>5. /\ InTheMutex \in Nat /\ Occupied \in Nat /\ InTransit \in Nat
            /\ mutex \in Nat /\ empty \in Nat /\ full \in Nat
        BY CountsAreNumbers
      <3>6. empty' + Occupied' = empty + Occupied
        BY <2>2, <3>3, <3>5
      <3>7. full' + InTransit' = full + InTransit + (Count' - Count)
        BY <2>2, <3>3, <3>4, <3>5
      <3> QED  BY <2>2, <3>3, <3>4, <3>5, <3>6, <3>7, TokensMove
    <2>9. /\ tailIndex = SlotOf(Count) /\ headIndex \in Nat
          /\ headIndex < bufferSize /\ tailIndex < bufferSize
          /\ tailIndex \in Nat
      BY <2>4 DEF SoundInv, TypeOK, RingHoldsTheJobs
    <2>10. tailIndex' = IF tailIndex + 1 = bufferSize THEN 0 ELSE tailIndex + 1
      BY <2>1, <2>9, FollowingWraps
    <2>11. TypeOK'
      <3>1. tailIndex' \in Nat /\ tailIndex' < bufferSize
        BY <2>4, <2>9, <2>10
      <3> QED  BY <2>1, <2>2, <2>3, <2>5, <3>1 DEF SoundInv, TypeOK
    <2>12. tailIndex' = SlotOf(Count + 1)
      BY <2>4, <2>9, <2>10 DEF SlotOf
    <2>13. \A d \in Clients : d # c => cpc[d] # "advance"
      BY <1>0, <2>3 DEF MutualExclusion, ClientsAt, ClientInside
    <2>14. elements[SlotOf(Count)] = c
      BY <2>3, <2>9 DEF SoundInv, RingHoldsTheJobs
    <2>15. \A i \in 0 .. Count : elements[SlotOf(i)] = accepted'[Taken + 1 + i]
      <3>1. \A i \in 0 .. Count - 1 :
               /\ elements[SlotOf(i)] = accepted[Taken + 1 + i]
               /\ Taken + 1 + i \in 1 .. Len(accepted)
        BY <2>4 DEF SoundInv, RingHoldsTheJobs
      <3>2. \A i \in 0 .. Count - 1 :
               elements[SlotOf(i)] = accepted'[Taken + 1 + i]
        BY <2>5, <3>1
      <3>3. elements[SlotOf(Count)] = accepted'[Taken + 1 + Count]
        BY <2>4, <2>5, <2>14
      <3> QED  BY <2>4, <3>2, <3>3
    <2>16. spc # "advance"
      BY <1>0, <2>3 DEF MutualExclusion, ServerInside, ClientInside, ClientsAt
    <2>17. spc \in InHand => job = accepted'[Taken]
      <3>1. ASSUME spc \in InHand PROVE Taken \in 1 .. Len(accepted)
        BY <2>4, <2>5, <3>1 DEF Taken, NServer
      <3> QED  BY <2>5, <3>1 DEF SoundInv, RingHoldsTheJobs
    <2>18. RingHoldsTheJobs'
      <3>1. Count' \in 0 .. bufferSize /\ 0 .. Count' - 1 = 0 .. Count
        BY <2>4, <2>7
      <3> QED  BY <2>1, <2>2, <2>3, <2>6, <2>7, <2>12, <2>13, <2>15, <2>16,
                  <2>17, <3>1 DEF RingHoldsTheJobs
    <2>19. PrintedInOrder'
      BY <2>1, <2>5 DEF SoundInv, PrintedInOrder
    <2> QED  BY <2>8, <2>11, <2>18, <2>19 DEF SoundInv, TokensKept
  <1> QED  BY <1>1, <1>2, <1>3, <1>4, <1>5, <1>6, <1>7 DEF put_a_job


\* What a step of the printer does to the counts.
LEMMA ServerMoves ==
  ASSUME SoundInv, NEW here, NEW there, ServerAt(here, there), UNCHANGED cpc,
         Count' \in Int
  PROVE  /\ InTheMutex' = InTheMutex + Gain(ServerInside, here, there)
         /\ Occupied' = Occupied + Gain(Returning, here, there)
                          + (Count' - Count)
         /\ InTransit' = InTransit + Gain(Fetching, here, there)
  <1>1. \A L : /\ NClients(L) \in Nat /\ NServer(L) \in Nat
               /\ NClients(L)' = NClients(L)
               /\ Gain(L, here, there) \in Int
               /\ NServer(L)' = NServer(L) + Gain(L, here, there)
    <2>1. \A L : NClients(L) \in Nat /\ NServer(L) \in Nat
      BY CountingClients DEF NServer
    <2>2. \A L : NClients(L)' = NClients(L)
      BY DEF NClients, ClientsAt
    <2>3. \A L : /\ Gain(L, here, there) \in Int
                 /\ NServer(L)' = NServer(L) + Gain(L, here, there)
      BY DEF NServer, Gain, ServerAt
    <2> QED  BY <2>1, <2>2, <2>3
  <1>2. Count \in Nat
    BY CountsAreNumbers
  <1>3. InTheMutex' = InTheMutex + Gain(ServerInside, here, there)
    BY <1>1 DEF InTheMutex
  <1>4. Occupied' = Occupied + Gain(Returning, here, there) + (Count' - Count)
    BY <1>1, <1>2 DEF Occupied
  <1>5. InTransit' = InTransit + Gain(Fetching, here, there)
    BY <1>1 DEF InTransit
  <1> QED  BY <1>3, <1>4, <1>5

\* A step of the printer that touches neither the buffer nor a client, and
\* neither takes a job in hand nor finishes one, keeps the invariant if the
\* semaphores lose what the printer gains.
LEMMA ServerFrame ==
  ASSUME SoundInv, NEW here, NEW there \in ServerLabels, ServerAt(here, there),
         there # "advance", here \in InHand <=> there \in InHand,
         UNCHANGED <<buffer, client, job, accepted, printed>>,
         announced' \in BOOLEAN,
         mutex' \in Nat, mutex' = mutex - Gain(ServerInside, here, there),
         empty' \in Nat, empty' = empty - Gain(Returning, here, there),
         full' \in Nat,  full' = full - Gain(Fetching, here, there)
  PROVE  SoundInv' /\ TokensKept
  <1>1. /\ UNCHANGED <<elements, headIndex, tailIndex, cpc, didWait>>
        /\ spc = here /\ spc' = there
    BY DEF buffer, client, ServerAt
  <1>2. \A L : Gain(L, here, there) \in Int
    BY DEF Gain
  <1>3. TypeOK'
    BY <1>1 DEF SoundInv, TypeOK
  <1>4. RingHoldsTheJobs' /\ PrintedInOrder' /\ Count' = Count
    BY <1>1, RingUntouched
  <1>5. Count \in Nat /\ Count' \in Nat
    BY <1>4, CountsAreNumbers
  <1>6. mutex' + InTheMutex' = mutex + InTheMutex
    <2>1. InTheMutex' = InTheMutex + Gain(ServerInside, here, there)
      BY <1>1, <1>5, ServerMoves
    <2>2. mutex \in Nat /\ InTheMutex \in Nat
      BY CountsAreNumbers
    <2> QED  BY <1>2, <2>1, <2>2
  <1>7. empty' + Occupied' = empty + Occupied
    <2>1. Occupied' = Occupied + Gain(Returning, here, there) + (Count' - Count)
      BY <1>1, <1>5, ServerMoves
    <2>2. empty \in Nat /\ Occupied \in Nat
      BY CountsAreNumbers
    <2> QED  BY <1>2, <1>4, <1>5, <2>1, <2>2
  <1>8. full' + InTransit' = full + InTransit
    <2>1. InTransit' = InTransit + Gain(Fetching, here, there)
      BY <1>1, <1>5, ServerMoves
    <2>2. full \in Nat /\ InTransit \in Nat
      BY CountsAreNumbers
    <2> QED  BY <1>2, <2>1, <2>2
  <1>9. full' + InTransit' = full + InTransit + (Count' - Count)
    <2>1. full \in Nat /\ InTransit \in Nat
      BY CountsAreNumbers
    <2> QED  BY <1>4, <1>5, <1>8, <2>1
  <1>10. TokensKept
    BY <1>5, <1>6, <1>7, <1>9, TokensMove
  <1> QED  BY <1>3, <1>4, <1>10 DEF SoundInv, TokensKept

\* Every step of the printer keeps the invariant: one case for each label of
\* take_a_job, and go_sleep.
LEMMA ServerStepKeepsInvariant ==
  ASSUME SoundInv, Printer
  PROVE  SoundInv' /\ TokensKept
  <1>0. MutualExclusion /\ NoOverrun
    BY SoundConsequences
  <1>1. CASE TakeCheck
    <2>1. /\ ServerAt("check", "wait_full")
          /\ UNCHANGED <<buffer, client, job, accepted, printed>>
          /\ announced' \in BOOLEAN
      BY <1>1 DEF TakeCheck, willSemaphoreWait, SoundInv, TypeOK
    <2>2. /\ "wait_full" \in ServerLabels
          /\ "check" \in InHand <=> "wait_full" \in InHand
          /\ Gain(ServerInside, "check", "wait_full") = 0
          /\ Gain(Returning, "check", "wait_full") = 0
          /\ Gain(Fetching, "check", "wait_full") = 0
      BY DEF ServerLabels, InHand, Gain, ServerInside, Returning, Fetching
    <2>3. /\ mutex' \in Nat /\ mutex' = mutex - 0
          /\ empty' \in Nat /\ empty' = empty - 0
          /\ full' \in Nat /\ full' = full - 0
      BY <1>1, CountsAreNumbers DEF TakeCheck, semaphore
    <2> QED  BY <2>1, <2>2, <2>3, ServerFrame
  <1>2. CASE TakeWaitFull
    <2>1. /\ ServerAt("wait_full", "wait_mutex")
          /\ UNCHANGED <<buffer, client, job, accepted, printed>>
          /\ announced' \in BOOLEAN
      BY <1>2 DEF TakeWaitFull, SoundInv, TypeOK
    <2>2. /\ "wait_mutex" \in ServerLabels
          /\ "wait_full" \in InHand <=> "wait_mutex" \in InHand
          /\ Gain(ServerInside, "wait_full", "wait_mutex") = 0
          /\ Gain(Returning, "wait_full", "wait_mutex") = 0
          /\ Gain(Fetching, "wait_full", "wait_mutex") = 1
      BY DEF ServerLabels, InHand, Gain, ServerInside, Returning, Fetching
    <2>3. /\ mutex' \in Nat /\ mutex' = mutex - 0
          /\ empty' \in Nat /\ empty' = empty - 0
          /\ full' \in Nat /\ full' = full - 1
      BY <1>2, CountsAreNumbers DEF TakeWaitFull, sem_wait, sem_post
    <2> QED  BY <2>1, <2>2, <2>3, ServerFrame
  <1>3. CASE TakeWaitMutex
    <2>1. /\ ServerAt("wait_mutex", "read")
          /\ UNCHANGED <<buffer, client, job, accepted, printed>>
          /\ announced' \in BOOLEAN
      BY <1>3 DEF TakeWaitMutex, SoundInv, TypeOK
    <2>2. /\ "read" \in ServerLabels
          /\ "wait_mutex" \in InHand <=> "read" \in InHand
          /\ Gain(ServerInside, "wait_mutex", "read") = 1
          /\ Gain(Returning, "wait_mutex", "read") = 0
          /\ Gain(Fetching, "wait_mutex", "read") = 0
      BY DEF ServerLabels, InHand, Gain, ServerInside, Returning, Fetching
    <2>3. /\ mutex' \in Nat /\ mutex' = mutex - 1
          /\ empty' \in Nat /\ empty' = empty - 0
          /\ full' \in Nat /\ full' = full - 0
      BY <1>3, CountsAreNumbers DEF TakeWaitMutex, sem_wait, sem_post
    <2> QED  BY <2>1, <2>2, <2>3, ServerFrame
  <1>4. CASE TakePostMutex
    <2>1. /\ ServerAt("post_mutex", "post_empty")
          /\ UNCHANGED <<buffer, client, job, accepted, printed>>
          /\ announced' \in BOOLEAN
      BY <1>4 DEF TakePostMutex, SoundInv, TypeOK
    <2>2. /\ "post_empty" \in ServerLabels
          /\ "post_mutex" \in InHand <=> "post_empty" \in InHand
          /\ Gain(ServerInside, "post_mutex", "post_empty") = -1
          /\ Gain(Returning, "post_mutex", "post_empty") = 0
          /\ Gain(Fetching, "post_mutex", "post_empty") = 0
      BY DEF ServerLabels, InHand, Gain, ServerInside, Returning, Fetching
    <2>3. /\ mutex' \in Nat /\ mutex' = mutex - (-1)
          /\ empty' \in Nat /\ empty' = empty - 0
          /\ full' \in Nat /\ full' = full - 0
      BY <1>4, CountsAreNumbers DEF TakePostMutex, sem_wait, sem_post
    <2> QED  BY <2>1, <2>2, <2>3, ServerFrame
  <1>5. CASE TakePostEmpty
    <2>1. /\ ServerAt("post_empty", "print")
          /\ UNCHANGED <<buffer, client, job, accepted, printed>>
          /\ announced' \in BOOLEAN
      BY <1>5 DEF TakePostEmpty, SoundInv, TypeOK
    <2>2. /\ "print" \in ServerLabels
          /\ "post_empty" \in InHand <=> "print" \in InHand
          /\ Gain(ServerInside, "post_empty", "print") = 0
          /\ Gain(Returning, "post_empty", "print") = -1
          /\ Gain(Fetching, "post_empty", "print") = 0
      BY DEF ServerLabels, InHand, Gain, ServerInside, Returning, Fetching
    <2>3. /\ mutex' \in Nat /\ mutex' = mutex - 0
          /\ empty' \in Nat /\ empty' = empty - (-1)
          /\ full' \in Nat /\ full' = full - 0
      BY <1>5, CountsAreNumbers DEF TakePostEmpty, sem_wait, sem_post
    <2> QED  BY <2>1, <2>2, <2>3, ServerFrame
  <1>6. CASE PopRead
    <2>1. /\ spc = "read" /\ spc' = "advance"
          /\ job' = elements[headIndex]
          /\ UNCHANGED <<elements, headIndex, tailIndex, mutex, empty, full,
                         cpc, didWait, announced, accepted, printed>>
      BY <1>6 DEF PopRead, ServerAt, buffer, semaphore, client
    <2>2. /\ Count > 0 /\ Count \in Nat /\ bufferSize \in Nat
          /\ Count <= bufferSize
      BY <1>0, <2>1, CountsAreNumbers DEF NoOverrun
    <2>3. headIndex \in Nat /\ headIndex < bufferSize
      BY <2>2 DEF SoundInv, TypeOK
    <2>4. TypeOK'
      <3>1. job' \in Clients \cup {NoJob}
        BY <2>1, <2>3 DEF SoundInv, TypeOK, Slots
      <3> QED  BY <2>1, <3>1 DEF SoundInv, TypeOK, ServerLabels
    <2>5. Taken' = Taken /\ Count' = Count /\ \A i : SlotOf(i)' = SlotOf(i)
      BY <2>1 DEF Taken, Count, NServer, InHand, SlotOf
    <2>6. TokensKept
      <3>1. /\ ServerAt("read", "advance")
            /\ Gain(ServerInside, "read", "advance") = 0
            /\ Gain(Returning, "read", "advance") = 0
            /\ Gain(Fetching, "read", "advance") = 0
        BY <2>1 DEF ServerAt, Gain, ServerInside, Returning, Fetching
      <3>2. /\ InTheMutex' = InTheMutex + 0
            /\ Occupied' = Occupied + 0 + (Count' - Count)
            /\ InTransit' = InTransit + 0
        BY <2>1, <2>2, <2>5, <3>1, ServerMoves
      <3> QED  BY <2>1, <2>5, <3>2, TokensMove, CountsAreNumbers
    <2>7. job' = accepted[Taken + 1]
      <3>1. SlotOf(0) = headIndex /\ 0 \in 0 .. Count - 1
        BY <2>2, <2>3 DEF SlotOf
      <3>2. elements[SlotOf(0)] = accepted[Taken + 1 + 0]
        BY <3>1 DEF SoundInv, RingHoldsTheJobs
      <3>3. Taken + 1 + 0 = Taken + 1
        BY CountsAreNumbers
      <3> QED  BY <2>1, <3>1, <3>2, <3>3
    <2>8. RingHoldsTheJobs'
      BY <2>1, <2>5, <2>7 DEF SoundInv, RingHoldsTheJobs, InHand
    <2>9. PrintedInOrder'
      BY <2>1 DEF SoundInv, PrintedInOrder
    <2> QED  BY <2>4, <2>6, <2>8, <2>9 DEF SoundInv, TokensKept
  <1>7. CASE PopAdvance
    <2>1. /\ spc = "advance" /\ spc' = "post_mutex"
          /\ headIndex' = Following(headIndex)
          /\ UNCHANGED <<elements, tailIndex, mutex, empty, full, cpc, didWait,
                         job, announced, accepted, printed>>
      BY <1>7 DEF PopAdvance, ServerAt, semaphore, client
    <2>2. /\ Count > 0 /\ Count \in Nat /\ bufferSize \in Nat /\ Taken \in Nat
          /\ Count <= bufferSize /\ Len(accepted) = Taken + Count
      BY <1>0, <2>1, CountsAreNumbers DEF NoOverrun
    <2>3. headIndex \in Nat /\ headIndex < bufferSize
      BY <2>2 DEF SoundInv, TypeOK
    <2>4. headIndex' \in Nat /\ headIndex' < bufferSize
      BY <2>1, <2>2, <2>3, FollowingWraps
    <2>5. TypeOK'
      BY <2>1, <2>4 DEF SoundInv, TypeOK, ServerLabels
    <2>6. Taken' = Taken + 1 /\ Count' = Count - 1
      <3>1. Len(printed) \in Nat /\ Len(accepted) \in Nat
        BY DEF SoundInv, TypeOK
      <3> QED  BY <2>1, <3>1 DEF Taken, Count, NServer, InHand
    <2>7. Count' \in Nat /\ Count' - Count = -1 /\ Count' < bufferSize
      BY <2>2, <2>6
    <2>8. TokensKept
      <3>1. /\ ServerAt("advance", "post_mutex")
            /\ Gain(ServerInside, "advance", "post_mutex") = 0
            /\ Gain(Returning, "advance", "post_mutex") = 1
            /\ Gain(Fetching, "advance", "post_mutex") = -1
        BY <2>1 DEF ServerAt, Gain, ServerInside, Returning, Fetching
      <3>2. /\ InTheMutex' = InTheMutex + 0
            /\ Occupied' = Occupied + 1 + (-1)
            /\ InTransit' = InTransit + (-1)
        BY <2>1, <2>7, <3>1, ServerMoves
      <3>3. /\ InTheMutex \in Nat /\ Occupied \in Nat /\ InTransit \in Nat
            /\ mutex \in Nat /\ empty \in Nat /\ full \in Nat
        BY CountsAreNumbers
      <3>4. empty' + Occupied' = empty + Occupied
        BY <2>1, <3>2, <3>3
      <3>5. full' + InTransit' = full + InTransit + (Count' - Count)
        BY <2>1, <2>7, <3>2, <3>3
      <3> QED  BY <2>1, <2>7, <3>2, <3>3, <3>4, <3>5, TokensMove
    <2>9. \A i \in 0 .. bufferSize - 1 : SlotOf(i)' = SlotOf(i + 1)
      BY <2>1, <2>3, SlotsFromNextHead DEF SlotOf
    <2>10. tailIndex' = SlotOf(Count)'
      <3>1. tailIndex' = IF headIndex + Count < bufferSize
                           THEN headIndex + Count
                           ELSE headIndex + Count - bufferSize
        BY <2>1, <2>2 DEF SoundInv, RingHoldsTheJobs, SlotOf
      <3>2. headIndex' = IF headIndex + 1 = bufferSize THEN 0
                                                       ELSE headIndex + 1
        BY <2>1, <2>3, FollowingWraps
      <3>3. tailIndex' = IF headIndex' + Count' < bufferSize
                           THEN headIndex' + Count'
                           ELSE headIndex' + Count' - bufferSize
        BY <2>2, <2>3, <2>6, <3>1, <3>2
      <3> QED  BY <3>3 DEF SlotOf
    <2>11. \A i \in 0 .. Count' - 1 :
              elements'[SlotOf(i)'] = accepted'[Taken' + 1 + i]
      <3> SUFFICES ASSUME NEW i \in 0 .. Count' - 1
                   PROVE  elements'[SlotOf(i)'] = accepted'[Taken' + 1 + i]
        OBVIOUS
      <3>1. /\ i \in 0 .. bufferSize - 1 /\ i + 1 \in 0 .. Count - 1
            /\ Taken' + 1 + i = Taken + 1 + (i + 1)
        BY <2>2, <2>6
      <3>2. SlotOf(i)' = SlotOf(i + 1)
        BY <2>9, <3>1
      <3>3. elements[SlotOf(i + 1)] = accepted[Taken + 1 + (i + 1)]
        BY <3>1 DEF SoundInv, RingHoldsTheJobs
      <3>4. elements' = elements /\ accepted' = accepted
        BY <2>1
      <3> QED  BY <3>1, <3>2, <3>3, <3>4, Zenon
    <2>12. job = accepted[Taken + 1] /\ ~(\E c \in Clients : cpc[c] = "advance")
      BY <1>0, <2>1
      DEF SoundInv, RingHoldsTheJobs, MutualExclusion, ServerInside,
          ClientInside, ClientsAt
    <2>13. RingHoldsTheJobs'
      <3>1. Count' \in 0 .. bufferSize
        BY <2>2, <2>7
      <3>2. \A i \in 0 .. Count' - 1 :
               elements'[SlotOf(i)'] = accepted'[Taken' + 1 + i]
        BY <2>11
      <3>3. \A c \in Clients : cpc'[c] # "advance"
        BY <2>1, <2>12
      <3>4. spc' # "advance" /\ job' = accepted'[Taken']
        BY <2>1, <2>6, <2>12
      <3> QED  BY <2>10, <3>1, <3>2, <3>3, <3>4 DEF RingHoldsTheJobs
    <2>14. PrintedInOrder'
      BY <2>1 DEF SoundInv, PrintedInOrder
    <2> QED  BY <2>5, <2>8, <2>13, <2>14 DEF SoundInv, TokensKept
  <1>8. CASE go_sleep
    <2>1. /\ spc = "print" /\ spc' = "check"
          /\ printed' = Append(printed, job)
          /\ UNCHANGED <<elements, headIndex, tailIndex, mutex, empty, full,
                         cpc, didWait, job, announced, accepted>>
      BY <1>8 DEF go_sleep, ServerAt, buffer, semaphore, client
    <2>2. /\ printed \in Seq(Clients \cup {NoJob}) /\ Len(printed) \in Nat
          /\ printed' \in Seq(Clients \cup {NoJob})
          /\ Len(printed') = Len(printed) + 1
          /\ printed'[Len(printed) + 1] = job
          /\ \A i \in 1 .. Len(printed) : printed'[i] = printed[i]
      BY <2>1 DEF SoundInv, TypeOK
    <2>3. Taken = Len(printed) + 1 /\ Taken' = Taken
      BY <2>1, <2>2 DEF Taken, NServer, InHand
    <2>4. Count' = Count /\ \A i : SlotOf(i)' = SlotOf(i)
      BY <2>1, <2>3 DEF Count, SlotOf
    <2>5. TypeOK'
      BY <2>1, <2>2 DEF SoundInv, TypeOK, ServerLabels
    <2>6. TokensKept
      <3>1. /\ ServerAt("print", "check")
            /\ Gain(ServerInside, "print", "check") = 0
            /\ Gain(Returning, "print", "check") = 0
            /\ Gain(Fetching, "print", "check") = 0
        BY <2>1 DEF ServerAt, Gain, ServerInside, Returning, Fetching
      <3>2. /\ InTheMutex' = InTheMutex + 0
            /\ Occupied' = Occupied + 0 + (Count' - Count)
            /\ InTransit' = InTransit + 0
        BY <2>1, <2>4, <3>1, ServerMoves, CountsAreNumbers
      <3> QED  BY <2>1, <2>4, <3>2, TokensMove, CountsAreNumbers
    <2>7. RingHoldsTheJobs'
      BY <2>1, <2>3, <2>4 DEF SoundInv, RingHoldsTheJobs, InHand
    <2>8. PrintedInOrder'
      <3>1. Len(printed') <= Len(accepted) /\ Len(accepted) \in Nat
        BY <2>2, <2>3, CountsAreNumbers
      <3>2. job = accepted[Len(printed) + 1]
        BY <2>1, <2>3 DEF SoundInv, RingHoldsTheJobs, InHand
      <3>3. \A i \in 1 .. Len(printed) : printed[i] = accepted[i]
        BY DEF SoundInv, PrintedInOrder
      <3>4. \A i \in 1 .. Len(printed) + 1 : printed'[i] = accepted[i]
        BY <2>2, <3>2, <3>3
      <3> QED  BY <2>1, <2>2, <3>1, <3>4 DEF PrintedInOrder
    <2> QED  BY <2>5, <2>6, <2>7, <2>8 DEF SoundInv, TokensKept
  <1> QED  BY <1>1, <1>2, <1>3, <1>4, <1>5, <1>6, <1>7, <1>8
           DEF Printer, take_a_job

-----------------------------------------------------------------------------
\* The theorems.

\* A state in which no variable changes keeps the invariant.
LEMMA StutterKeepsInvariant ==
  ASSUME SoundInv, UNCHANGED vars
  PROVE  SoundInv' /\ TokensKept
  <1>1. UNCHANGED <<elements, headIndex, tailIndex, mutex, empty, full, cpc,
                    didWait, spc, job, announced, accepted, printed>>
    BY DEF vars, buffer, semaphore, client, server
  <1>2. TypeOK'
    BY <1>1 DEF SoundInv, TypeOK
  <1>3. RingHoldsTheJobs' /\ PrintedInOrder' /\ Count' = Count
    BY <1>1, RingUntouched DEF buffer
  <1>4. InTheMutex' = InTheMutex /\ Occupied' = Occupied
                                 /\ InTransit' = InTransit
    BY <1>1, <1>3 DEF InTheMutex, Occupied, InTransit, NClients, NServer,
                      ClientsAt
  <1>5. TokensKept
    BY <1>1, <1>3, <1>4 DEF SoundInv, NoTokenMadeUp, TokensAccountedFor,
                                TokensKept
  <1> QED  BY <1>2, <1>3, <1>5 DEF SoundInv, TokensKept

\* A step of the spooler loses no token: what is accounted for stays so.
LEMMA StepKeepsAccount ==
  ASSUME IndInv, [Next]_vars
  PROVE  IndInv'
  <1>1. SoundInv
    BY AccountedIsSound
  <1>2. SoundInv' /\ TokensKept
    BY <1>1, ClientStepKeepsInvariant, ServerStepKeepsInvariant,
       StutterKeepsInvariant DEF Next
  <1> QED  BY <1>2 DEF IndInv, SoundInv, TokensKept

\* Every reachable state of the spooler, for any clients and any buffer size,
\* accounts for every semaphore token, has the ring hold exactly the jobs
\* accepted and not taken, and has printed a beginning of what was accepted.
THEOREM SpoolerInvariant == Safety => []IndInv
  <1>1. Init => IndInv
    BY InvariantInitially
  <1>2. IndInv /\ [Next]_vars => IndInv'
    BY StepKeepsAccount
  <1> QED  BY <1>1, <1>2, PTL DEF Safety

\* The semaphore mutex keeps every two processes out of pushFifoBuffer and
\* popFifoBuffer at the same time.
THEOREM SpoolerMutualExclusion == Safety => []MutualExclusion
  BY SpoolerInvariant, InvariantConsequences, PTL

\* No client stores over a job that waits, and the printer never takes a job
\* that is not there.
THEOREM SpoolerNoOverrun == Safety => []NoOverrun
  BY SpoolerInvariant, InvariantConsequences, PTL

\* Jobs are printed once each and in the order they were accepted.
THEOREM SpoolerPrintsInOrder == Safety => []PrintedInOrder
  <1>1. IndInv => PrintedInOrder
    BY DEF IndInv
  <1> QED  BY <1>1, SpoolerInvariant, PTL

\* The spooler comes to rest only when every client has handed its job over
\* and every job has been printed.
THEOREM SpoolerStopsOnlyWhenDone == Safety => []StopsOnlyWhenDone
  BY SpoolerInvariant, InvariantConsequences, PTL

\* A printer that did not announce its sleep does not block: nobody else takes
\* from full, so what it saw there is still there.
THEOREM SpoolerQuietPrinter == Safety => []QuietPrinterNeverBlocks
  <1>1. Init => QuietPrinterNeverBlocks
    BY DEF Init, QuietPrinterNeverBlocks
  <1>2. IndInv /\ QuietPrinterNeverBlocks /\ [Next]_vars
           => QuietPrinterNeverBlocks'
    <2> SUFFICES ASSUME IndInv, QuietPrinterNeverBlocks, [Next]_vars,
                        spc' = "wait_full", ~announced'
                 PROVE  full' > 0
      BY DEF QuietPrinterNeverBlocks
    <2>1. full \in Nat
      BY DEF IndInv, TypeOK
    <2>2. CASE \E c \in Clients : put_a_job(c)
      BY <2>1, <2>2
      DEF put_a_job, PutCheck, PutWaitEmpty, PutWaitMutex, PushStore,
          PushAdvance, PutPostMutex, PutPostFull, sem_post, semaphore, server,
          QuietPrinterNeverBlocks
    <2>3. CASE Printer
      <3>1. TakeCheck
        BY <2>3
        DEF Printer, take_a_job, TakeWaitFull, TakeWaitMutex, PopRead,
            PopAdvance, TakePostMutex, TakePostEmpty, go_sleep, ServerAt
      <3>2. full' = full /\ (announced' <=> full < 1)
        BY <3>1 DEF TakeCheck, semaphore, willSemaphoreWait
      <3> QED  BY <2>1, <3>2
    <2>4. CASE UNCHANGED vars
      BY <2>4 DEF vars, semaphore, server, QuietPrinterNeverBlocks
    <2> QED  BY <2>2, <2>3, <2>4 DEF Next
  <1> QED  BY <1>1, <1>2, SpoolerInvariant, PTL DEF Safety
=============================================================================
