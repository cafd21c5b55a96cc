------------------------------ MODULE Hal3_proofs ------------------------------
(***************************************************************************)
(* Proofs about Hal3, for any number of frames, any limits and any         *)
(* interleaving of requests, metadata, buffers and flushes: each buffer of *)
(* a capture goes back once and with its frame's result or after it, the   *)
(* limit on requests in flight works, results come once and in order, and  *)
(* dropped buffers are reported.                                           *)
(***************************************************************************)
EXTENDS Hal3, FiniteSetTheorems, SequenceTheorems, NaturalsInduction, WellFoundedInduction, TLAPS

\* buffers that the requests so far have brought
Brought == {b \in Buffers : b[1] \in Requested /\ b[2] \in StreamsOf[kind[b[1]]]}

RequestInv ==
  /\ kind \in Seq(Kinds) /\ Len(kind) <= MaxFrame
  /\ mPendingRequestsList \subseteq Requested
  /\ mPendingReprocessResultList \subseteq Requested
  /\ \A f \in mPendingReprocessResultList : kind[f] = "reprocess"

(* Who has a buffer that is not back: the map has those of captures, the    *)
(* channels those they fill, and a cached result of a reprocessing its own. *)
BufferInv ==
  /\ back \in [Buffers -> {"no", "ok", "bad"}]
  /\ \A b \in mPendingBuffersMap : b \in Brought /\ back[b] = "no"
  /\ \A b \in busy : b \in Brought /\ back[b] = "no"
  /\ \A b \in cached : b \in mPendingBuffersMap /\ b \notin busy
  /\ \A b \in Brought : kind[b[1]] # "reprocess" /\ back[b] = "no" => b \in mPendingBuffersMap
  /\ \A b \in Buffers : back[b] # "no" => b \in Brought /\ b[1] \notin mPendingRequestsList
  /\ \A f \in mPendingReprocessResultList :
       /\ back[<<f, "blob">>] = "no"
       /\ <<f, "blob">> \notin busy \cup mPendingBuffersMap

Inv == RequestInv /\ BufferInv

-----------------------------------------------------------------------------
LEMMA KindsAndStreams ==
  /\ Kinds = {"preview", "picture", "reprocess"}
  /\ \A k \in Kinds : StreamsOf[k] \subseteq {"prev", "blob"}
  /\ \A k \in Kinds : StreamsOf[k] # {}
  /\ StreamsOf["reprocess"] = {"blob"}
BY DEF Kinds, StreamsOf

(* The buffers of a request made are the ones it brought.                  *)
LEMMA OfIsBrought ==
  ASSUME RequestInv, NEW f \in Requested, NEW b
  PROVE  b \in Of(f) <=> b \in Brought /\ b[1] = f
<1>1. f \in Frames /\ kind[f] \in Kinds
  BY Hal3Assumption DEF RequestInv, Requested, Frames, Hal3Assumption
<1>2. StreamsOf[kind[f]] \subseteq {"prev", "blob"}
  BY <1>1, KindsAndStreams
<1> QED
  BY <1>1, <1>2 DEF Of, Brought, Buffers

LEMMA Accounted ==
  ASSUME Inv
  PROVE  BuffersAccounted
<1>1. ASSUME NEW f \in Captures, NEW b \in Of(f)
      PROVE  /\ b \in mPendingBuffersMap <=> back[b] = "no"
             /\ back[b] # "no" => f \notin mPendingRequestsList
  <2>1. f \in Requested /\ b \in Brought /\ b[1] = f /\ kind[f] # "reprocess"
    BY <1>1, OfIsBrought DEF Captures, Inv
  <2> QED
    BY <2>1 DEF Inv, BufferInv, Brought
<1>2. \A b \in Buffers : back[b] # "twice"
  BY DEF Inv, BufferInv
<1> QED
  BY <1>1, <1>2 DEF BuffersAccounted

LEMMA Begins == Init => Inv
<1> SUFFICES ASSUME Init PROVE Inv
  OBVIOUS
<1>1. Requested = {}
  BY DEF Init, Requested
<1>2. RequestInv
  BY <1>1, Hal3Assumption DEF Init, RequestInv, Hal3Assumption
<1>3. BufferInv
  BY <1>1 DEF Init, BufferInv, Brought
<1> QED
  BY <1>2, <1>3 DEF Inv

-----------------------------------------------------------------------------
(* A step that changes none of these changes nothing the invariant says.   *)
Kept == <<kind, mPendingRequestsList, mPendingReprocessResultList, back,
          mPendingBuffersMap, busy, cached>>

LEMMA KeptKeeps == Inv /\ UNCHANGED Kept => Inv'
BY DEF Inv, RequestInv, BufferInv, Kept, Requested, Brought

LEMMA ConfigureKeeps == Inv /\ configureStreams => Inv'
<1> SUFFICES ASSUME Inv, configureStreams PROVE Inv'
  OBVIOUS
<1>1. Requested' = Requested /\ Brought' = Brought
  BY DEF configureStreams, service, Requested, Brought
<1>2. RequestInv'
  BY <1>1 DEF Inv, RequestInv, configureStreams, service
<1>3. ASSUME NEW b \in Brought PROVE back[b] # "no"
  <2>1. b \in Of(b[1]) /\ b[1] \in Requested /\ b \in Buffers
    BY OfIsBrought, <1>3 DEF Inv, Brought
  <2> QED
    BY <2>1 DEF configureStreams
<1>4. BufferInv'
  BY <1>1, <1>3 DEF Inv, BufferInv, configureStreams, service
<1> QED
  BY <1>2, <1>4 DEF Inv

LEMMA RequestKeeps ==
  ASSUME Inv, NEW k \in Kinds, processCaptureRequest(k)
  PROVE  Inv'
<1> DEFINE f == Len(kind) + 1
           new == {f} \X StreamsOf[k]
<1>1. /\ f \in Frames /\ f \notin Requested /\ Requested \subseteq Frames
      /\ Requested' = Requested \cup {f} /\ Requested \subseteq 1 .. Len(kind)
      /\ kind' \in Seq(Kinds) /\ Len(kind') = f /\ kind'[f] = k
      /\ \A g \in Requested : kind'[g] = kind[g]
  BY Hal3Assumption DEF Inv, RequestInv, processCaptureRequest, Requested, Frames,
                        Hal3Assumption
<1>2. RequestInv'
  <2>1. /\ mPendingRequestsList' = mPendingRequestsList \cup {f}
        /\ mPendingReprocessResultList' = mPendingReprocessResultList
    BY DEF processCaptureRequest
  <2>2. f <= MaxFrame
    BY <1>1 DEF Frames
  <2> QED
    BY <1>1, <2>1, <2>2 DEF Inv, RequestInv
<1>3. /\ new \subseteq Buffers /\ \A b \in new : b[1] = f /\ b[2] \in StreamsOf[k]
  BY <1>1, KindsAndStreams DEF Buffers
<1>4. Brought' = Brought \cup new
  BY <1>1, <1>3, KindsAndStreams DEF Brought, Buffers
<1>5. \A b \in new : b \notin Brought /\ back[b] = "no" /\ b \notin mPendingBuffersMap
  BY <1>1, <1>3 DEF Inv, BufferInv, Brought
<1>6. /\ back' = back /\ cached' = cached
      /\ mPendingReprocessResultList' = mPendingReprocessResultList
      /\ mPendingBuffersMap' = mPendingBuffersMap \cup new
      /\ busy \subseteq busy' /\ busy' \subseteq busy \cup new
      /\ mPendingRequestsList' = mPendingRequestsList \cup {f}
  BY DEF processCaptureRequest
<1>7. \A b \in cached : b \notin new
  BY <1>5 DEF Inv, BufferInv
<1>8. \A g \in mPendingReprocessResultList : g \in Requested /\ <<g, "blob">> \notin new
  BY <1>1, <1>3 DEF Inv, RequestInv
<1>9. BufferInv'
  <2>1. back' \in [Buffers -> {"no", "ok", "bad"}]
    BY <1>6 DEF Inv, BufferInv
  <2>2. \A b \in mPendingBuffersMap' : b \in Brought' /\ back'[b] = "no"
    BY <1>4, <1>5, <1>6 DEF Inv, BufferInv
  <2>3. \A b \in busy' : b \in Brought' /\ back'[b] = "no"
    BY <1>4, <1>5, <1>6 DEF Inv, BufferInv
  <2>4. \A b \in cached' : b \in mPendingBuffersMap' /\ b \notin busy'
    BY <1>6, <1>7 DEF Inv, BufferInv
  <2>5. \A b \in Brought' : kind'[b[1]] # "reprocess" /\ back'[b] = "no"
                             => b \in mPendingBuffersMap'
    <3> TAKE b \in Brought'
    <3>1. CASE b \in new
      BY <3>1, <1>6
    <3>2. CASE b \in Brought
      <4>1. kind'[b[1]] = kind[b[1]]
        BY <3>2, <1>1 DEF Brought
      <4> QED
        BY <3>2, <4>1, <1>6 DEF Inv, BufferInv
    <3> QED
      BY <3>1, <3>2, <1>4
  <2>6. \A b \in Buffers : back'[b] # "no" => b \in Brought' /\ b[1] \notin mPendingRequestsList'
    <3> SUFFICES ASSUME NEW b \in Buffers, back'[b] # "no"
                 PROVE  b \in Brought' /\ b[1] \notin mPendingRequestsList'
      OBVIOUS
    <3>1. b \in Brought /\ b[1] \notin mPendingRequestsList
      BY <1>6 DEF Inv, BufferInv
    <3>2. b[1] # f
      BY <3>1, <1>1 DEF Brought
    <3> QED
      BY <3>1, <3>2, <1>4, <1>6
  <2>7. \A g \in mPendingReprocessResultList' :
          /\ back'[<<g, "blob">>] = "no"
          /\ <<g, "blob">> \notin busy' \cup mPendingBuffersMap'
    BY <1>6, <1>8 DEF Inv, BufferInv
  <2> QED
    BY <2>1, <2>2, <2>3, <2>4, <2>5, <2>6, <2>7 DEF BufferInv
<1> QED
  BY <1>2, <1>9 DEF Inv

(* A step that gives buffers back which were not, and leaves no trace of    *)
(* them.                                                                   *)
LEMMA ReturnKeeps ==
  ASSUME Inv, NEW bs, NEW bad, GiveBack(bs, bad), UNCHANGED kind,
         bs \subseteq Brought, \A b \in bs : back[b] = "no" /\ b[1] \notin mPendingRequestsList',
         mPendingRequestsList' \subseteq mPendingRequestsList,
         mPendingBuffersMap' = mPendingBuffersMap \ bs,
         busy' \subseteq busy \ bs, cached' \subseteq cached \ bs,
         mPendingReprocessResultList' \subseteq mPendingReprocessResultList,
         \A f \in mPendingReprocessResultList' : <<f, "blob">> \notin bs
  PROVE  Inv'
<1>1. Requested' = Requested /\ Brought' = Brought /\ Brought \subseteq Buffers
  BY DEF Requested, Brought
<1>2. RequestInv'
  BY <1>1 DEF Inv, RequestInv
<1>3. /\ back' \in [Buffers -> {"no", "ok", "bad"}]
      /\ \A b \in Buffers : /\ b \in bs => back'[b] # "no"
                            /\ b \notin bs => back'[b] = back[b]
  BY <1>1 DEF GiveBack, Inv, BufferInv
<1>4. BufferInv'
  <2>1. \A b \in mPendingBuffersMap' : b \in Brought' /\ back'[b] = "no"
    BY <1>1, <1>3 DEF Inv, BufferInv
  <2>2. \A b \in busy' : b \in Brought' /\ back'[b] = "no"
    BY <1>1, <1>3 DEF Inv, BufferInv
  <2>3. \A b \in cached' : b \in mPendingBuffersMap' /\ b \notin busy'
    BY DEF Inv, BufferInv
  <2>4. \A b \in Brought' : kind'[b[1]] # "reprocess" /\ back'[b] = "no"
                             => b \in mPendingBuffersMap'
    BY <1>1, <1>3 DEF Inv, BufferInv
  <2>5. \A b \in Buffers : back'[b] # "no" => b \in Brought' /\ b[1] \notin mPendingRequestsList'
    BY <1>1, <1>3 DEF Inv, BufferInv
  <2>6. \A f \in mPendingReprocessResultList' :
          /\ back'[<<f, "blob">>] = "no"
          /\ <<f, "blob">> \notin busy' \cup mPendingBuffersMap'
    <3> TAKE f \in mPendingReprocessResultList'
    <3>1. /\ back[<<f, "blob">>] = "no" /\ <<f, "blob">> \notin bs
          /\ <<f, "blob">> \notin busy \cup mPendingBuffersMap
          /\ f \in Requested
      BY DEF Inv, BufferInv, RequestInv
    <3>2. <<f, "blob">> \in Buffers
      BY <3>1, Hal3Assumption DEF Buffers, Requested, Frames, Inv, RequestInv, Hal3Assumption
    <3> QED
      BY <3>1, <3>2, <1>3
  <2> QED
    BY <1>3, <2>1, <2>2, <2>3, <2>4, <2>5, <2>6 DEF BufferInv
<1> QED
  BY <1>2, <1>4 DEF Inv

LEMMA LateBuffer ==
  ASSUME Inv, NEW b, BufferAfterResult(b)
  PROVE  Inv'
<1>1. /\ b \in busy /\ b[1] \notin mPendingRequestsList /\ busy' = busy \ {b}
      /\ mPendingBuffersMap' = mPendingBuffersMap \ {b}
      /\ UNCHANGED <<kind, mPendingRequestsList, cached, mPendingReprocessResultList>>
      /\ GiveBack({b}, mPendingFrameDropList)
  BY DEF BufferAfterResult, Arrives, Without
<1>2. b \in Brought /\ back[b] = "no" /\ b \notin cached
  BY <1>1 DEF Inv, BufferInv
<1>3. \A f \in mPendingReprocessResultList : <<f, "blob">> # b
  BY <1>1 DEF Inv, BufferInv
<1> QED
  BY <1>1, <1>2, <1>3, ReturnKeeps

LEMMA EarlyBuffer ==
  ASSUME Inv, NEW b, BufferBeforeResult(b)
  PROVE  Inv'
<1>1. /\ b \in busy /\ busy' = busy \ {b} /\ cached' = cached \cup {b}
      /\ kind[b[1]] # "reprocess"
      /\ UNCHANGED <<kind, back, mPendingRequestsList, mPendingBuffersMap,
                     mPendingReprocessResultList>>
  BY DEF BufferBeforeResult, Arrives, service
<1>2. b \in mPendingBuffersMap
  BY <1>1 DEF Inv, BufferInv
<1>3. Requested' = Requested /\ Brought' = Brought
  BY <1>1 DEF Requested, Brought
<1>4. RequestInv'
  BY <1>1, <1>3 DEF Inv, RequestInv
<1>5. BufferInv'
  BY <1>1, <1>2, <1>3 DEF Inv, BufferInv
<1> QED
  BY <1>4, <1>5 DEF Inv

LEMMA ReprocessBuffer ==
  ASSUME Inv, NEW b, BufferOfReprocess(b)
  PROVE  Inv'
<1> DEFINE f == b[1]
<1>1. /\ b \in busy /\ busy' = busy \ {b} /\ mPendingBuffersMap' = mPendingBuffersMap \ {b}
      /\ f \in mPendingRequestsList /\ kind[f] = "reprocess"
      /\ UNCHANGED <<kind, cached>>
  BY DEF BufferOfReprocess, Arrives, Without
<1>2. b \in Brought /\ back[b] = "no" /\ b \notin cached
  BY <1>1 DEF Inv, BufferInv
<1>3. b = <<f, "blob">> /\ f \in Requested
  BY <1>1, <1>2, KindsAndStreams DEF Brought, Buffers
<1>4. \A g \in mPendingReprocessResultList : <<g, "blob">> # b
  BY <1>1 DEF Inv, BufferInv
<1>5. CASE \A g \in mPendingRequestsList : g >= f
  <2>1. /\ GiveBack({b}, {}) /\ mPendingRequestsList' = mPendingRequestsList \ {f}
        /\ mPendingReprocessResultList' = mPendingReprocessResultList
    BY <1>5 DEF BufferOfReprocess
  <2> QED
    BY <1>1, <1>2, <1>4, <2>1, ReturnKeeps
<1>6. CASE ~ \A g \in mPendingRequestsList : g >= f
  <2>1. /\ mPendingReprocessResultList' = mPendingReprocessResultList \cup {f}
        /\ UNCHANGED <<back, mPendingRequestsList>>
    BY <1>6 DEF BufferOfReprocess
  <2>2. Requested' = Requested /\ Brought' = Brought
    BY <1>1 DEF Requested, Brought
  <2>3. RequestInv'
    BY <1>1, <1>3, <2>1, <2>2 DEF Inv, RequestInv
  <2>4. \A c \in cached' : c \in mPendingBuffersMap' /\ c \notin busy'
    BY <1>1, <1>2 DEF Inv, BufferInv
  <2>5. \A c \in Brought' : kind'[c[1]] # "reprocess" /\ back'[c] = "no"
                             => c \in mPendingBuffersMap'
    BY <1>1, <2>1, <2>2 DEF Inv, BufferInv
  <2>6. \A g \in mPendingReprocessResultList' :
          /\ back'[<<g, "blob">>] = "no"
          /\ <<g, "blob">> \notin busy' \cup mPendingBuffersMap'
    BY <1>1, <1>2, <1>3, <2>1 DEF Inv, BufferInv
  <2>7. BufferInv'
    BY <1>1, <2>1, <2>2, <2>4, <2>5, <2>6 DEF Inv, BufferInv
  <2> QED
    BY <2>3, <2>7 DEF Inv
<1> QED
  BY <1>5, <1>6

LEMMA MetadataKeeps ==
  ASSUME Inv, NEW n, NEW drop, handleMetadataWithLock(n, drop)
  PROVE  Inv'
<1> DEFINE gone == Upto(n)
           late == handlePendingReprocResults(n)
           given == {b \in cached : b[1] \in gone}
           lateBlobs == (late \cap mPendingRequestsList) \X {"blob"}
           bad == MarkedBad(n, drop, given)
<1>1. /\ GiveBack(given \cup lateBlobs, bad)
      /\ cached' = cached \ given
      /\ mPendingBuffersMap' = mPendingBuffersMap \ given
      /\ mPendingRequestsList' = mPendingRequestsList \ (gone \cup late)
      /\ mPendingReprocessResultList' = mPendingReprocessResultList \ late
      /\ UNCHANGED <<busy, kind>>
  BY DEF handleMetadataWithLock
<1>2. late \subseteq mPendingReprocessResultList
  BY DEF handlePendingReprocResults
<1> HIDE DEF gone, late, bad
<1>3. \A b \in given : /\ b \in cached /\ b[1] \in gone /\ b \in mPendingBuffersMap
                        /\ b \in Brought /\ back[b] = "no" /\ b \notin busy
  BY DEF Inv, BufferInv
<1>4. ASSUME NEW b \in lateBlobs
      PROVE  /\ b \in Brought /\ b[1] \in late /\ back[b] = "no"
             /\ b \notin busy /\ b \notin mPendingBuffersMap /\ b \notin cached
  <2>1. PICK f \in late : b = <<f, "blob">>
    OBVIOUS
  <2>2. f \in Requested /\ kind[f] = "reprocess" /\ f \in Frames
    BY <1>2, <2>1, Hal3Assumption DEF Inv, RequestInv, Requested, Frames, Hal3Assumption
  <2>3. b \in Brought
    BY <2>1, <2>2, KindsAndStreams DEF Brought, Buffers
  <2> QED
    BY <1>2, <2>1, <2>3 DEF Inv, BufferInv
<1> DEFINE bs == given \cup lateBlobs
<1>5. /\ bs \subseteq Brought
      /\ \A b \in bs : back[b] = "no" /\ b[1] \notin mPendingRequestsList'
  BY <1>1, <1>3, <1>4
<1>6. /\ mPendingBuffersMap' = mPendingBuffersMap \ bs
      /\ busy' \subseteq busy \ bs /\ cached' \subseteq cached \ bs
  BY <1>1, <1>3, <1>4
<1>7. \A f \in mPendingReprocessResultList' : <<f, "blob">> \notin bs
  <2>1. \A f \in mPendingReprocessResultList : <<f, "blob">> \notin given
    BY <1>3 DEF Inv, BufferInv
  <2>2. \A f \in mPendingReprocessResultList' : <<f, "blob">> \notin lateBlobs
    BY <1>1
  <2> QED
    BY <1>1, <2>1, <2>2
<1> HIDE DEF given, lateBlobs
<1>8. /\ mPendingRequestsList' \subseteq mPendingRequestsList
      /\ mPendingReprocessResultList' \subseteq mPendingReprocessResultList
  BY <1>1
<1> QED
  BY <1>1, <1>5, <1>6, <1>7, <1>8, ReturnKeeps

LEMMA FlushKeeps ==
  ASSUME Inv, NEW end, flushEnd(end)
  PROVE  Inv'
<1>1. /\ GiveBack(mPendingBuffersMap, mPendingBuffersMap)
      /\ mPendingRequestsList' = {} /\ mPendingBuffersMap' = {}
      /\ mPendingReprocessResultList' = {} /\ cached' = {} /\ busy' = {}
      /\ UNCHANGED kind
  BY DEF flushEnd
<1>2. \A b \in mPendingBuffersMap : b \in Brought /\ back[b] = "no"
  BY DEF Inv, BufferInv
<1> QED
  BY <1>1, <1>2, ReturnKeeps

LEMMA StepKeeps == Inv /\ [Next]_vars => Inv'
<1> SUFFICES ASSUME Inv, [Next]_vars PROVE Inv'
  OBVIOUS
<1>1. CASE configureStreams
  BY <1>1, ConfigureKeeps
<1>2. ASSUME NEW k \in Kinds, processCaptureRequest(k) PROVE Inv'
  BY <1>2, RequestKeeps
<1>3. ASSUME NEW n \in Frames, NEW drop \in {{}, {"prev"}}, handleMetadataWithLock(n, drop)
      PROVE  Inv'
  BY <1>3, MetadataKeeps
<1>4. ASSUME NEW b \in Buffers, BufferAfterResult(b) PROVE Inv'
  BY <1>4, LateBuffer
<1>5. ASSUME NEW b \in Buffers, BufferOfReprocess(b) PROVE Inv'
  BY <1>5, ReprocessBuffer
<1>6. ASSUME NEW b \in Buffers, BufferBeforeResult(b) PROVE Inv'
  BY <1>6, EarlyBuffer
<1>7. ASSUME NEW end \in EndNumbers, flushEnd(end) PROVE Inv'
  BY <1>7, FlushKeeps
<1>8. CASE Wake \/ TimeOut \/ PullRequest \/ OtherMetadata \/ flushBegin \/ StopChannels
           \/ UNCHANGED vars
  <2>1. UNCHANGED Kept
    BY <1>8 DEF Wake, TimeOut, PullRequest, OtherMetadata, flushBegin, StopChannels,
                Kept, vars, hwi, service
  <2> QED
    BY <2>1, KeptKeeps
<1> QED
  BY <1>1, <1>2, <1>3, <1>4, <1>5, <1>6, <1>7, <1>8 DEF Next

(* BuffersAccounted for every step of the code: a buffer of a capture is   *)
(* given back once, and not before its frame's result.                     *)
THEOREM BuffersComeBackOnce == Spec => []BuffersAccounted
<1>1. Init => Inv
  BY Begins
<1>2. Inv /\ [Next]_vars => Inv'
  BY StepKeeps
<1>3. Inv => BuffersAccounted
  BY Accounted
<1> QED
  BY <1>1, <1>2, <1>3, PTL DEF Spec

-----------------------------------------------------------------------------
(* The count is right outside a flush.  It starts anew at 0 with the first  *)
(* request after a configuration, when no request is pending.               *)
LimitInv ==
  /\ mPendingRequest \in Int
  /\ LimitWorks
  /\ mFirstRequest /\ flush = "no" => mPendingRequestsList = {}
  /\ caller = "idle" => mPendingRequest < MaxInflight

LEMMA PendingIsFinite ==
  ASSUME Inv
  PROVE  IsFiniteSet(mPendingRequestsList)
<1>1. IsFiniteSet(1 .. Len(kind)) /\ Len(kind) \in Nat
  BY FS_Interval DEF Inv, RequestInv
<1> QED
  BY <1>1, FS_Subset DEF Inv, RequestInv, Requested

LEMMA LimitBegins == Init => LimitInv
BY FS_EmptySet, Hal3Assumption DEF Init, LimitInv, LimitWorks, CountIsTrue, NeverOverLimit,
                               NoLostSignal, Hal3Assumption

(* The request thread sleeps on rightly: it is signalled, or as before.     *)
LEMMA SleepsOn ==
  ASSUME Inv, NoLostSignal, UNCHANGED <<kind, caller>>,
         mPendingRequestsList' \subseteq mPendingRequestsList,
         \/ Signal
         \/ UNCHANGED <<signalled, mPendingRequest>>
         \/ \E f \in Requested \ mPendingRequestsList' : kind[f] = "reprocess"
  PROVE  NoLostSignal'
BY DEF NoLostSignal, Signal, Requested

LEMMA LimitConfigure == Inv /\ LimitInv /\ configureStreams => LimitInv'
<1> SUFFICES ASSUME Inv, LimitInv, configureStreams PROVE LimitInv'
  OBVIOUS
<1>1. mPendingRequestsList = {}
  <2> SUFFICES ASSUME NEW f \in mPendingRequestsList PROVE FALSE
    OBVIOUS
  <2>1. f \in Requested /\ f \in Frames /\ kind[f] \in Kinds
    BY Hal3Assumption DEF Inv, RequestInv, Requested, Frames, Hal3Assumption
  <2>2. PICK s : s \in StreamsOf[kind[f]]
    BY <2>1, KindsAndStreams
  <2>3. <<f, s>> \in Of(f) /\ <<f, s>> \in Buffers
    BY <2>1, <2>2, KindsAndStreams DEF Of, Buffers
  <2>4. back[<<f, s>>] # "no"
    BY <2>1, <2>3 DEF configureStreams
  <2> QED
    BY <2>3, <2>4 DEF Inv, BufferInv
<1>2. /\ mPendingRequestsList' = {} /\ caller = "idle"
      /\ UNCHANGED <<mPendingRequest, flush, caller, signalled, kind>>
  BY DEF configureStreams, service
<1>3. NoLostSignal'
  BY <1>2 DEF NoLostSignal
<1> QED
  BY <1>1, <1>2, <1>3 DEF LimitInv, LimitWorks, CountIsTrue, NeverOverLimit

LEMMA LimitRequest ==
  ASSUME Inv, LimitInv, NEW k \in Kinds, processCaptureRequest(k)
  PROVE  LimitInv'
<1> DEFINE f == Len(kind) + 1
           count == IF mFirstRequest THEN 0 ELSE mPendingRequest
<1>1. /\ caller = "idle" /\ UNCHANGED <<flush, signalled>>
      /\ mPendingRequestsList' = mPendingRequestsList \cup {f}
      /\ f \notin mPendingRequestsList
  BY DEF processCaptureRequest, Inv, RequestInv, Requested
<1>2. count \in Int /\ count < MaxInflight
  BY <1>1, Hal3Assumption DEF LimitInv, Hal3Assumption
<1>3. CASE flush # "no"
  <2>1. mPendingRequest' = count /\ UNCHANGED <<mFirstRequest, caller>>
    BY <1>3 DEF processCaptureRequest
  <2> QED
    BY <1>1, <1>2, <1>3, <2>1, Hal3Assumption
    DEF LimitInv, LimitWorks, CountIsTrue, NeverOverLimit, NoLostSignal, Hal3Assumption
<1>4. CASE flush = "no"
  <2>1. /\ mPendingRequest' = count + 1 /\ mFirstRequest' = FALSE
        /\ caller' = IF count + 1 >= MinInflight THEN "waiting" ELSE "idle"
    BY <1>4 DEF processCaptureRequest
  <2>2. count = Cardinality(mPendingRequestsList)
    BY <1>4, FS_EmptySet DEF LimitInv, LimitWorks, CountIsTrue
  <2>3. Cardinality(mPendingRequestsList') = count + 1
    BY <1>1, <2>2, PendingIsFinite, FS_AddElement
  <2> QED
    BY <1>1, <1>2, <1>4, <2>1, <2>3, Hal3Assumption
    DEF LimitInv, LimitWorks, CountIsTrue, NeverOverLimit, NoLostSignal, Hal3Assumption
<1> QED
  BY <1>3, <1>4

LEMMA LimitWake == Inv /\ LimitInv /\ Wake => LimitInv'
BY Hal3Assumption DEF Wake, Unblocked, LimitInv, LimitWorks, CountIsTrue, NeverOverLimit,
                      NoLostSignal, Hal3Assumption

LEMMA LimitMetadata ==
  ASSUME Inv, LimitInv, NEW n, NEW drop, handleMetadataWithLock(n, drop)
  PROVE  LimitInv'
<1> DEFINE X == Upto(n) \cup handlePendingReprocResults(n)
<1>1. /\ mPendingRequestsList' = mPendingRequestsList \ X
      /\ mPendingRequest' = mPendingRequest - Cardinality(mPendingRequestsList \cap X)
      /\ Signal /\ UNCHANGED <<mFirstRequest, flush, caller, kind>>
  BY DEF handleMetadataWithLock, Ended
<1> HIDE DEF X
<1>2. /\ Cardinality(mPendingRequestsList \ X)
           = Cardinality(mPendingRequestsList) - Cardinality(mPendingRequestsList \cap X)
      /\ Cardinality(mPendingRequestsList \cap X) \in Nat
  <2>1. IsFiniteSet(mPendingRequestsList \cap X)
    BY PendingIsFinite, FS_Subset
  <2> QED
    BY <2>1, PendingIsFinite, FS_Difference, FS_CardinalityType
<1>3. NoLostSignal'
  BY <1>1, SleepsOn DEF LimitInv, LimitWorks
<1> QED
  BY <1>1, <1>2, <1>3, Hal3Assumption
  DEF LimitInv, LimitWorks, CountIsTrue, NeverOverLimit, Hal3Assumption

LEMMA LimitReprocess ==
  ASSUME Inv, LimitInv, NEW b, BufferOfReprocess(b)
  PROVE  LimitInv'
<1> DEFINE f == b[1]
<1>1. /\ f \in mPendingRequestsList /\ kind[f] = "reprocess" /\ f \in Requested
      /\ UNCHANGED <<mFirstRequest, flush, caller, signalled, kind>>
  BY DEF BufferOfReprocess, Inv, RequestInv
<1>2. CASE UNCHANGED <<mPendingRequest, mPendingRequestsList>>
  BY <1>1, <1>2, SleepsOn DEF LimitInv, LimitWorks, CountIsTrue, NeverOverLimit
<1>3. CASE /\ mPendingRequestsList' = mPendingRequestsList \ {f}
           /\ mPendingRequest' = mPendingRequest - 1
  <2>1. Cardinality(mPendingRequestsList') = Cardinality(mPendingRequestsList) - 1
    BY <1>1, <1>3, PendingIsFinite, FS_RemoveElement
  <2>2. NoLostSignal'
    BY <1>1, <1>3, SleepsOn DEF LimitInv, LimitWorks
  <2> QED
    BY <1>1, <1>3, <2>1, <2>2, Hal3Assumption
    DEF LimitInv, LimitWorks, CountIsTrue, NeverOverLimit, Hal3Assumption
<1> QED
  BY <1>2, <1>3 DEF BufferOfReprocess

LEMMA LimitFlush ==
  ASSUME Inv, LimitInv, NEW end, flushEnd(end)
  PROVE  LimitInv'
<1>1. /\ mPendingRequestsList' = {} /\ mPendingRequest' = 0 /\ Signal
      /\ UNCHANGED <<caller, kind>>
  BY DEF flushEnd
<1>2. NoLostSignal'
  BY <1>1, SleepsOn DEF LimitInv, LimitWorks
<1> QED
  BY <1>1, <1>2, FS_EmptySet, Hal3Assumption
  DEF LimitInv, LimitWorks, CountIsTrue, NeverOverLimit, Hal3Assumption

(* LimitWorks for any limits and any number of frames: the count of        *)
(* requests in flight is right and bounded, and no wake-up is lost.        *)
THEOREM LimitHolds == Spec => []LimitWorks
<1>1. Init => Inv /\ LimitInv
  BY Begins, LimitBegins
<1>2. Inv /\ LimitInv /\ [Next]_vars => LimitInv'
  <2> SUFFICES ASSUME Inv, LimitInv, [Next]_vars PROVE LimitInv'
    OBVIOUS
  <2>1. CASE configureStreams
    BY <2>1, LimitConfigure
  <2>2. ASSUME NEW k \in Kinds, processCaptureRequest(k) PROVE LimitInv'
    BY <2>2, LimitRequest
  <2>3. ASSUME NEW n \in Frames, NEW drop \in {{}, {"prev"}}, handleMetadataWithLock(n, drop)
        PROVE  LimitInv'
    BY <2>3, LimitMetadata
  <2>4. ASSUME NEW b \in Buffers, BufferOfReprocess(b) PROVE LimitInv'
    BY <2>4, LimitReprocess
  <2>5. ASSUME NEW end \in EndNumbers, flushEnd(end) PROVE LimitInv'
    BY <2>5, LimitFlush
  <2>6. CASE Wake
    BY <2>6, LimitWake
  <2>7. CASE TimeOut
    BY <2>7 DEF TimeOut, hwi, service, LimitInv, LimitWorks, CountIsTrue, NeverOverLimit,
                NoLostSignal
  <2>8. CASE PullRequest \/ OtherMetadata
    <3>1. /\ Signal /\ UNCHANGED <<mFirstRequest, flush, caller, kind, mPendingRequest,
                                   mPendingRequestsList>>
      BY <2>8 DEF PullRequest, OtherMetadata, hwi, service
    <3>2. NoLostSignal'
      BY <3>1, SleepsOn DEF LimitInv, LimitWorks
    <3> QED
      BY <3>1, <3>2 DEF LimitInv, LimitWorks, CountIsTrue, NeverOverLimit
  <2>9. CASE flushBegin \/ StopChannels
    BY <2>9 DEF flushBegin, StopChannels, service, LimitInv, LimitWorks, CountIsTrue,
                NeverOverLimit, NoLostSignal, Requested
  <2>10. CASE UNCHANGED <<mFirstRequest, flush, caller, signalled, kind, mPendingRequest,
                          mPendingRequestsList>>
    BY <2>10 DEF LimitInv, LimitWorks, CountIsTrue, NeverOverLimit, NoLostSignal, Requested
  <2>11. ASSUME NEW b \in Buffers, BufferAfterResult(b) \/ BufferBeforeResult(b)
         PROVE  LimitInv'
    BY <2>11, <2>10 DEF BufferAfterResult, BufferBeforeResult, service
  <2>12. CASE UNCHANGED vars
    BY <2>12, <2>10 DEF vars, hwi, service
  <2> QED
    BY <2>1, <2>2, <2>3, <2>4, <2>5, <2>6, <2>7, <2>8, <2>9, <2>11, <2>12 DEF Next
<1>3. Inv /\ [Next]_vars => Inv'
  BY StepKeeps
<1>4. LimitInv => LimitWorks
  BY DEF LimitInv
<1> QED
  BY <1>1, <1>2, <1>3, <1>4, PTL DEF Spec

-----------------------------------------------------------------------------
(* The answers.  First what it is to tell a set of frames in their order.  *)
LEMMA LeastElement ==
  ASSUME NEW S \in SUBSET Nat, S # {}
  PROVE  \E s \in S : \A t \in S : s <= t
<1>1. PICK s \in S : \A t \in S : ~(<<t, s>> \in OpToRel(<, Nat))
  BY NatLessThanWellFounded, WFMin
<1>2. \A t \in S : ~(t < s)
  BY <1>1 DEF OpToRel
<1>3. \A t \in S : s <= t
  <2> TAKE t \in S
  <2>1. s \in Nat /\ t \in Nat /\ ~(t < s)
    BY <1>2
  <2> QED
    BY <2>1
<1> QED
  BY <1>3

(* How many members of a set are not above f: smaller for smaller f.       *)
Rank(fs, f) == Cardinality({g \in fs : g <= f})

LEMMA RankGrows ==
  ASSUME NEW fs \in SUBSET Nat, IsFiniteSet(fs), NEW f \in fs, NEW g \in fs
  PROVE  /\ Rank(fs, f) \in 1 .. Cardinality(fs)
         /\ f < g => Rank(fs, f) < Rank(fs, g)
<1> DEFINE Below(x) == {y \in fs : y <= x}
<1>1. /\ \A x \in fs : IsFiniteSet(Below(x)) /\ Cardinality(Below(x)) \in Nat
      /\ \A x \in fs : Cardinality(Below(x)) <= Cardinality(fs)
      /\ Cardinality(fs) \in Nat
  BY FS_Subset, FS_CardinalityType
<1>2. f \in Below(f) /\ f \in Nat /\ g \in Nat
  OBVIOUS
<1>3. Cardinality(Below(f)) # 0
  <2>1. Below(f) # {}
    BY <1>2
  <2> QED
    BY <1>1, <2>1, FS_EmptySet
<1>4. ASSUME f < g
      PROVE  Cardinality(Below(f)) < Cardinality(Below(g))
  <2>1. Below(f) \in SUBSET Below(g) /\ g \in Below(g) /\ g \notin Below(f)
    <3>1. ASSUME NEW x \in Below(f)
          PROVE  x \in Below(g)
      <4>1. x \in fs /\ x \in Nat /\ x <= f
        OBVIOUS
      <4> QED
        BY <1>2, <1>4, <4>1
    <3>2. g \in Below(g) /\ g \notin Below(f)
      BY <1>2, <1>4
    <3> HIDE DEF Below
    <3> QED
      BY <3>1, <3>2
  <2>2. Cardinality(Below(f)) <= Cardinality(Below(g)) /\ Cardinality(Below(f)) # Cardinality(Below(g))
    BY <1>1, <2>1, FS_Subset
  <2> QED
    BY <1>1, <2>2
<1> QED
  BY <1>1, <1>3, <1>4 DEF Rank

LEMMA InOrderIs ==
  ASSUME NEW fs \in SUBSET Nat, IsFiniteSet(fs)
  PROVE  /\ Cardinality(fs) \in Nat
         /\ InOrder(fs) \in [1 .. Cardinality(fs) -> fs]
         /\ \A i, j \in 1 .. Cardinality(fs) : i < j => InOrder(fs)[i] < InOrder(fs)[j]
         /\ \A f \in fs : \E i \in 1 .. Cardinality(fs) : InOrder(fs)[i] = f
<1> DEFINE N == Cardinality(fs)
           rank == [f \in fs |-> Rank(fs, f)]
           order == [i \in 1 .. N |-> CHOOSE f \in fs : rank[f] = i]
           Sorted(s) == \A i, j \in 1 .. N : i < j => s[i] < s[j]
<1>1. N \in Nat /\ IsFiniteSet(1 .. N) /\ Cardinality(1 .. N) = N
  BY FS_CardinalityType, FS_Interval
<1>2. \A f, g \in fs : /\ rank[f] \in 1 .. N /\ f \in Nat /\ g \in Nat
                       /\ f < g => rank[f] < rank[g]
  BY RankGrows
<1>3. rank \in [fs -> 1 .. N]
  BY <1>2
<1>4. \A f, g \in fs : rank[f] = rank[g] => f = g
  <2> TAKE f, g \in fs
  <2>1. f < g \/ g < f \/ f = g
    BY <1>2
  <2>2. rank[f] \in Nat /\ rank[g] \in Nat
    BY <1>1, <1>2
  <2> QED
    BY <1>2, <2>1, <2>2
<1>5. rank \in Surjection(fs, 1 .. N)
  <2>1. rank \in Injection(fs, 1 .. N)
    BY <1>3, <1>4 DEF Injection, IsInjective
  <2> QED
    BY <1>1, <2>1, FS_Injection
<1> HIDE DEF rank
<1>6. \A i \in 1 .. N : \E f \in fs : rank[f] = i
  BY <1>3, <1>5 DEF Surjection
<1>7. order \in [1 .. N -> fs] /\ \A i \in 1 .. N : rank[order[i]] = i
  BY <1>6
<1> HIDE DEF order
<1>8. Sorted(order)
  <2> TAKE i, j \in 1 .. N
  <2>1. /\ order[i] \in fs /\ order[j] \in fs /\ i \in Nat /\ j \in Nat
        /\ rank[order[i]] = i /\ rank[order[j]] = j
        /\ order[i] \in Nat /\ order[j] \in Nat
    <3>1. order[i] \in fs /\ order[j] \in fs
      BY <1>7
    <3>2. i \in Nat /\ j \in Nat
      BY <1>1
    <3> QED
      BY <1>7, <3>1, <3>2
  <2>2. order[j] < order[i] => j < i
    BY <1>2, <2>1
  <2>3. order[j] = order[i] => j = i
    BY <2>1
  <2> QED
    BY <2>1, <2>2, <2>3
<1>9. InOrder(fs) \in [1 .. N -> fs] /\ Sorted(InOrder(fs))
  <2>1. \E s \in [1 .. N -> fs] : \A i, j \in DOMAIN s : i < j => s[i] < s[j]
    BY <1>7, <1>8
  <2> QED
    BY <2>1 DEF InOrder
<1>10. InOrder(fs) \in Surjection(1 .. N, fs)
  <2> DEFINE s == InOrder(fs)
  <2>1. \A i, j \in 1 .. N : s[i] = s[j] => i = j
    <3> TAKE i, j \in 1 .. N
    <3>1. i \in Nat /\ j \in Nat /\ s[i] \in Nat /\ s[j] \in Nat
      <4>1. s[i] \in fs /\ s[j] \in fs
        BY <1>9
      <4>2. i \in Nat /\ j \in Nat
        BY <1>1
      <4> HIDE DEF s
      <4> QED
        BY <4>1, <4>2
    <3> QED
      BY <1>9, <3>1
  <2>2. s \in Injection(1 .. N, fs)
    BY <1>9, <2>1 DEF Injection, IsInjective
  <2> QED
    BY <1>1, <2>2, FS_Injection
<1> QED
  BY <1>1, <1>9, <1>10 DEF Surjection

-----------------------------------------------------------------------------
(* What has been told, for AnswersInOrder.  Every answer but a stray one is *)
(* for a request no longer pending and the only one of it; answers of       *)
(* captures are in order, and for frames before all that are pending.  So   *)
(* that a flush answers the pending requests and no others, a buffer in the *)
(* map is of a pending request or of a frame before all of them.            *)
Answers == [frame : Nat, as : {"result", "dummy", "reprocess", "error", "stray"}]
Final(a) == a.as # "stray"

PlaceInv ==
  /\ answers \in Seq(Answers)
  /\ \A i \in 1 .. Len(answers) : Final(answers[i]) =>
       answers[i].frame \in Requested \ mPendingRequestsList
  /\ \A f \in Captures : f \in mPendingRequestsList \/
       \E i \in 1 .. Len(answers) : Final(answers[i]) /\ answers[i].frame = f
  /\ \A i \in 1 .. Len(answers) : \A f \in mPendingRequestsList :
       Final(answers[i]) /\ answers[i].frame \in Captures => answers[i].frame < f
  /\ \A b \in mPendingBuffersMap : \A f \in mPendingRequestsList :
       b[1] \in mPendingRequestsList \/ b[1] < f
OrderInv ==
  \A i, j \in 1 .. Len(answers) : Final(answers[i]) /\ Final(answers[j]) =>
    /\ answers[i].frame = answers[j].frame => i = j
    /\ i < j /\ answers[i].frame \in Captures /\ answers[j].frame \in Captures
         => answers[i].frame < answers[j].frame
AnswerInv == PlaceInv /\ OrderInv

LEMMA AnswersAre ==
  ASSUME AnswerInv
  PROVE  /\ DOMAIN answers = 1 .. Len(answers) /\ Len(answers) \in Nat
         /\ \A i \in 1 .. Len(answers) : answers[i] \in Answers
         /\ \A f : AnswersOf(f) = {i \in 1 .. Len(answers) : Final(answers[i]) /\ answers[i].frame = f}
<1>1. answers \in Seq(Answers)
  BY DEF AnswerInv, PlaceInv
<1>2. DOMAIN answers = 1 .. Len(answers) /\ Len(answers) \in Nat
  BY <1>1, LenProperties
<1>3. \A i \in 1 .. Len(answers) : answers[i] \in Answers
  BY <1>1, ElementOfSeq
<1>4. \A f : AnswersOf(f) = {i \in 1 .. Len(answers) : Final(answers[i]) /\ answers[i].frame = f}
  BY <1>2 DEF AnswersOf, Final
<1> QED
  BY <1>2, <1>3, <1>4

LEMMA InOrderThen ==
  ASSUME AnswerInv
  PROVE  AnswersInOrder
<1>1. ASSUME NEW f \in Requested
      PROVE  Cardinality(AnswersOf(f)) <= 1
  <2>1. \A i, j \in AnswersOf(f) : i = j
    BY AnswersAre DEF AnswerInv, OrderInv
  <2>2. AnswersOf(f) = {} \/ \E i : AnswersOf(f) = {i}
    BY <2>1
  <2>3. Cardinality(AnswersOf(f)) \in {0, 1}
    BY <2>2, FS_EmptySet, FS_Singleton
  <2> QED
    BY <2>3
<1>2. ASSUME NEW f \in Captures
      PROVE  f \in mPendingRequestsList <=> AnswersOf(f) = {}
  <2>1. f \in mPendingRequestsList => AnswersOf(f) = {}
    BY AnswersAre DEF AnswerInv, PlaceInv
  <2>2. f \notin mPendingRequestsList => AnswersOf(f) # {}
    <3> SUFFICES ASSUME f \notin mPendingRequestsList PROVE AnswersOf(f) # {}
      OBVIOUS
    <3>1. PICK i \in 1 .. Len(answers) : Final(answers[i]) /\ answers[i].frame = f
      BY DEF AnswerInv, PlaceInv
    <3>2. i \in AnswersOf(f)
      BY <3>1, AnswersAre
    <3> QED
      BY <3>2
  <2> QED
    BY <2>1, <2>2
<1>3. ASSUME NEW f \in Captures, NEW g \in Captures, NEW i \in AnswersOf(f), NEW j \in AnswersOf(g),
             f < g
      PROVE  i < j
  <2>1. /\ i \in 1 .. Len(answers) /\ j \in 1 .. Len(answers) /\ i \in Nat /\ j \in Nat
        /\ Final(answers[i]) /\ Final(answers[j]) /\ answers[i].frame = f /\ answers[j].frame = g
    BY AnswersAre
  <2>2. f \in Nat /\ g \in Nat
    BY DEF Captures, Requested
  <2>3. ~(j < i) /\ i # j
    BY <1>3, <2>1, <2>2 DEF AnswerInv, OrderInv
  <2> QED
    BY <2>1, <2>3
<1> QED
  BY <1>1, <1>2, <1>3 DEF AnswersInOrder

(* Answers of requests that leave the list are appended.                   *)
LEMMA AnswersAppended ==
  ASSUME AnswerInv, UNCHANGED kind, NEW new \in Seq(Answers), answers' = answers \o new,
         mPendingRequestsList \subseteq Requested,
         mPendingRequestsList' \subseteq mPendingRequestsList,
         \A i \in 1 .. Len(new) : Final(new[i]) =>
           new[i].frame \in mPendingRequestsList \ mPendingRequestsList',
         \A f \in mPendingRequestsList \ mPendingRequestsList' : f \in Captures =>
           \E i \in 1 .. Len(new) : Final(new[i]) /\ new[i].frame = f,
         \A i, j \in 1 .. Len(new) : Final(new[i]) /\ Final(new[j]) =>
           /\ new[i].frame = new[j].frame => i = j
           /\ i < j /\ new[i].frame \in Captures /\ new[j].frame \in Captures
                => new[i].frame < new[j].frame,
         \A i \in 1 .. Len(new) : \A f \in mPendingRequestsList' :
           Final(new[i]) /\ new[i].frame \in Captures => new[i].frame < f,
         \A b \in mPendingBuffersMap' : \A f \in mPendingRequestsList' :
           b[1] \in mPendingRequestsList' \/ b[1] < f
  PROVE  AnswerInv'
<1> DEFINE P == mPendingRequestsList
           m == Len(answers)
           n == Len(new)
           all == answers \o new
<1>1. Captures' = Captures /\ Requested' = Requested
  BY DEF Captures, Requested
<1>2. /\ answers \in Seq(Answers) /\ m \in Nat /\ n \in Nat
      /\ all \in Seq(Answers) /\ Len(all) = m + n
      /\ \A i \in 1 .. m : all[i] = answers[i]
      /\ \A i \in 1 .. n : all[m + i] = new[i]
  BY ConcatProperties, LenProperties DEF AnswerInv, PlaceInv
<1>3. \A k \in 1 .. m + n : k \in 1 .. m \/ \E i \in 1 .. n : k = m + i
  <2> TAKE k \in 1 .. m + n
  <2>1. k \notin 1 .. m => k - m \in 1 .. n /\ k = m + (k - m)
    BY <1>2
  <2> QED
    BY <2>1
<1>4. \A i \in 1 .. n : m + i \in 1 .. m + n
  BY <1>2
<1>5. \A i \in 1 .. m : i \in 1 .. m + n
  BY <1>2
<1>6. \A i \in 1 .. m : Final(answers[i]) => answers[i].frame \in Requested \ P
  BY DEF AnswerInv, PlaceInv
<1>7. \A i \in 1 .. m : \A f \in P :
        Final(answers[i]) /\ answers[i].frame \in Captures => answers[i].frame < f
  BY DEF AnswerInv, PlaceInv
<1>8. \A i, j \in 1 .. m : Final(answers[i]) /\ Final(answers[j]) =>
        /\ answers[i].frame = answers[j].frame => i = j
        /\ i < j /\ answers[i].frame \in Captures /\ answers[j].frame \in Captures
             => answers[i].frame < answers[j].frame
  BY DEF AnswerInv, OrderInv
<1>9. \A f \in Captures : f \in P \/ \E i \in 1 .. m : Final(answers[i]) /\ answers[i].frame = f
  BY DEF AnswerInv, PlaceInv
<1> HIDE DEF m, n, all
<1>10. \A i \in 1 .. m + n : Final(all[i]) => all[i].frame \in Requested \ P'
  <2> TAKE i \in 1 .. m + n
  <2>1. CASE i \in 1 .. m
    BY <1>2, <1>6, <2>1
  <2>2. ASSUME NEW j \in 1 .. n, i = m + j
        PROVE  Final(all[i]) => all[i].frame \in Requested \ P'
    BY <1>2, <2>2 DEF n
  <2> QED
    BY <1>3, <2>1, <2>2
<1>11. \A f \in Captures : f \in P' \/ \E i \in 1 .. m + n : Final(all[i]) /\ all[i].frame = f
  <2> SUFFICES ASSUME NEW f \in Captures, f \notin P'
               PROVE  \E i \in 1 .. m + n : Final(all[i]) /\ all[i].frame = f
    OBVIOUS
  <2>1. CASE f \in P
    <3>1. PICK i \in 1 .. n : Final(new[i]) /\ new[i].frame = f
      BY <2>1 DEF n
    <3> QED
      BY <1>2, <1>4, <3>1
  <2>2. CASE f \notin P
    BY <1>2, <1>5, <1>9, <2>2
  <2> QED
    BY <2>1, <2>2
<1>12. \A i \in 1 .. m + n : \A f \in P' : Final(all[i]) /\ all[i].frame \in Captures => all[i].frame < f
  <2> TAKE i \in 1 .. m + n
  <2> TAKE f \in P'
  <2>1. CASE i \in 1 .. m
    BY <1>2, <1>7, <2>1
  <2>2. ASSUME NEW j \in 1 .. n, i = m + j
        PROVE  Final(all[i]) /\ all[i].frame \in Captures => all[i].frame < f
    BY <1>2, <2>2 DEF n
  <2> QED
    BY <1>3, <2>1, <2>2
<1>13. ASSUME NEW i \in 1 .. m + n, NEW j \in 1 .. m + n, Final(all[i]), Final(all[j])
       PROVE  /\ all[i].frame = all[j].frame => i = j
              /\ i < j /\ all[i].frame \in Captures /\ all[j].frame \in Captures
                   => all[i].frame < all[j].frame
  <2>1. CASE i \in 1 .. m /\ j \in 1 .. m
    BY <1>2, <1>8, <1>13, <2>1
  <2>2. ASSUME i \in 1 .. m, NEW l \in 1 .. n, j = m + l
        PROVE  all[i].frame # all[j].frame /\ (all[i].frame \in Captures => all[i].frame < all[j].frame)
    <3>1. Final(new[l]) /\ new[l].frame \in P /\ all[j] = new[l] /\ all[i] = answers[i]
      BY <1>2, <1>13, <2>2 DEF n
    <3> QED
      BY <1>6, <1>7, <1>13, <2>2, <3>1
  <2>3. ASSUME NEW k \in 1 .. n, i = m + k, j \in 1 .. m
        PROVE  all[i].frame # all[j].frame /\ ~(i < j)
    <3>1. Final(new[k]) /\ new[k].frame \in P /\ all[i] = new[k] /\ all[j] = answers[j]
      BY <1>2, <1>13, <2>3 DEF n
    <3>2. ~(i < j)
      BY <1>2, <2>3
    <3> QED
      BY <1>6, <1>13, <2>3, <3>1, <3>2
  <2>4. ASSUME NEW k \in 1 .. n, i = m + k, NEW l \in 1 .. n, j = m + l
        PROVE  /\ all[i].frame = all[j].frame => i = j
               /\ i < j /\ all[i].frame \in Captures /\ all[j].frame \in Captures
                    => all[i].frame < all[j].frame
    <3>1. all[i] = new[k] /\ all[j] = new[l] /\ Final(new[k]) /\ Final(new[l])
      BY <1>2, <1>13, <2>4
    <3>2. /\ new[k].frame = new[l].frame => k = l
          /\ k < l /\ new[k].frame \in Captures /\ new[l].frame \in Captures => new[k].frame < new[l].frame
      BY <3>1 DEF n
    <3>3. i < j => k < l
      BY <1>2, <2>4
    <3> QED
      BY <2>4, <3>1, <3>2, <3>3
  <2> QED
    BY <1>3, <2>1, <2>2, <2>3, <2>4
<1>14. answers' = all /\ Len(answers') = m + n
  BY <1>2 DEF all
<1>15. PlaceInv'
  BY <1>1, <1>2, <1>10, <1>11, <1>12, <1>14 DEF PlaceInv
<1>16. OrderInv'
  BY <1>1, <1>13, <1>14 DEF OrderInv
<1> QED
  BY <1>15, <1>16 DEF AnswerInv

Hows == {"result", "dummy", "reprocess", "error", "stray"}

LEMMA ToldIs ==
  ASSUME NEW fs \in SUBSET Requested, IsFiniteSet(fs), NEW how \in [fs -> Hows]
  PROVE  /\ Told(fs, how) \in Seq(Answers) /\ Len(Told(fs, how)) \in Nat
         /\ \A i \in 1 .. Len(Told(fs, how)) :
              Told(fs, how)[i].frame \in fs /\ Told(fs, how)[i].as = how[Told(fs, how)[i].frame]
         /\ \A i, j \in 1 .. Len(Told(fs, how)) : i < j => Told(fs, how)[i].frame < Told(fs, how)[j].frame
         /\ \A f \in fs : \E i \in 1 .. Len(Told(fs, how)) : Told(fs, how)[i].frame = f
<1> DEFINE N == Cardinality(fs)
           t == Told(fs, how)
           order == InOrder(fs)
<1>1. fs \in SUBSET Nat
  BY DEF Requested
<1>2. /\ N \in Nat /\ order \in [1 .. N -> fs]
      /\ \A i, j \in 1 .. N : i < j => order[i] < order[j]
      /\ \A f \in fs : \E i \in 1 .. N : order[i] = f
  BY <1>1, InOrderIs
<1>3. t = [i \in 1 .. N |-> [frame |-> order[i], as |-> how[order[i]]]]
  BY DEF Told
<1> HIDE DEF N, t, order
<1>4. \A i \in 1 .. N : order[i] \in fs /\ order[i] \in Nat /\ how[order[i]] \in Hows
  BY <1>1, <1>2
<1>5. \A i \in 1 .. N : t[i] = [frame |-> order[i], as |-> how[order[i]]] /\ t[i] \in Answers
  BY <1>3, <1>4 DEF Answers, Hows
<1>6. t \in [1 .. N -> Answers]
  BY <1>3, <1>5
<1>7. t \in Seq(Answers) /\ Len(t) = N
  BY <1>2, <1>6
<1>8. \A i \in 1 .. N : t[i].frame \in fs /\ t[i].as = how[t[i].frame] /\ t[i].frame = order[i]
  <2> TAKE i \in 1 .. N
  <2>1. t[i] = [frame |-> order[i], as |-> how[order[i]]]
    BY <1>5
  <2>2. t[i].frame = order[i] /\ t[i].as = how[order[i]]
    BY <2>1
  <2> QED
    BY <1>4, <2>2
<1>9. \A i, j \in 1 .. N : i < j => t[i].frame < t[j].frame
  BY <1>2, <1>8
<1>10. \A f \in fs : \E i \in 1 .. N : t[i].frame = f
  BY <1>2, <1>8
<1> QED
  BY <1>2, <1>7, <1>8, <1>9, <1>10 DEF t

LEMMA RequestedFinite ==
  ASSUME Inv, NEW fs \in SUBSET Requested
  PROVE  IsFiniteSet(fs)
<1>1. IsFiniteSet(1 .. Len(kind)) /\ Len(kind) \in Nat
  BY FS_Interval DEF Inv, RequestInv
<1> QED
  BY <1>1, FS_Subset DEF Requested

LEMMA AnswersBegin == Init => AnswerInv
<1> SUFFICES ASSUME Init PROVE AnswerInv
  OBVIOUS
<1>1. answers = <<>> /\ mPendingRequestsList = {} /\ Requested = {} /\ Captures = {}
  BY DEF Init, Requested, Captures
<1>2. answers \in Seq(Answers) /\ 1 .. Len(answers) = {}
  BY <1>1
<1> QED
  BY <1>1, <1>2 DEF AnswerInv, PlaceInv, OrderInv

LEMMA AnswersSame ==
  AnswerInv /\ UNCHANGED <<kind, answers, mPendingRequestsList>>
    /\ mPendingBuffersMap' \subseteq mPendingBuffersMap => AnswerInv'
BY DEF AnswerInv, PlaceInv, OrderInv, Captures, Requested

LEMMA AnswersConfigure ==
  ASSUME Inv, AnswerInv, configureStreams
  PROVE  AnswerInv'
<1>1. ASSUME NEW f \in mPendingRequestsList PROVE FALSE
  <2>1. f \in Requested /\ f \in Frames /\ kind[f] \in Kinds
    BY Hal3Assumption DEF Inv, RequestInv, Requested, Frames, Hal3Assumption
  <2>2. PICK s \in StreamsOf[kind[f]] : TRUE
    BY <2>1, KindsAndStreams
  <2>3. <<f, s>> \in Of(f) /\ <<f, s>> \in Buffers
    BY <2>1, <2>2, KindsAndStreams DEF Of, Buffers
  <2>4. back[<<f, s>>] # "no"
    BY <2>1, <2>3 DEF configureStreams
  <2> QED
    BY <2>3, <2>4 DEF Inv, BufferInv
<1>2. UNCHANGED <<kind, answers, mPendingRequestsList>> /\ mPendingBuffersMap' = {}
  BY <1>1 DEF configureStreams, service
<1> QED
  BY <1>2, AnswersSame

LEMMA AnswersRequest ==
  ASSUME Inv, AnswerInv, NEW k \in Kinds, processCaptureRequest(k)
  PROVE  AnswerInv'
<1> DEFINE f == Len(kind) + 1
<1>1. /\ f \in Nat /\ f \notin Requested /\ Requested' = Requested \cup {f}
      /\ \A g \in Requested : kind'[g] = kind[g] /\ g < f /\ g \in Nat
      /\ Requested \subseteq Nat
  BY DEF Inv, RequestInv, processCaptureRequest, Requested
<1>2. /\ mPendingRequestsList' = mPendingRequestsList \cup {f}
      /\ mPendingBuffersMap' = mPendingBuffersMap \cup ({f} \X StreamsOf[k])
      /\ answers' = answers
  BY DEF processCaptureRequest
<1> HIDE DEF f
<1>3. \A g \in Requested : g \in Captures' <=> g \in Captures
  BY <1>1 DEF Captures
<1>4. Captures \subseteq Requested /\ Captures' \subseteq Requested \cup {f} /\ mPendingRequestsList \subseteq Requested
  BY <1>1 DEF Captures, Inv, RequestInv
<1>5. \A b \in mPendingBuffersMap : b[1] \in Requested
  BY DEF Inv, BufferInv, Brought
<1>6. PlaceInv'
  <2>1. \A i \in 1 .. Len(answers) : Final(answers[i]) =>
          answers[i].frame \in Requested' \ mPendingRequestsList'
    BY <1>1, <1>2 DEF AnswerInv, PlaceInv
  <2>2. \A g \in Captures' : g \in mPendingRequestsList' \/
          \E i \in 1 .. Len(answers) : Final(answers[i]) /\ answers[i].frame = g
    BY <1>2, <1>3, <1>4 DEF AnswerInv, PlaceInv
  <2>3. \A i \in 1 .. Len(answers) : \A g \in mPendingRequestsList' :
          Final(answers[i]) /\ answers[i].frame \in Captures' => answers[i].frame < g
    BY <1>1, <1>2, <1>3 DEF AnswerInv, PlaceInv
  <2>4. \A b \in mPendingBuffersMap' : \A g \in mPendingRequestsList' :
          b[1] \in mPendingRequestsList' \/ b[1] < g
    <3> TAKE b \in mPendingBuffersMap'
    <3> TAKE g \in mPendingRequestsList'
    <3>1. b \in {f} \X StreamsOf[k] => b[1] \in mPendingRequestsList'
      BY <1>2
    <3>2. b \in mPendingBuffersMap /\ g = f => b[1] < g
      BY <1>1, <1>5
    <3> QED
      BY <1>2, <3>1, <3>2 DEF AnswerInv, PlaceInv
  <2> QED
    BY <1>2, <2>1, <2>2, <2>3, <2>4 DEF AnswerInv, PlaceInv
<1>7. OrderInv'
  <2>1. \A i \in 1 .. Len(answers) : Final(answers[i]) => answers[i].frame \in Requested
    BY DEF AnswerInv, PlaceInv
  <2> QED
    BY <1>2, <1>3, <2>1 DEF AnswerInv, OrderInv
<1> QED
  BY <1>6, <1>7 DEF AnswerInv

LEMMA ConcatIs ==
  ASSUME NEW S, NEW s \in Seq(S), NEW t \in Seq(S)
  PROVE  /\ s \o t \in Seq(S) /\ Len(s) \in Nat /\ Len(t) \in Nat
         /\ Len(s \o t) = Len(s) + Len(t)
         /\ \A i \in 1 .. Len(s) : (s \o t)[i] = s[i]
         /\ \A i \in 1 .. Len(t) : (s \o t)[Len(s) + i] = t[i]
<1>1. /\ s \o t \in Seq(S) /\ Len(s) \in Nat /\ Len(t) \in Nat
      /\ Len(s \o t) = Len(s) + Len(t)
      /\ \A i \in 1 .. Len(s) + Len(t) : (s \o t)[i] = IF i <= Len(s) THEN s[i] ELSE t[i - Len(s)]
  BY ConcatProperties, LenProperties
<1>2. \A i \in 1 .. Len(s) : (s \o t)[i] = s[i]
  BY <1>1
<1>3. ASSUME NEW i \in 1 .. Len(t)
      PROVE  (s \o t)[Len(s) + i] = t[i]
  <2>1. Len(s) + i \in 1 .. Len(s) + Len(t) /\ ~(Len(s) + i <= Len(s)) /\ (Len(s) + i) - Len(s) = i
    BY <1>1
  <2> QED
    BY <1>1, <2>1
<1> QED
  BY <1>1, <1>2, <1>3

(* The frames up to n are told in their order, and a kept result of the    *)
(* next frame, which is of a reprocessing, after the first of them.        *)
LEMMA ResultsAre ==
  ASSUME Inv, NEW n \in Nat
  PROVE  /\ Results(n) \in Seq(Answers)
         /\ \A i \in 1 .. Len(Results(n)) :
              \/ /\ Results(n)[i].frame \in Upto(n)
                 /\ Results(n)[i].as = IF Results(n)[i].frame = n THEN "result" ELSE "dummy"
              \/ /\ Results(n)[i].frame \in handlePendingReprocResults(n) \cap mPendingRequestsList
                 /\ Results(n)[i].frame \notin Upto(n) /\ Results(n)[i].as = "reprocess"
         /\ \A f \in Upto(n) : \E i \in 1 .. Len(Results(n)) : Results(n)[i].frame = f
         /\ \A i, j \in 1 .. Len(Results(n)) :
              /\ Results(n)[i].frame = Results(n)[j].frame => i = j
              /\ i < j /\ Results(n)[i].frame \in Upto(n) /\ Results(n)[j].frame \in Upto(n)
                   => Results(n)[i].frame < Results(n)[j].frame
<1> DEFINE U == Upto(n)
           A == handlePendingReprocResults(n) \cap mPendingRequestsList
           howU == [f \in U |-> IF f = n THEN "result" ELSE "dummy"]
           howA == [f \in A |-> "reprocess"]
           T == Told(U, howU)
           L == Told(A, howA)
           R == Results(n)
<1>1. /\ U \in SUBSET Requested /\ A \in SUBSET Requested /\ A \subseteq {n + 1}
      /\ U \in SUBSET Nat /\ \A f \in U : f <= n
  <2>1. mPendingRequestsList \subseteq Requested /\ Requested \subseteq Nat
    BY DEF Inv, RequestInv, Requested
  <2>2. U \subseteq mPendingRequestsList /\ \A f \in U : f <= n
    BY DEF Upto
  <2>3. A \subseteq mPendingRequestsList /\ A \subseteq {n + 1}
    BY DEF handlePendingReprocResults
  <2> QED
    BY <2>1, <2>2, <2>3
<1>2. IsFiniteSet(U) /\ IsFiniteSet(A)
  BY <1>1, RequestedFinite
<1>3. howU \in [U -> Hows] /\ howA \in [A -> Hows]
  BY DEF Hows
<1>4. R = IF U = {} THEN <<>> ELSE <<Head(T)>> \o L \o Tail(T)
  BY DEF Results
<1> HIDE DEF U, A, R
<1>5. /\ T \in Seq(Answers) /\ Len(T) \in Nat
      /\ \A i \in 1 .. Len(T) : T[i].frame \in U /\ T[i].as = howU[T[i].frame]
      /\ \A i, j \in 1 .. Len(T) : i < j => T[i].frame < T[j].frame
      /\ \A f \in U : \E i \in 1 .. Len(T) : T[i].frame = f
  BY <1>1, <1>2, <1>3, ToldIs
<1>6. /\ L \in Seq(Answers) /\ Len(L) \in Nat
      /\ \A i \in 1 .. Len(L) : L[i].frame \in A /\ L[i].as = howA[L[i].frame]
      /\ \A i, j \in 1 .. Len(L) : i < j => L[i].frame < L[j].frame
  BY <1>1, <1>2, <1>3, ToldIs
<1>7. /\ \A i \in 1 .. Len(T) : /\ T[i].as = IF T[i].frame = n THEN "result" ELSE "dummy"
                                /\ T[i].frame \in U /\ T[i].frame \in Nat
      /\ \A i \in 1 .. Len(L) : /\ L[i].as = "reprocess" /\ L[i].frame \in A
                                /\ L[i].frame \notin U
  <2>1. \A f \in A : f \notin U
    BY <1>1
  <2> QED
    BY <1>1, <1>5, <1>6, <2>1
<1>8. \A i, j \in 1 .. Len(L) : i = j
  <2> TAKE i, j \in 1 .. Len(L)
  <2>1. L[i].frame = n + 1 /\ L[j].frame = n + 1 /\ i \in Nat /\ j \in Nat
    <3>1. L[i].frame \in A /\ L[j].frame \in A
      BY <1>6
    <3>2. i \in Nat /\ j \in Nat
      BY <1>6
    <3> QED
      BY <1>1, <3>1, <3>2
  <2> QED
    BY <1>6, <2>1
<1> HIDE DEF T, L
<1>9. CASE U = {}
  <2>1. R = <<>> /\ 1 .. Len(R) = {} /\ R \in Seq(Answers)
    BY <1>4, <1>9
  <2> QED
    BY <1>9, <2>1 DEF R, U
<1>10. CASE U # {}
  <2>1. Len(T) >= 1
    BY <1>5, <1>10
  <2>2. /\ Head(T) = T[1] /\ T[1] \in Answers /\ Tail(T) \in Seq(Answers) /\ Len(Tail(T)) = Len(T) - 1
        /\ \A i \in 1 .. Len(T) - 1 : Tail(T)[i] = T[i + 1]
    BY <1>5, <2>1, HeadTailProperties, ElementOfSeq
  <2> DEFINE F == <<Head(T)>>
             FL == F \o L
             l == Len(L)
             t == Len(T)
  <2>3. F \in Seq(Answers) /\ Len(F) = 1 /\ F[1] = T[1]
    BY <2>2
  <2> HIDE DEF F
  <2>4. /\ FL \in Seq(Answers) /\ Len(FL) = 1 + l
        /\ FL[1] = T[1] /\ \A i \in 1 .. l : FL[1 + i] = L[i]
    <3>1. /\ FL \in Seq(Answers) /\ Len(FL) = Len(F) + l
          /\ \A i \in 1 .. Len(F) : FL[i] = F[i]
          /\ \A i \in 1 .. l : FL[Len(F) + i] = L[i]
      BY <1>6, <2>3, ConcatIs
    <3>2. l \in Nat
      BY <1>6
    <3> HIDE DEF FL, l
    <3> QED
      BY <2>3, <3>1, <3>2
  <2> HIDE DEF FL
  <2>5. /\ R = FL \o Tail(T) /\ R \in Seq(Answers) /\ Len(R) = l + t
        /\ \A i \in 1 .. 1 + l : R[i] = FL[i]
        /\ \A i \in 1 .. t - 1 : R[1 + l + i] = Tail(T)[i]
    <3>1. R = FL \o Tail(T)
      BY <1>4, <1>10 DEF FL, F
    <3>2. /\ FL \o Tail(T) \in Seq(Answers) /\ Len(FL \o Tail(T)) = Len(FL) + Len(Tail(T))
          /\ \A i \in 1 .. Len(FL) : (FL \o Tail(T))[i] = FL[i]
          /\ \A i \in 1 .. Len(Tail(T)) : (FL \o Tail(T))[Len(FL) + i] = Tail(T)[i]
      <4> DEFINE TT == Tail(T)
      <4>1. TT \in Seq(Answers) /\ FL \in Seq(Answers)
        BY <2>2, <2>4
      <4> HIDE DEF TT
      <4>2. /\ FL \o TT \in Seq(Answers) /\ Len(FL \o TT) = Len(FL) + Len(TT)
            /\ \A i \in 1 .. Len(FL) : (FL \o TT)[i] = FL[i]
            /\ \A i \in 1 .. Len(TT) : (FL \o TT)[Len(FL) + i] = TT[i]
        BY <4>1, ConcatIs
      <4> QED
        BY <4>2 DEF TT
    <3>3. Len(FL) = 1 + l /\ Len(Tail(T)) = t - 1 /\ l \in Nat /\ t \in Nat
      BY <1>5, <1>6, <2>2, <2>4
    <3> HIDE DEF l, t
    <3>4. R \in Seq(Answers) /\ Len(R) = l + t
      <4>1. Len(R) = Len(FL) + Len(Tail(T)) /\ R \in Seq(Answers)
        BY <3>1, <3>2
      <4>2. (1 + l) + (t - 1) = l + t
        BY <3>3
      <4>3. Len(R) = (1 + l) + (t - 1)
        BY <3>3, <4>1
      <4> QED
        BY <4>1, <4>2, <4>3
    <3>5. \A i \in 1 .. 1 + l : R[i] = FL[i]
      BY <3>1, <3>2, <3>3
    <3>6. \A i \in 1 .. t - 1 : R[1 + l + i] = Tail(T)[i]
      BY <3>1, <3>2, <3>3
    <3> QED
      BY <3>1, <3>4, <3>5, <3>6
  <2>6. l \in Nat /\ t \in Nat /\ t >= 1
    BY <1>5, <1>6, <2>1
  <2> HIDE DEF l, t
  <2>7. R[1] = T[1]
    BY <2>4, <2>5, <2>6
  <2>8. \A i \in 1 .. l : R[1 + i] = L[i]
    BY <2>4, <2>5, <2>6
  <2>9. \A i \in 2 .. t : R[l + i] = T[i]
    <3> TAKE i \in 2 .. t
    <3>1. i - 1 \in 1 .. t - 1 /\ 1 + l + (i - 1) = l + i /\ (i - 1) + 1 = i
      BY <2>6
    <3> QED
      BY ZenonT(60), <2>2, <2>5, <3>1 DEF t
  <2>10. \A k \in 1 .. l + t : \/ k = 1
                               \/ \E i \in 1 .. l : k = 1 + i
                               \/ \E i \in 2 .. t : k = l + i
    <3> TAKE k \in 1 .. l + t
    <3>1. k # 1 /\ k <= l + 1 => k - 1 \in 1 .. l /\ k = 1 + (k - 1)
      BY <2>6
    <3>2. k > l + 1 => k - l \in 2 .. t /\ k = l + (k - l)
      BY <2>6
    <3> QED
      BY <2>6, <3>1, <3>2
  <2>11. /\ \A i \in 1 .. t : /\ T[i].as = IF T[i].frame = n THEN "result" ELSE "dummy"
                              /\ T[i].frame \in U /\ T[i].frame \in Nat
         /\ \A i, j \in 1 .. t : i < j => T[i].frame < T[j].frame
         /\ \A i \in 1 .. l : /\ L[i].as = "reprocess" /\ L[i].frame \in A
                              /\ L[i].frame \notin U
         /\ \A i, j \in 1 .. l : i = j
         /\ \A f \in U : \E i \in 1 .. t : T[i].frame = f
    BY <1>5, <1>7, <1>8 DEF l, t
  <2>12. /\ 1 \in 1 .. t /\ \A i \in 2 .. t : i \in 1 .. t /\ l + i \in 1 .. l + t
         /\ 1 \in 1 .. l + t
    BY <2>6
  <2> HIDE DEF R, T, L
  <2>13. \A k \in 1 .. l + t :
           \/ R[k].frame \in U /\ R[k].as = IF R[k].frame = n THEN "result" ELSE "dummy"
           \/ R[k].frame \in A /\ R[k].frame \notin U /\ R[k].as = "reprocess"
    <3> TAKE k \in 1 .. l + t
    <3>1. CASE k = 1
      BY <2>7, <2>11, <2>12, <3>1
    <3>2. ASSUME NEW i \in 1 .. l, k = 1 + i
          PROVE  R[k].frame \in A /\ R[k].frame \notin U /\ R[k].as = "reprocess"
      BY <2>8, <2>11, <3>2
    <3>3. ASSUME NEW i \in 2 .. t, k = l + i
          PROVE  R[k].frame \in U /\ R[k].as = IF R[k].frame = n THEN "result" ELSE "dummy"
      BY <2>9, <2>11, <2>12, <3>3
    <3> QED
      BY <2>10, <3>1, <3>2, <3>3
  <2>14. \A f \in U : \E k \in 1 .. l + t : R[k].frame = f
    <3> TAKE f \in U
    <3>1. PICK i \in 1 .. t : T[i].frame = f
      BY <2>11
    <3>2. i = 1 \/ i \in 2 .. t
      BY <2>6
    <3> QED
      BY <2>7, <2>9, <2>12, <3>1, <3>2
  <2>15. ASSUME NEW j \in 1 .. l + t, NEW k \in 1 .. l + t, j < k
         PROVE  /\ R[j].frame # R[k].frame
                /\ R[j].frame \in U /\ R[k].frame \in U => R[j].frame < R[k].frame
    <3>1. ASSUME NEW p \in 1 .. t, NEW q \in 1 .. t, R[j] = T[p], R[k] = T[q], p < q
          PROVE  R[j].frame < R[k].frame /\ R[j].frame # R[k].frame
      BY <2>11, <3>1
    <3>2. ASSUME NEW p \in 1 .. l, j = 1 + p
          PROVE  R[j].frame \notin U
      BY <2>8, <2>11, <3>2
    <3>3. ASSUME NEW q \in 1 .. l, k = 1 + q
          PROVE  R[k].frame \notin U
      BY <2>8, <2>11, <3>3
    <3>4. \A p \in 1 .. t : T[p].frame \in U
      BY <2>11
    <3>5. j = 1 => k # 1
      BY <1>10, <2>15
    <3>6. CASE j = 1
      <4>1. ASSUME NEW q \in 1 .. l, k = 1 + q
            PROVE  R[k].frame \notin U /\ R[j].frame \in U
        BY <2>7, <2>12, <3>3, <3>4, <3>6, <4>1
      <4>2. ASSUME NEW q \in 2 .. t, k = l + q
            PROVE  R[j].frame < R[k].frame /\ R[j].frame # R[k].frame
        <5>1. R[j] = T[1] /\ R[k] = T[q] /\ 1 < q /\ q \in 1 .. t
          BY <2>7, <2>9, <2>12, <3>6, <4>2
        <5> QED
          BY <2>12, <3>1, <5>1
      <4> QED
        BY <2>10, <3>5, <3>6, <4>1, <4>2
    <3>7. ASSUME NEW p \in 1 .. l, j = 1 + p
          PROVE  R[j].frame # R[k].frame /\ R[j].frame \notin U
      <4>1. R[j].frame \notin U
        BY <3>2, <3>7
      <4>2. ASSUME NEW q \in 1 .. l, k = 1 + q
            PROVE  FALSE
        <5>1. p = q
          BY <2>11
        <5> QED
          BY <2>15, <3>7, <4>2, <5>1
      <4>3. ASSUME NEW q \in 2 .. t, k = l + q
            PROVE  R[k].frame \in U
        BY <2>9, <2>12, <3>4, <4>3
      <4>4. k # 1
        BY <2>6, <2>15, <3>7
      <4> QED
        BY <2>10, <4>1, <4>2, <4>3, <4>4
    <3>8. ASSUME NEW p \in 2 .. t, j = l + p
          PROVE  R[j].frame < R[k].frame /\ R[j].frame # R[k].frame
      <4>1. ASSUME NEW q \in 1 .. l, k = 1 + q
            PROVE  FALSE
        BY <2>6, <2>15, <3>8, <4>1
      <4>2. k # 1
        BY <2>6, <2>15, <3>8
      <4>3. PICK q \in 2 .. t : k = l + q
        BY <2>10, <4>1, <4>2
      <4>4. R[j] = T[p] /\ R[k] = T[q] /\ p < q /\ p \in 1 .. t /\ q \in 1 .. t
        BY <2>6, <2>9, <2>12, <2>15, <3>8, <4>3
      <4> QED
        BY <3>1, <4>4
    <3> QED
      BY <2>10, <3>6, <3>7, <3>8
  <2>16. \A j, k \in 1 .. l + t :
           /\ R[j].frame = R[k].frame => j = k
           /\ j < k /\ R[j].frame \in U /\ R[k].frame \in U => R[j].frame < R[k].frame
    <3> TAKE j, k \in 1 .. l + t
    <3>1. j < k \/ k < j \/ j = k
      BY <2>6
    <3> QED
      BY <2>15, <3>1
  <2> QED
    BY <2>5, <2>13, <2>14, <2>16 DEF R, U, A
<1> QED
  BY <1>9, <1>10

LEMMA KeptReprocess ==
  ASSUME Inv, NEW b \in mPendingBuffersMap
  PROVE  b[1] \notin mPendingReprocessResultList /\ b[1] \in Requested
<1>1. b \in Brought /\ b[1] \in Requested /\ b = <<b[1], b[2]>>
  BY DEF Inv, BufferInv, Brought, Buffers
<1>2. ASSUME b[1] \in mPendingReprocessResultList
      PROVE  FALSE
  <2>1. kind[b[1]] = "reprocess"
    BY <1>2 DEF Inv, RequestInv
  <2>2. b[2] = "blob"
    BY <1>1, <2>1, KindsAndStreams DEF Brought
  <2> QED
    BY <1>1, <1>2, <2>2 DEF Inv, BufferInv
<1> QED
  BY <1>1, <1>2

LEMMA AnswersMetadata ==
  ASSUME Inv, AnswerInv, NEW n \in Frames, NEW drop, handleMetadataWithLock(n, drop)
  PROVE  AnswerInv'
<1> DEFINE P == mPendingRequestsList
           late == handlePendingReprocResults(n)
           new == Results(n)
<1>1. /\ answers' = answers \o new /\ UNCHANGED kind
      /\ P' = P \ (Upto(n) \cup late)
      /\ mPendingBuffersMap' \subseteq mPendingBuffersMap
  BY DEF handleMetadataWithLock
<1>2. P \subseteq Requested /\ Requested \subseteq Nat /\ n \in Nat
  BY DEF Inv, RequestInv, Requested, Frames
<1>3. /\ new \in Seq(Answers)
      /\ \A i \in 1 .. Len(new) :
           \/ /\ new[i].frame \in Upto(n)
              /\ new[i].as = IF new[i].frame = n THEN "result" ELSE "dummy"
           \/ new[i].frame \in late \cap P /\ new[i].frame \notin Upto(n) /\ new[i].as = "reprocess"
      /\ \A f \in Upto(n) : \E i \in 1 .. Len(new) : new[i].frame = f
      /\ \A i, j \in 1 .. Len(new) :
           /\ new[i].frame = new[j].frame => i = j
           /\ i < j /\ new[i].frame \in Upto(n) /\ new[j].frame \in Upto(n)
                => new[i].frame < new[j].frame
  BY <1>2, ResultsAre
<1>4. late \subseteq mPendingReprocessResultList /\ \A f \in late : f \notin Captures
  BY DEF Inv, RequestInv, handlePendingReprocResults, Captures
<1>5. Upto(n) \subseteq P /\ (\A f \in Upto(n) : f <= n) /\ (\A f \in P' : n < f /\ f \in Nat)
  BY <1>1, <1>2 DEF Upto
<1> HIDE DEF late, new
<1>6. \A i \in 1 .. Len(new) : Final(new[i]) /\ new[i].frame \in P \ P'
  BY <1>1, <1>3, <1>5 DEF Final
<1>7. \A f \in P \ P' : f \in Captures => \E i \in 1 .. Len(new) : Final(new[i]) /\ new[i].frame = f
  BY <1>1, <1>3, <1>4, <1>6
<1>8. \A i \in 1 .. Len(new) : new[i].frame \in Captures => new[i].frame \in Upto(n)
  BY <1>3, <1>4
<1>9. \A i, j \in 1 .. Len(new) :
        /\ new[i].frame = new[j].frame => i = j
        /\ i < j /\ new[i].frame \in Captures /\ new[j].frame \in Captures
             => new[i].frame < new[j].frame
  BY <1>3, <1>8
<1>10. \A i \in 1 .. Len(new) : \A f \in P' : new[i].frame \in Captures => new[i].frame < f
  <2> TAKE i \in 1 .. Len(new)
  <2> TAKE f \in P'
  <2>1. ASSUME NEW g \in Upto(n)
        PROVE  g < f
    <3>1. g \in Nat /\ f \in Nat /\ g <= n /\ n < f
      BY <1>2, <1>5
    <3> QED
      BY <1>2, <3>1
  <2> QED
    BY <1>8, <2>1
<1>11. ASSUME NEW b \in mPendingBuffersMap', NEW f \in P'
       PROVE  b[1] \in P' \/ b[1] < f
  <2>1. b[1] \notin late /\ b[1] \in Nat
    BY <1>1, <1>2, <1>4, KeptReprocess
  <2>2. b[1] \in P \/ b[1] < f
    BY <1>1 DEF AnswerInv, PlaceInv
  <2>3. b[1] \in Upto(n) => b[1] < f
    BY <1>2, <1>5, <2>1
  <2> QED
    BY <1>1, <2>1, <2>2, <2>3
<1>12. P' \subseteq P
  BY <1>1
<1> QED
  BY <1>1, <1>2, <1>3, <1>6, <1>7, <1>9, <1>10, <1>11, <1>12, AnswersAppended

LEMMA AnswersReprocess ==
  ASSUME Inv, AnswerInv, NEW b \in Buffers, BufferOfReprocess(b)
  PROVE  AnswerInv'
<1> DEFINE f == b[1]
           P == mPendingRequestsList
           new == <<[frame |-> f, as |-> "reprocess"]>>
<1>1. f \in P /\ f \in Nat /\ P \subseteq Requested /\ kind[f] = "reprocess" /\ f \notin Captures
  <2>1. f \in P /\ P \subseteq Requested /\ kind[f] = "reprocess"
    BY DEF BufferOfReprocess, Inv, RequestInv
  <2>2. Requested \subseteq Nat
    BY DEF Requested
  <2> QED
    BY <2>1, <2>2 DEF Captures
<1>2. UNCHANGED kind /\ mPendingBuffersMap' \subseteq mPendingBuffersMap /\ Requested \subseteq Nat
  BY DEF BufferOfReprocess, Without, Requested
<1>3. CASE UNCHANGED <<answers, mPendingRequestsList>>
  BY <1>2, <1>3, AnswersSame
<1>4. CASE /\ \A g \in P : g >= f
           /\ answers' = Append(answers, [frame |-> f, as |-> "reprocess"]) /\ P' = P \ {f}
  <2>1. [frame |-> f, as |-> "reprocess"] \in Answers
    BY <1>1 DEF Answers
  <2>2. /\ new \in Seq(Answers) /\ Len(new) = 1 /\ new[1].frame = f /\ new[1].as = "reprocess"
    BY <2>1
  <2>3. answers' = answers \o new
    BY <1>4, <2>1, AppendIsConcat DEF AnswerInv, PlaceInv
  <2> HIDE DEF new
  <2>4. \A i \in 1 .. Len(new) : i = 1
    BY <2>2
  <2>5. ASSUME NEW c \in mPendingBuffersMap', NEW g \in P'
        PROVE  c[1] \in P' \/ c[1] < g
    <3>1. c[1] \in P \/ c[1] < g
      BY <1>2, <1>4 DEF AnswerInv, PlaceInv
    <3>2. g \in Nat /\ g > f
      BY <1>1, <1>2, <1>4
    <3> QED
      BY <1>1, <1>4, <3>1, <3>2
  <2>6. \A i \in 1 .. Len(new) : Final(new[i]) => new[i].frame \in P \ P' /\ new[i].frame \notin Captures
    BY <1>1, <1>4, <2>2, <2>4
  <2>7. \A g \in P \ P' : g \notin Captures
    BY <1>1, <1>4
  <2>8. P' \subseteq P
    BY <1>4
  <2> QED
    BY <1>1, <1>2, <2>2, <2>3, <2>4, <2>5, <2>6, <2>7, <2>8, AnswersAppended
<1> QED
  BY <1>3, <1>4 DEF BufferOfReprocess

LEMMA OldestIs ==
  ASSUME Inv, mPendingRequestsList # {}, NEW end
  PROVE  Oldest(end) \in mPendingRequestsList /\ \A f \in mPendingRequestsList : Oldest(end) <= f
<1>1. mPendingRequestsList \in SUBSET Nat
  BY DEF Inv, RequestInv, Requested
<1>2. \E f \in mPendingRequestsList : \A g \in mPendingRequestsList : f <= g
  BY <1>1, LeastElement
<1> QED
  BY <1>2 DEF Oldest, Min

(* A flush answers all captures that are pending, and only pending frames  *)
(* unless there is none.                                                   *)
Rest(end) == {b[1] : b \in mPendingBuffersMap \ Answered(end)}

LEMMA RestIs ==
  ASSUME Inv, AnswerInv, NEW end
  PROVE  /\ Rest(end) \subseteq Requested
         /\ mPendingRequestsList # {} => Rest(end) \subseteq mPendingRequestsList
         /\ \A f \in mPendingRequestsList : f \in Captures => f \in Rest(end)
<1>1. \A b \in mPendingBuffersMap : b[1] \in Requested
  BY KeptReprocess
<1>2. Requested \subseteq Nat /\ mPendingRequestsList \subseteq Requested
  BY DEF Requested, Inv, RequestInv
<1>3. ASSUME mPendingRequestsList # {}, NEW b \in mPendingBuffersMap \ Answered(end)
      PROVE  b[1] \in mPendingRequestsList
  <2>1. Oldest(end) \in mPendingRequestsList
    BY <1>3, OldestIs
  <2>2. ~(b[1] < Oldest(end))
    BY <1>3 DEF Answered
  <2> QED
    BY <1>3, <2>1, <2>2 DEF AnswerInv, PlaceInv
<1>4. ASSUME NEW f \in mPendingRequestsList, f \in Captures
      PROVE  f \in Rest(end)
  <2>1. f \in Requested /\ f \in Frames /\ kind[f] \in Kinds /\ kind[f] # "reprocess"
    BY <1>4, Hal3Assumption DEF Inv, RequestInv, Requested, Frames, Hal3Assumption, Captures
  <2>2. PICK s \in StreamsOf[kind[f]] : TRUE
    BY <2>1, KindsAndStreams
  <2>3. <<f, s>> \in Buffers /\ <<f, s>> \in Brought
    BY <2>1, <2>2, KindsAndStreams DEF Brought, Buffers
  <2>4. back[<<f, s>>] = "no" /\ <<f, s>> \in mPendingBuffersMap
    BY <2>1, <2>3 DEF Inv, BufferInv
  <2>5. Oldest(end) <= f /\ Oldest(end) \in Nat /\ f \in Nat
    BY <1>2, OldestIs
  <2>6. <<f, s>> \notin Answered(end)
    BY <2>5 DEF Answered
  <2> QED
    BY <2>4, <2>6 DEF Rest
<1> QED
  BY <1>1, <1>3, <1>4 DEF Rest

LEMMA AnswersFlush ==
  ASSUME Inv, AnswerInv, NEW end, flushEnd(end)
  PROVE  AnswerInv'
<1> DEFINE P == mPendingRequestsList
           rest == Rest(end)
           how == [f \in rest |-> IF P = {} THEN "stray" ELSE "error"]
           new == Told(rest, how)
<1>1. /\ answers' = answers \o new /\ UNCHANGED kind /\ P' = {} /\ mPendingBuffersMap' = {}
  BY DEF flushEnd, Rest
<1>2. /\ rest \subseteq Requested /\ P \subseteq Requested
      /\ P # {} => rest \subseteq P
      /\ \A f \in P : f \in Captures => f \in rest
  BY RestIs DEF Inv, RequestInv
<1>3. how \in [rest -> Hows] /\ IsFiniteSet(rest)
  BY <1>2, RequestedFinite DEF Hows
<1>4. /\ new \in Seq(Answers) /\ Len(new) \in Nat
      /\ \A i \in 1 .. Len(new) : new[i].frame \in rest /\ new[i].as = how[new[i].frame]
      /\ \A i, j \in 1 .. Len(new) : i < j => new[i].frame < new[j].frame
      /\ \A f \in rest : \E i \in 1 .. Len(new) : new[i].frame = f
  BY ZenonT(60), <1>2, <1>3, ToldIs
<1>5. \A i \in 1 .. Len(new) : Final(new[i]) => P # {}
  BY <1>4 DEF Final
<1>6. P # {} => \A i \in 1 .. Len(new) : Final(new[i])
  BY <1>4 DEF Final
<1> HIDE DEF rest, how, new
<1>7. \A i \in 1 .. Len(new) : Final(new[i]) => new[i].frame \in P \ P'
  BY <1>1, <1>2, <1>4, <1>5
<1>8. \A f \in P \ P' : f \in Captures => \E i \in 1 .. Len(new) : Final(new[i]) /\ new[i].frame = f
  BY <1>2, <1>4, <1>6
<1>9. \A i, j \in 1 .. Len(new) : new[i].frame = new[j].frame => i = j
  <2> TAKE i, j \in 1 .. Len(new)
  <2>1. i < j \/ j < i \/ i = j
    BY <1>4
  <2>2. new[i].frame \in Nat /\ new[j].frame \in Nat
    <3>1. new[i].frame \in rest /\ new[j].frame \in rest
      BY <1>4
    <3>2. rest \subseteq Nat
      BY <1>2 DEF Requested
    <3> QED
      BY <3>1, <3>2
  <2> QED
    BY <1>4, <2>1, <2>2
<1> QED
  BY <1>1, <1>2, <1>4, <1>7, <1>8, <1>9, AnswersAppended

LEMMA AnswersStep == Inv /\ AnswerInv /\ [Next]_vars => AnswerInv'
<1> SUFFICES ASSUME Inv, AnswerInv, [Next]_vars PROVE AnswerInv'
  OBVIOUS
<1>1. CASE configureStreams
  BY <1>1, AnswersConfigure
<1>2. ASSUME NEW k \in Kinds, processCaptureRequest(k) PROVE AnswerInv'
  BY <1>2, AnswersRequest
<1>3. ASSUME NEW n \in Frames, NEW drop \in {{}, {"prev"}}, handleMetadataWithLock(n, drop)
      PROVE  AnswerInv'
  BY <1>3, AnswersMetadata
<1>4. ASSUME NEW b \in Buffers, BufferAfterResult(b) \/ BufferBeforeResult(b) PROVE AnswerInv'
  <2>1. UNCHANGED <<kind, answers, mPendingRequestsList>> /\ mPendingBuffersMap' \subseteq mPendingBuffersMap
    BY <1>4 DEF BufferAfterResult, BufferBeforeResult, Without, service
  <2> QED
    BY <2>1, AnswersSame
<1>5. ASSUME NEW b \in Buffers, BufferOfReprocess(b) PROVE AnswerInv'
  BY <1>5, AnswersReprocess
<1>6. ASSUME NEW end \in EndNumbers, flushEnd(end) PROVE AnswerInv'
  BY <1>6, AnswersFlush
<1>7. CASE Wake \/ TimeOut \/ PullRequest \/ OtherMetadata \/ flushBegin \/ StopChannels
           \/ UNCHANGED vars
  <2>1. UNCHANGED <<kind, answers, mPendingRequestsList, mPendingBuffersMap>>
    BY <1>7 DEF Wake, TimeOut, PullRequest, OtherMetadata, flushBegin, StopChannels,
                vars, hwi, service
  <2> QED
    BY <2>1, AnswersSame
<1> QED
  BY <1>1, <1>2, <1>3, <1>4, <1>5, <1>6, <1>7 DEF Next

(* AnswersInOrder for every step of the code: whatever metadata is skipped *)
(* and whenever a flush comes, a request has its last result once and the  *)
(* captures have theirs in the order of their frames.                      *)
THEOREM AnswersComeInOrder == Spec => []AnswersInOrder
<1>1. Init => Inv /\ AnswerInv
  BY Begins, AnswersBegin
<1>2. Inv /\ AnswerInv /\ [Next]_vars => Inv' /\ AnswerInv'
  BY StepKeeps, AnswersStep
<1>3. AnswerInv => AnswersInOrder
  BY InOrderThen
<1> QED
  BY <1>1, <1>2, <1>3, PTL DEF Spec

-----------------------------------------------------------------------------
(* What was reported as dropped, for DropsAgree.  Only frames no longer     *)
(* pending are, and until such a buffer comes back it is in the drop list.  *)
Lost == {"result", "dummy"}
Skipped == {"dummy"}

ReportInv ==
  /\ mPendingFrameDropList \subseteq told
  /\ \A b \in told : b \in Brought /\ b[1] \notin mPendingRequestsList
  /\ \A b \in told : b[1] \in Captures /\ back[b] = "no" => b \in mPendingFrameDropList
BadInv ==
  \A b \in Buffers : b[1] \in Captures /\ back[b] = "bad" /\ HasAnswer(b[1], Lost) =>
    b \in told \/ Stray(b[1])
GoodInv ==
  \A b \in told : b[1] \in Captures /\ back[b] = "ok" => HasAnswer(b[1], Skipped)
DropInv == ReportInv /\ BadInv /\ GoodInv

LEMMA DropsThen ==
  ASSUME DropInv
  PROVE  DropsAgree
<1>1. \A b \in Buffers : b[1] \in Captures /\ back[b] = "bad" /\ HasAnswer(b[1], {"result", "dummy"}) =>
        b \in told \/ Stray(b[1])
  BY DEF DropInv, BadInv, Lost
<1>2. \A b \in Buffers : b[1] \in Captures /\ b \in told /\ back[b] = "ok" => HasAnswer(b[1], {"dummy"})
  BY DEF DropInv, GoodInv, Skipped
<1> QED
  BY <1>1, <1>2 DEF DropsAgree

LEMMA Appended ==
  ASSUME AnswerInv, NEW new \in Seq(Answers), answers' = answers \o new
  PROVE  /\ \A f, as : HasAnswer(f, as)' <=>
              \/ HasAnswer(f, as)
              \/ \E i \in 1 .. Len(new) : Final(new[i]) /\ new[i].frame = f /\ new[i].as \in as
         /\ \A f : Stray(f)' <=> Stray(f) \/ \E i \in 1 .. Len(new) : new[i] = [frame |-> f, as |-> "stray"]
<1> DEFINE m == Len(answers)
           n == Len(new)
           all == answers \o new
<1>1. /\ m \in Nat /\ n \in Nat /\ DOMAIN answers = 1 .. m /\ DOMAIN all = 1 .. m + n
      /\ \A i \in 1 .. m : all[i] = answers[i]
      /\ \A i \in 1 .. n : all[m + i] = new[i]
  <2>1. answers \in Seq(Answers)
    BY DEF AnswerInv, PlaceInv
  <2>2. all \in Seq(Answers) /\ Len(all) = m + n
    BY <2>1, ConcatIs
  <2>3. m \in Nat /\ n \in Nat /\ DOMAIN answers = 1 .. m /\ DOMAIN all = 1 .. m + n
    BY <2>1, <2>2, LenProperties
  <2> QED
    BY <2>1, <2>3, ConcatIs
<1> HIDE DEF m, n, all
<1>2. \A k \in 1 .. m + n : k \in 1 .. m \/ \E i \in 1 .. n : k = m + i
  <2> TAKE k \in 1 .. m + n
  <2>1. k \notin 1 .. m => k - m \in 1 .. n /\ k = m + (k - m)
    BY <1>1
  <2> QED
    BY <2>1
<1>3. /\ \A i \in 1 .. n : m + i \in 1 .. m + n
      /\ \A i \in 1 .. m : i \in 1 .. m + n
  BY <1>1
<1>4. ASSUME NEW f, NEW as
      PROVE  HasAnswer(f, as)' <=>
              \/ HasAnswer(f, as)
              \/ \E i \in 1 .. n : Final(new[i]) /\ new[i].frame = f /\ new[i].as \in as
  <2>1. HasAnswer(f, as) <=> \E i \in 1 .. m : Final(answers[i]) /\ answers[i].frame = f /\ answers[i].as \in as
    BY <1>1 DEF HasAnswer, AnswersOf, Final
  <2>2. HasAnswer(f, as)' <=> \E i \in 1 .. m + n : Final(all[i]) /\ all[i].frame = f /\ all[i].as \in as
    <3>1. answers' = all /\ DOMAIN all = 1 .. m + n
      BY <1>1 DEF all
    <3> QED
      BY <3>1 DEF HasAnswer, AnswersOf, Final
  <2> QED
    BY ZenonT(60), <1>1, <1>2, <1>3, <2>1, <2>2
<1>5. ASSUME NEW f
      PROVE  Stray(f)' <=> Stray(f) \/ \E i \in 1 .. n : new[i] = [frame |-> f, as |-> "stray"]
  <2>1. Stray(f) <=> \E i \in 1 .. m : answers[i] = [frame |-> f, as |-> "stray"]
    BY <1>1 DEF Stray
  <2>2. Stray(f)' <=> \E i \in 1 .. m + n : all[i] = [frame |-> f, as |-> "stray"]
    <3>1. answers' = all /\ DOMAIN all = 1 .. m + n
      BY <1>1 DEF all
    <3> QED
      BY <3>1 DEF Stray
  <2> QED
    BY ZenonT(60), <1>1, <1>2, <1>3, <2>1, <2>2
<1> QED
  BY <1>4, <1>5 DEF n

LEMMA HasOldAnswer ==
  ASSUME AnswerInv, NEW f, NEW as, HasAnswer(f, as)
  PROVE  f \notin mPendingRequestsList
<1>1. PICK i \in AnswersOf(f) : answers[i].as \in as
  BY DEF HasAnswer
<1> QED
  BY <1>1, AnswersAre DEF AnswerInv, PlaceInv

LEMMA DropsBegin == Init => DropInv
BY DEF Init, DropInv, ReportInv, BadInv, GoodInv

LEMMA DropsSame ==
  ASSUME DropInv, UNCHANGED <<kind, answers, back, told, mPendingFrameDropList>>,
         mPendingRequestsList' \subseteq mPendingRequestsList
  PROVE  DropInv'
<1>1. /\ Captures' = Captures /\ Brought' = Brought
      /\ \A f, as : HasAnswer(f, as)' <=> HasAnswer(f, as)
      /\ \A f : Stray(f)' <=> Stray(f)
  BY DEF Captures, Requested, Brought, HasAnswer, AnswersOf, Stray
<1>2. ReportInv'
  BY <1>1 DEF DropInv, ReportInv
<1>3. BadInv'
  BY <1>1 DEF DropInv, BadInv
<1>4. GoodInv'
  BY <1>1 DEF DropInv, GoodInv
<1> QED
  BY <1>2, <1>3, <1>4 DEF DropInv

LEMMA DropsConfigure ==
  ASSUME Inv, DropInv, configureStreams
  PROVE  DropInv'
<1>1. /\ Captures' = Captures /\ Brought' = Brought
      /\ \A f, as : HasAnswer(f, as)' <=> HasAnswer(f, as)
      /\ \A f : Stray(f)' <=> Stray(f)
      /\ UNCHANGED <<back, told>> /\ mPendingFrameDropList' = {} /\ mPendingRequestsList' = {}
  BY DEF configureStreams, service, Captures, Requested, Brought, HasAnswer, AnswersOf, Stray
<1>2. ASSUME NEW b \in Brought PROVE back[b] # "no"
  <2>1. b \in Of(b[1]) /\ b[1] \in Requested /\ b \in Buffers
    BY OfIsBrought, <1>2 DEF Inv, Brought
  <2> QED
    BY <2>1 DEF configureStreams
<1>3. ReportInv'
  BY <1>1, <1>2 DEF DropInv, ReportInv
<1>4. BadInv'
  BY <1>1 DEF DropInv, BadInv
<1>5. GoodInv'
  BY <1>1 DEF DropInv, GoodInv
<1> QED
  BY <1>3, <1>4, <1>5 DEF DropInv

LEMMA DropsRequest ==
  ASSUME Inv, DropInv, NEW k \in Kinds, processCaptureRequest(k)
  PROVE  DropInv'
<1> DEFINE f == Len(kind) + 1
<1>1. /\ f \notin Requested /\ Requested' = Requested \cup {f}
      /\ \A g \in Requested : kind'[g] = kind[g]
  BY DEF Inv, RequestInv, processCaptureRequest, Requested
<1>2. /\ mPendingRequestsList' = mPendingRequestsList \cup {f}
      /\ UNCHANGED <<back, told, mPendingFrameDropList, answers>>
  BY DEF processCaptureRequest
<1> HIDE DEF f
<1>3. \A b \in Brought : /\ b \in Buffers /\ b \in Brought' /\ b[1] # f
                         /\ b[1] \in Captures' <=> b[1] \in Captures
  BY <1>1 DEF Brought, Captures
<1>4. /\ \A g, as : HasAnswer(g, as)' <=> HasAnswer(g, as)
      /\ \A g : Stray(g)' <=> Stray(g)
  BY <1>2 DEF HasAnswer, AnswersOf, Stray
<1>5. \A b \in Buffers : back[b] # "no" => b \in Brought
  BY DEF Inv, BufferInv
<1>6. ReportInv'
  BY <1>2, <1>3 DEF DropInv, ReportInv
<1>7. BadInv'
  BY <1>2, <1>3, <1>4, <1>5 DEF DropInv, BadInv
<1>8. GoodInv'
  BY <1>2, <1>3, <1>4 DEF DropInv, GoodInv, ReportInv
<1> QED
  BY <1>6, <1>7, <1>8 DEF DropInv

(* A late buffer is marked bad if and only if it is in the drop list.      *)
LEMMA DropsLate ==
  ASSUME Inv, DropInv, Inv', NEW b \in Buffers, BufferAfterResult(b)
  PROVE  DropInv'
<1>1. /\ Captures' = Captures /\ Brought' = Brought
      /\ \A f, as : HasAnswer(f, as)' <=> HasAnswer(f, as)
      /\ \A f : Stray(f)' <=> Stray(f)
      /\ UNCHANGED <<told, mPendingRequestsList>>
      /\ mPendingFrameDropList' = mPendingFrameDropList \ {b}
  BY DEF BufferAfterResult, Captures, Requested, Brought, HasAnswer, AnswersOf, Stray
<1>2. \A c \in Buffers : c # b => back'[c] = back[c]
  BY DEF BufferAfterResult, GiveBack
<1>3. back[b] = "no"
  BY DEF BufferAfterResult, Arrives, Inv, BufferInv
<1>4. back'[b] = IF b \in mPendingFrameDropList THEN "bad" ELSE "ok"
  BY <1>3 DEF BufferAfterResult, GiveBack
<1>5. \A c \in Brought : c \in Buffers
  BY DEF Brought
<1>6. ReportInv'
  <2>1. mPendingFrameDropList' \subseteq told'
    BY <1>1 DEF DropInv, ReportInv
  <2>2. \A c \in told' : c \in Brought' /\ c[1] \notin mPendingRequestsList'
    BY <1>1 DEF DropInv, ReportInv
  <2>3. \A c \in told' : c[1] \in Captures' /\ back'[c] = "no" => c \in mPendingFrameDropList'
    <3> TAKE c \in told'
    <3>1. c \in Buffers
      BY <1>1, <1>5 DEF DropInv, ReportInv
    <3> QED
      BY <1>1, <1>2, <1>4, <3>1 DEF DropInv, ReportInv
  <2> QED
    BY <2>1, <2>2, <2>3 DEF ReportInv
<1>7. BadInv'
  <2>1. mPendingFrameDropList \subseteq told
    BY DEF DropInv, ReportInv
  <2> QED
    BY <1>1, <1>2, <1>4, <2>1 DEF DropInv, BadInv
<1>8. GoodInv'
  <2>1. ASSUME NEW c \in told, c[1] \in Captures, back'[c] = "ok"
        PROVE  HasAnswer(c[1], Skipped)
    <3>1. c \in Buffers
      BY <1>5 DEF DropInv, ReportInv
    <3>2. c # b
      BY <1>3, <1>4, <2>1 DEF DropInv, ReportInv
    <3> QED
      BY <1>2, <2>1, <3>1, <3>2 DEF DropInv, GoodInv
  <2> QED
    BY <1>1, <2>1 DEF GoodInv
<1> QED
  BY <1>6, <1>7, <1>8 DEF DropInv

LEMMA DropsReprocess ==
  ASSUME Inv, AnswerInv, DropInv, NEW b \in Buffers, BufferOfReprocess(b)
  PROVE  DropInv'
<1> DEFINE f == b[1]
<1>1. f \notin Captures /\ f \in mPendingRequestsList /\ f \in Nat
  <2>1. f \in mPendingRequestsList /\ kind[f] = "reprocess"
    BY DEF BufferOfReprocess
  <2>2. mPendingRequestsList \subseteq Requested /\ Requested \subseteq Nat
    BY DEF Inv, RequestInv, Requested
  <2> QED
    BY <2>1, <2>2 DEF Captures
<1>2. /\ Captures' = Captures /\ Brought' = Brought
      /\ UNCHANGED <<told, mPendingFrameDropList, kind>>
      /\ mPendingRequestsList' \subseteq mPendingRequestsList
  BY DEF BufferOfReprocess, Captures, Requested, Brought
<1>3. CASE UNCHANGED <<answers, back>>
  BY <1>2, <1>3, DropsSame
<1>4. CASE /\ answers' = Append(answers, [frame |-> f, as |-> "reprocess"])
           /\ GiveBack({b}, {})
  <2>1. [frame |-> f, as |-> "reprocess"] \in Answers
    BY <1>1 DEF Answers
  <2>2. answers' = answers \o <<[frame |-> f, as |-> "reprocess"]>>
    BY <1>4, <2>1, AppendIsConcat DEF AnswerInv, PlaceInv
  <2> DEFINE new == <<[frame |-> f, as |-> "reprocess"]>>
  <2>3. new \in Seq(Answers) /\ Len(new) = 1 /\ new[1] = [frame |-> f, as |-> "reprocess"]
    BY <2>1
  <2>4. \A i \in 1 .. Len(new) : new[i].frame = f /\ new[i].as = "reprocess"
    BY <2>3
  <2>12. answers' = answers \o new
    BY <2>2
  <2> HIDE DEF new
  <2>5. ASSUME NEW g \in Captures, NEW as
        PROVE  HasAnswer(g, as)' <=> HasAnswer(g, as)
    <3>1. HasAnswer(g, as)' <=>
              \/ HasAnswer(g, as)
              \/ \E i \in 1 .. Len(new) : Final(new[i]) /\ new[i].frame = g /\ new[i].as \in as
      BY ZenonT(60), <2>3, <2>12, Appended
    <3> QED
      BY <1>1, <2>4, <3>1
  <2>6. \A g \in Captures : Stray(g)' <=> Stray(g)
    <3> TAKE g \in Captures
    <3>1. \A i \in 1 .. Len(new) : new[i] # [frame |-> g, as |-> "stray"]
      BY <2>4
    <3>2. Stray(g)' <=> Stray(g) \/ \E i \in 1 .. Len(new) : new[i] = [frame |-> g, as |-> "stray"]
      BY ZenonT(60), <2>3, <2>12, Appended
    <3> QED
      BY <3>1, <3>2
  <2>7. \A c \in Buffers : c[1] \in Captures => back'[c] = back[c]
    BY <1>1, <1>4 DEF GiveBack
  <2>8. \A c \in told : c \in Buffers
    BY DEF DropInv, ReportInv, Brought
  <2>9. ReportInv'
    BY <1>2, <2>7, <2>8 DEF DropInv, ReportInv
  <2>10. BadInv'
    BY <1>2, <2>5, <2>6, <2>7 DEF DropInv, BadInv
  <2>11. GoodInv'
    BY <1>2, <2>5, <2>7, <2>8 DEF DropInv, GoodInv
  <2> QED
    BY <2>9, <2>10, <2>11 DEF DropInv
<1> QED
  BY <1>3, <1>4 DEF BufferOfReprocess

(* Metadata ends the requests up to its frame.  What it drops is reported;  *)
(* of the buffers that it gives back those of its own frame are marked bad, *)
(* while those of skipped frames go back as good and their frames' results  *)
(* are empty.                                                               *)
LEMMA DropsMetadata ==
  ASSUME Inv, Inv', AnswerInv, DropInv, NEW n \in Frames, NEW drop, handleMetadataWithLock(n, drop)
  PROVE  DropInv'
<1> DEFINE P == mPendingRequestsList
           late == handlePendingReprocResults(n)
           new == Results(n)
           D == Dropped(n, drop)
           given == {b \in cached : b[1] \in Upto(n)}
           bad == MarkedBad(n, drop, given)
           bs == given \cup ((late \cap P) \X {"blob"})
<1>1. /\ answers' = answers \o new /\ UNCHANGED kind
      /\ P' = P \ (Upto(n) \cup late)
      /\ told' = told \cup D
      /\ mPendingFrameDropList' = (mPendingFrameDropList \cup D) \ bad
      /\ GiveBack(bs, bad)
  BY DEF handleMetadataWithLock
<1>2. Captures' = Captures /\ Brought' = Brought
  BY <1>1 DEF Captures, Requested, Brought
<1>3. P \subseteq Requested /\ n \in Nat
  BY DEF Inv, RequestInv, Frames
<1>4. /\ new \in Seq(Answers)
      /\ \A i \in 1 .. Len(new) :
           \/ /\ new[i].frame \in Upto(n)
              /\ new[i].as = IF new[i].frame = n THEN "result" ELSE "dummy"
           \/ new[i].frame \in late \cap P /\ new[i].frame \notin Upto(n) /\ new[i].as = "reprocess"
      /\ \A f \in Upto(n) : \E i \in 1 .. Len(new) : new[i].frame = f
  BY <1>3, ResultsAre
<1>5. late \subseteq mPendingReprocessResultList /\ \A f \in late : f \notin Captures
  BY DEF Inv, RequestInv, handlePendingReprocResults, Captures
<1>6. Upto(n) \subseteq P
  BY DEF Upto
<1>7. \A b \in D : b \in Brought /\ b[1] \in Upto(n)
  <2> TAKE b \in D
  <2>1. PICK f \in Upto(n) : b \in Of(f)
    BY DEF Dropped
  <2> QED
    BY <1>3, <1>6, <2>1, OfIsBrought DEF Inv
<1>8. bad \subseteq given /\ \A b \in given : b \in bad <=> b[1] = n /\ b \in D
  BY DEF MarkedBad
<1>9. \A b \in Buffers : b \notin bs => back'[b] = back[b]
  BY <1>1 DEF GiveBack
<1>10. \A b \in Buffers : b \in bs => back'[b] = IF b \in bad THEN "bad" ELSE "ok"
  <2> SUFFICES ASSUME NEW b \in Buffers, b \in bs
               PROVE  back'[b] = IF b \in bad THEN "bad" ELSE "ok"
    OBVIOUS
  <2>1. back'[b] # "twice"
    <3>1. back'[b] \in {"no", "ok", "bad"}
      BY DEF Inv, BufferInv
    <3> QED
      BY <3>1
  <2> QED
    BY <1>1, <2>1 DEF GiveBack
<1>11. \A b \in bs : b[1] \in Captures => b \in given
  BY <1>5
<1>12. \A b \in given : b[1] \in Upto(n)
  OBVIOUS
<1>13. \A f, as : HasAnswer(f, as) => HasAnswer(f, as)'
  BY <1>1, <1>4, Appended
<1>14. \A f : Stray(f) => Stray(f)'
  BY <1>1, <1>4, Appended
<1>15. \A b \in Brought : b \in Buffers
  BY DEF Brought
<1>16. \A b \in Buffers : back[b] # "no" => b[1] \notin P
  BY DEF Inv, BufferInv
<1>17. /\ mPendingFrameDropList \subseteq told
       /\ \A b \in told : b \in Brought /\ b[1] \notin P
       /\ \A b \in told : b[1] \in Captures /\ back[b] = "no" => b \in mPendingFrameDropList
  BY DEF DropInv, ReportInv
<1> HIDE DEF late, new, D, given, bad, bs
<1>18. ReportInv'
  <2>1. mPendingFrameDropList' \subseteq told'
    BY <1>1, <1>17
  <2>2. \A b \in told' : b \in Brought' /\ b[1] \notin P'
    BY <1>1, <1>2, <1>7, <1>17
  <2>3. \A b \in told' : b[1] \in Captures' /\ back'[b] = "no" => b \in mPendingFrameDropList'
    <3> TAKE b \in told'
    <3>1. b \in Buffers
      BY <1>1, <1>7, <1>15, <1>17
    <3>2. SUFFICES ASSUME b[1] \in Captures, back'[b] = "no"
                   PROVE  b \in mPendingFrameDropList'
      BY <1>2
    <3>3. b \notin bs /\ back[b] = "no"
      BY <1>9, <1>10, <3>1, <3>2
    <3>4. b \notin bad
      BY <1>8, <3>3 DEF bs
    <3> QED
      BY <1>1, <1>17, <3>2, <3>3, <3>4
  <2> QED
    BY <2>1, <2>2, <2>3 DEF ReportInv
<1>19. BadInv'
  <2> SUFFICES ASSUME NEW b \in Buffers, b[1] \in Captures, back'[b] = "bad", HasAnswer(b[1], Lost)'
               PROVE  b \in told' \/ Stray(b[1])'
    BY <1>2 DEF BadInv
  <2>1. CASE b \in bs
    BY <1>1, <1>8, <1>10, <2>1
  <2>2. CASE b \notin bs
    <3>1. back[b] = "bad" /\ b[1] \notin P
      BY <1>9, <1>16, <2>2
    <3>2. \A i \in 1 .. Len(new) : new[i].frame # b[1]
      BY <1>4, <1>6, <3>1
    <3>3. HasAnswer(b[1], Lost)
      <4>1. HasAnswer(b[1], Lost)' <=>
              \/ HasAnswer(b[1], Lost)
              \/ \E i \in 1 .. Len(new) : Final(new[i]) /\ new[i].frame = b[1] /\ new[i].as \in Lost
        BY <1>1, <1>4, Appended
      <4> QED
        BY <3>2, <4>1
    <3> QED
      BY <1>1, <1>14, <3>1, <3>3 DEF DropInv, BadInv
  <2> QED
    BY <2>1, <2>2
<1>20. GoodInv'
  <2> SUFFICES ASSUME NEW b \in told', b[1] \in Captures, back'[b] = "ok"
               PROVE  HasAnswer(b[1], Skipped)'
    BY <1>2 DEF GoodInv
  <2>1. b \in Buffers
    BY <1>1, <1>7, <1>15, <1>17
  <2>2. CASE b \in bs
    <3>1. b \in given /\ b[1] \in Upto(n) /\ b \notin bad
      BY <1>10, <1>11, <1>12, <2>1, <2>2
    <3>2. b \in D /\ b[1] # n
      BY <1>1, <1>6, <1>8, <1>17, <3>1
    <3>3. PICK i \in 1 .. Len(new) : new[i].frame = b[1]
      BY <1>4, <3>1
    <3>4. new[i].as = "dummy"
      BY <1>4, <3>1, <3>2, <3>3
    <3>5. HasAnswer(b[1], Skipped)' <=>
              \/ HasAnswer(b[1], Skipped)
              \/ \E j \in 1 .. Len(new) : Final(new[j]) /\ new[j].frame = b[1] /\ new[j].as \in Skipped
      BY <1>1, <1>4, Appended
    <3> QED
      BY <3>3, <3>4, <3>5 DEF Final, Skipped
  <2>3. CASE b \notin bs
    <3>1. back[b] = "ok" /\ b[1] \notin P
      BY <1>9, <1>16, <2>1, <2>3
    <3>2. b \in told
      BY <1>1, <1>6, <1>7, <3>1
    <3>3. HasAnswer(b[1], Skipped)
      BY <3>1, <3>2 DEF DropInv, GoodInv
    <3>4. HasAnswer(b[1], Skipped)' <=>
              \/ HasAnswer(b[1], Skipped)
              \/ \E j \in 1 .. Len(new) : Final(new[j]) /\ new[j].frame = b[1] /\ new[j].as \in Skipped
      BY <1>1, <1>4, Appended
    <3> QED
      BY <3>3, <3>4
  <2> QED
    BY <2>2, <2>3
<1> QED
  BY <1>18, <1>19, <1>20 DEF DropInv

(* A flush gives everything back as bad.  Buffers of frames before all that *)
(* are pending are reported, the others belong to requests that end with an *)
(* error, or to none: then the error is a stray one.                        *)
LEMMA DropsFlush ==
  ASSUME Inv, Inv', AnswerInv, DropInv, NEW end, flushEnd(end)
  PROVE  DropInv'
<1> DEFINE P == mPendingRequestsList
           B == mPendingBuffersMap
           A == Answered(end)
           rest == Rest(end)
           how == [f \in rest |-> IF P = {} THEN "stray" ELSE "error"]
           new == Told(rest, how)
<1>1. /\ answers' = answers \o new /\ UNCHANGED kind /\ P' = {} /\ mPendingFrameDropList' = {}
      /\ told' = told \cup A /\ GiveBack(B, B)
  BY DEF flushEnd, Rest
<1>2. Captures' = Captures /\ Brought' = Brought
  BY <1>1 DEF Captures, Requested, Brought
<1>3. rest \subseteq Requested /\ (P # {} => rest \subseteq P)
  BY RestIs
<1>4. how \in [rest -> Hows] /\ IsFiniteSet(rest)
  BY <1>3, RequestedFinite DEF Hows
<1>5. /\ new \in Seq(Answers)
      /\ \A i \in 1 .. Len(new) : new[i].frame \in rest /\ new[i].as = how[new[i].frame]
      /\ \A f \in rest : \E i \in 1 .. Len(new) : new[i].frame = f
  BY ZenonT(60), <1>3, <1>4, ToldIs
<1>6. \A i \in 1 .. Len(new) : new[i].as = IF P = {} THEN "stray" ELSE "error"
  BY <1>5
<1>7. \A b \in B : b \in A \/ b[1] \in rest
  BY DEF Rest
<1>8. A \subseteq B /\ \A b \in B : b \in Brought
  BY DEF Answered, Inv, BufferInv
<1>9. \A b \in Buffers : b \notin B => back'[b] = back[b]
  BY <1>1 DEF GiveBack
<1>10. \A b \in Buffers : b \in B => back'[b] = "bad"
  <2> SUFFICES ASSUME NEW b \in Buffers, b \in B PROVE back'[b] = "bad"
    OBVIOUS
  <2>1. back'[b] \in {"no", "ok", "bad"}
    BY DEF Inv, BufferInv
  <2> QED
    BY <1>1, <2>1 DEF GiveBack
<1>11. \A b \in Brought : b \in Buffers /\ (b[1] \in Captures /\ back[b] = "no" => b \in B)
  BY DEF Inv, BufferInv, Brought, Captures
<1>12. \A b \in told : b \in Brought
  BY DEF DropInv, ReportInv
<1> HIDE DEF rest, how, new, A, B
<1>13. /\ \A f, as : HasAnswer(f, as) => HasAnswer(f, as)'
       /\ \A f : Stray(f) => Stray(f)'
  BY <1>1, <1>5, Appended
<1>14. \A f : HasAnswer(f, Lost)' => HasAnswer(f, Lost)
  <2> TAKE f
  <2>1. HasAnswer(f, Lost)' <=>
              \/ HasAnswer(f, Lost)
              \/ \E i \in 1 .. Len(new) : Final(new[i]) /\ new[i].frame = f /\ new[i].as \in Lost
    BY SMTT(60), <1>1, <1>5, Appended
  <2> QED
    BY <1>6, <2>1 DEF Lost
<1>15. ReportInv'
  <2>1. \A b \in told' : b \in Brought' /\ b[1] \notin P'
    BY <1>1, <1>2, <1>8, <1>12
  <2>2. \A b \in told' : ~(b[1] \in Captures' /\ back'[b] = "no")
    BY <1>1, <1>2, <1>8, <1>9, <1>10, <1>11, <1>12
  <2> QED
    BY <1>1, <2>1, <2>2 DEF ReportInv
<1>16. BadInv'
  <2> SUFFICES ASSUME NEW b \in Buffers, b[1] \in Captures, back'[b] = "bad", HasAnswer(b[1], Lost)'
               PROVE  b \in told' \/ Stray(b[1])'
    BY <1>2 DEF BadInv
  <2>1. HasAnswer(b[1], Lost) /\ b[1] \notin P
    BY <1>14, HasOldAnswer
  <2>2. CASE b \in A
    BY <1>1, <2>2
  <2>3. CASE b \in B /\ b \notin A
    <3>1. b[1] \in rest /\ P = {}
      BY <1>3, <1>7, <2>1, <2>3
    <3>2. PICK i \in 1 .. Len(new) : new[i].frame = b[1]
      BY <1>5, <3>1
    <3>3. new[i].as = "stray" /\ new[i] \in Answers
      BY <1>5, <1>6, <3>1, ElementOfSeq
    <3>4. new[i] = [frame |-> b[1], as |-> "stray"]
      BY <3>2, <3>3 DEF Answers
    <3>5. Stray(b[1])' <=> Stray(b[1]) \/ \E j \in 1 .. Len(new) : new[j] = [frame |-> b[1], as |-> "stray"]
      BY ZenonT(60), <1>1, <1>5, Appended
    <3> QED
      BY <3>4, <3>5
  <2>4. CASE b \notin B
    BY <1>1, <1>9, <1>13, <2>1, <2>4 DEF DropInv, BadInv
  <2> QED
    BY <2>2, <2>3, <2>4
<1>17. GoodInv'
  <2> SUFFICES ASSUME NEW b \in told', b[1] \in Captures, back'[b] = "ok"
               PROVE  HasAnswer(b[1], Skipped)'
    BY <1>2 DEF GoodInv
  <2>1. b \in Buffers /\ b \notin B
    BY <1>1, <1>8, <1>10, <1>11, <1>12
  <2>2. back[b] = "ok" /\ b \in told
    BY <1>1, <1>8, <1>9, <2>1
  <2> QED
    BY <1>13, <2>2 DEF DropInv, GoodInv
<1> QED
  BY <1>15, <1>16, <1>17 DEF DropInv

LEMMA DropsStep == Inv /\ Inv' /\ AnswerInv /\ DropInv /\ [Next]_vars => DropInv'
<1> SUFFICES ASSUME Inv, Inv', AnswerInv, DropInv, [Next]_vars PROVE DropInv'
  OBVIOUS
<1>1. CASE configureStreams
  BY <1>1, DropsConfigure
<1>2. ASSUME NEW k \in Kinds, processCaptureRequest(k) PROVE DropInv'
  BY <1>2, DropsRequest
<1>3. ASSUME NEW n \in Frames, NEW drop \in {{}, {"prev"}}, handleMetadataWithLock(n, drop)
      PROVE  DropInv'
  BY <1>3, DropsMetadata
<1>4. ASSUME NEW b \in Buffers, BufferAfterResult(b) PROVE DropInv'
  BY <1>4, DropsLate
<1>5. ASSUME NEW b \in Buffers, BufferOfReprocess(b) PROVE DropInv'
  BY <1>5, DropsReprocess
<1>6. ASSUME NEW end \in EndNumbers, flushEnd(end) PROVE DropInv'
  BY <1>6, DropsFlush
<1>7. CASE Wake \/ TimeOut \/ PullRequest \/ OtherMetadata \/ flushBegin \/ StopChannels
           \/ (\E b \in Buffers : BufferBeforeResult(b)) \/ UNCHANGED vars
  <2>1. UNCHANGED <<kind, answers, back, told, mPendingFrameDropList, mPendingRequestsList>>
    BY <1>7 DEF Wake, TimeOut, PullRequest, OtherMetadata, flushBegin, StopChannels,
                BufferBeforeResult, vars, hwi, service
  <2> QED
    BY <2>1, DropsSame
<1> QED
  BY <1>1, <1>2, <1>3, <1>4, <1>5, <1>6, <1>7 DEF Next

(* DropsAgree for every step of the code: what the service is told of lost  *)
(* buffers and how these come back agree.                                   *)
THEOREM DropsAreReported == Spec => []DropsAgree
<1>1. Init => Inv /\ AnswerInv /\ DropInv
  BY Begins, AnswersBegin, DropsBegin
<1>2. Inv /\ AnswerInv /\ DropInv /\ [Next]_vars => Inv' /\ AnswerInv' /\ DropInv'
  BY StepKeeps, AnswersStep, DropsStep
<1>3. DropInv => DropsAgree
  BY DropsThen
<1> QED
  BY <1>1, <1>2, <1>3, PTL DEF Spec
=============================================================================
