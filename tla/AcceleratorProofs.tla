-------------------------- MODULE AcceleratorProofs --------------------------
(***************************************************************************)
(* Proofs about the hooks in accelerator drivers: ForceWake, for all       *)
(* domains, contexts and limits; NGFX, for all functions and registers;    *)
(* and the loading of GuC firmware, for any buffers, sizes and number of   *)
(* sleeps, when other clients keep off while firmware is loaded.           *)
(***************************************************************************)
EXTENDS ForceWake, NGFX, GuCFirmware, FiniteSetTheorems, WellFoundedInduction, TLAPS

-----------------------------------------------------------------------------
\* The inductive invariant

\* A call goes on as long as it has domains to finish.
CallsHaveDomains == \A c \in Contexts : todo[c] = {} <=> step[c] = "idle"

\* The request for domain d has been written, and its acknowledgement is awaited.
Requested(c, d) == step[c] \notin {"idle", "write"} /\ d = current(c)

\* In a domain that the call is not working on, request, acknowledgement and the
\* driver's view agree.
Settled(c, d) == /\ (c \in request[d]) = (d \in held[c])
                 /\ (c \in ack[d]) = (d \in held[c])

\* The bits of a context in a domain: settled, or as requested.
BitsAgree ==
  \A c \in Contexts, d \in Domains :
    IF Requested(c, d) THEN (c \in request[d]) = set[c] ELSE Settled(c, d)

IInv == ForceWakeTypeOK /\ CallsHaveDomains /\ BitsAgree /\ FallbackReleased

-----------------------------------------------------------------------------
\* The domain that the loop visits next

\* The order of the natural numbers as a relation
Less == {ss \in Nat \X Nat : ss[1] < ss[2]}

\* It is the library's well-founded one.
LEMMA LessIsWellFounded == IsWellFoundedOn(Less, Nat)
<1>1. Less = OpToRel(<, Nat)
  BY Zenon DEF Less, OpToRel
<1>2. QED
  BY <1>1, NatLessThanWellFounded, Zenon

\* Domains are numbers: of several, one is the first.
LEMMA CurrentIsLeft ==
  ASSUME ForceWakeTypeOK, NEW c \in Contexts, todo[c] # {}
  PROVE  current(c) \in todo[c] /\ current(c) \in Domains
<1>1. todo[c] \subseteq Domains /\ Domains \subseteq Nat
  BY DomainsAssumption DEF ForceWakeTypeOK
<1>2. \E d \in todo[c] : \A e \in todo[c] : ~(<<e, d>> \in Less)
  BY <1>1, LessIsWellFounded, WFMin, Zenon
<1>3. PICK d \in todo[c] : \A e \in todo[c] : ~(<<e, d>> \in Less)
  BY <1>2
<1>4. \A e \in todo[c] : d <= e
  <2> SUFFICES ASSUME NEW e \in todo[c], ~(d <= e) PROVE FALSE
    OBVIOUS
  <2>1. d \in Nat /\ e \in Nat
    BY <1>1
  <2>2. e < d
    BY <2>1
  <2>3. <<e, d>> \in Less
    BY <2>1, <2>2 DEF Less
  <2>4. QED
    BY <1>3, <2>3, Zenon
<1>5. QED
  BY <1>1, <1>4, Zenon DEF current

\* It stays the same as long as the domains do.
LEMMA CurrentStays ==
  ASSUME NEW c \in Contexts, todo'[c] = todo[c]
  PROVE  current(c)' = current(c)
BY DEF current

\* A masked write changes bits of the mask in one domain.
LEMMA MaskedBits ==
  ASSUME ForceWakeTypeOK, NEW d \in Domains, NEW mask, NEW value \in SUBSET Bits,
         WriteMasked(d, mask, value)
  PROVE  /\ request' \in [Domains -> SUBSET Bits]
         /\ \A e \in Domains : e # d => request'[e] = request[e]
         /\ \A b \in Bits : b \in request'[d] <=>
              IF b \in mask THEN b \in value ELSE b \in request[d]
BY DEF ForceWakeTypeOK, WriteMasked

\* When a step clears the fallback bit of its domain, or leaves the requests alone
\* outside of a pass, other bits stay, and it leaves no fallback bit behind.
LEMMA FallbackBits ==
  ASSUME ForceWakeTypeOK, NEW c \in Contexts, current(c) \in Domains,
         \/ request' = request /\ step[c] # "read"
         \/ WriteMasked(current(c), {Fallback}, {})
  PROVE  /\ request' \in [Domains -> SUBSET Bits]
         /\ \A e \in Domains : e # current(c) => request'[e] = request[e]
         /\ \A b \in Bits \ {Fallback}, e \in Domains :
              b \in request'[e] <=> b \in request[e]
         /\ Fallback \in request'[current(c)] =>
              Fallback \in request[current(c)] /\ step[c] # "read"
<1>1. CASE request' = request /\ step[c] # "read"
  BY <1>1 DEF ForceWakeTypeOK
<1>2. CASE WriteMasked(current(c), {Fallback}, {})
  <2>1. /\ request' \in [Domains -> SUBSET Bits]
        /\ \A e \in Domains : e # current(c) => request'[e] = request[e]
        /\ \A b \in Bits : b \in request'[current(c)] <=>
             IF b \in {Fallback} THEN b \in {} ELSE b \in request[current(c)]
    BY <1>2, MaskedBits
  <2>2. Fallback \in Bits
    BY DEF Bits
  <2>3. QED
    BY <2>1, <2>2
<1>3. QED
  BY <1>1, <1>2

\* What a step of one context has to show about the bits
LEMMA BitsOfOthers ==
  ASSUME IInv, NEW c \in Contexts,
         \A b \in Contexts \ {c} :
           /\ step'[b] = step[b] /\ todo'[b] = todo[b] /\ set'[b] = set[b]
           /\ held'[b] = held[b]
           /\ \A d \in Domains : b \in request'[d] <=> b \in request[d],
         ack' = ack,
         NEW b \in Contexts \ {c}, NEW d \in Domains
  PROVE  IF Requested(b, d)' THEN (b \in request'[d]) = set'[b]
                             ELSE Settled(b, d)'
<1>1. current(b)' = current(b)
  BY CurrentStays
<1>2. Requested(b, d)' = Requested(b, d)
  BY <1>1 DEF Requested
<1>3. Settled(b, d)' = Settled(b, d)
  BY DEF Settled
<1>4. IF Requested(b, d) THEN (b \in request[d]) = set[b] ELSE Settled(b, d)
  BY DEF IInv, BitsAgree
<1>5. set'[b] = set[b] /\ (b \in request'[d] <=> b \in request[d])
  OBVIOUS
<1>6. CASE Requested(b, d)
  <2>1. (b \in request[d]) = set[b]
    BY <1>4, <1>6
  <2>2. (b \in request'[d]) = set'[b]
    BY <1>5, <2>1
  <2>3. QED
    BY <1>2, <1>6, <2>2, Zenon
<1>7. CASE ~Requested(b, d)
  BY <1>2, <1>3, <1>4, <1>7, Zenon
<1>8. QED
  BY <1>6, <1>7

-----------------------------------------------------------------------------
\* The invariant is inductive

LEMMA InitInv == ForceWakeInit => IInv
<1> SUFFICES ASSUME ForceWakeInit PROVE IInv
  OBVIOUS
<1>1. ForceWakeTypeOK
  <2>1. pass \in [Contexts -> 0..Passes]
    BY PassesAssumption DEF ForceWakeInit
  <2>2. request \in [Domains -> SUBSET Bits] /\ ack \in [Domains -> SUBSET Bits]
    BY DEF ForceWakeInit
  <2>3. QED
    BY <2>1, <2>2 DEF ForceWakeInit, ForceWakeTypeOK
<1>2. CallsHaveDomains /\ FallbackReleased
  BY DEF ForceWakeInit, CallsHaveDomains, FallbackReleased
<1>3. BitsAgree
  BY DEF ForceWakeInit, BitsAgree, Requested, Settled
<1>4. QED
  BY <1>1, <1>2, <1>3 DEF IInv

\* A call begins with nothing written.
LEMMA CallInv ==
  ASSUME IInv, NEW c \in Contexts, Call(c)
  PROVE  IInv'
<1>1. ForceWakeTypeOK'
  BY DEF IInv, ForceWakeTypeOK, Call
<1>2. CallsHaveDomains'
  <2>1. todo'[c] # {} /\ step'[c] # "idle"
    <3>1. PICK dom \in (SUBSET Domains) \ {{}} : todo' = [todo EXCEPT ![c] = dom]
      BY DEF Call
    <3>2. todo'[c] = dom
      BY <3>1 DEF IInv, ForceWakeTypeOK
    <3>3. step'[c] = "write"
      BY DEF IInv, ForceWakeTypeOK, Call
    <3>4. QED
      BY <3>1, <3>2, <3>3
  <2>2. \A b \in Contexts \ {c} : todo'[b] = todo[b] /\ step'[b] = step[b]
    BY DEF IInv, ForceWakeTypeOK, Call
  <2>3. QED
    BY <2>1, <2>2 DEF IInv, CallsHaveDomains
<1>3. ASSUME NEW d \in Domains
      PROVE  ~Requested(c, d)' /\ Settled(c, d)'
  BY <1>3 DEF IInv, ForceWakeTypeOK, BitsAgree, Requested, Settled, Call
<1>4. BitsAgree'
  <2>1. \A b \in Contexts \ {c}, d \in Domains :
          IF Requested(b, d)' THEN (b \in request'[d]) = set'[b]
                              ELSE Settled(b, d)'
    BY BitsOfOthers DEF IInv, ForceWakeTypeOK, Call
  <2>2. QED
    BY <2>1, <1>3 DEF BitsAgree
<1>5. FallbackReleased'
  <2>1. ASSUME NEW d \in Domains, Fallback \in request'[d]
        PROVE  \E b \in Contexts : Toggling(b, d)'
    <3>1. PICK b \in Contexts : Toggling(b, d)
      BY <2>1 DEF IInv, FallbackReleased, Call
    <3>2. b # c /\ todo'[b] = todo[b] /\ step'[b] = step[b]
      BY <3>1 DEF IInv, ForceWakeTypeOK, Toggling, Call
    <3>3. current(b)' = current(b)
      BY <3>2, CurrentStays
    <3>4. QED
      BY <3>1, <3>2, <3>3 DEF Toggling
  <2>2. QED
    BY <2>1 DEF FallbackReleased
<1>6. QED
  BY <1>1, <1>2, <1>4, <1>5 DEF IInv

\* The other context keeps its place and its bits.
Elsewhere(c) ==
  \A b \in Contexts \ {c} :
    /\ step'[b] = step[b] /\ todo'[b] = todo[b] /\ set'[b] = set[b]
    /\ held'[b] = held[b]
    /\ \A d \in Domains : b \in request'[d] <=> b \in request[d]

\* What is left to show for a step that is inside a call of one context
LEMMA InsideCall ==
  ASSUME IInv, NEW c \in Contexts, Elsewhere(c), ForceWakeTypeOK', ack' = ack,
         todo'[c] = {} <=> step'[c] = "idle",
         \A d \in Domains :
           /\ IF Requested(c, d)' THEN (c \in request'[d]) = set'[c]
                                  ELSE Settled(c, d)'
           /\ Fallback \in request'[d] =>
                Toggling(c, d)' \/ (Fallback \in request[d] /\ ~Toggling(c, d))
  PROVE  IInv'
<1>1. CallsHaveDomains'
  BY DEF IInv, CallsHaveDomains, Elsewhere
<1>2. BitsAgree'
  <2>1. \A b \in Contexts \ {c}, d \in Domains :
          IF Requested(b, d)' THEN (b \in request'[d]) = set'[b]
                              ELSE Settled(b, d)'
    BY BitsOfOthers DEF Elsewhere
  <2>2. QED
    BY <2>1 DEF BitsAgree
<1>3. FallbackReleased'
  <2>1. ASSUME NEW d \in Domains, Fallback \in request'[d], ~Toggling(c, d)'
        PROVE  \E b \in Contexts : Toggling(b, d)'
    <3>1. PICK b \in Contexts : Toggling(b, d)
      BY <2>1 DEF IInv, FallbackReleased
    <3>2. b \in Contexts \ {c}
      BY <2>1, <3>1
    <3>3. step'[b] = step[b] /\ current(b)' = current(b)
      BY <3>2, CurrentStays DEF Elsewhere
    <3>4. QED
      BY <3>1, <3>3 DEF Toggling
  <2>2. QED
    BY <2>1 DEF FallbackReleased
<1>4. QED
  BY <1>1, <1>2, <1>3 DEF IInv

\* The request is written: from now on its acknowledgement is awaited.
LEMMA WriteRequestInv ==
  ASSUME IInv, NEW c \in Contexts, WriteRequest(c)
  PROVE  IInv'
<1> DEFINE value == IF set[c] THEN {c} ELSE {}
<1>1. step[c] = "write" /\ todo[c] # {}
  BY DEF IInv, CallsHaveDomains, WriteRequest
<1>2. current(c) \in todo[c] /\ current(c) \in Domains
  BY <1>1, CurrentIsLeft DEF IInv
<1>3. c \in Bits /\ Fallback \in Bits /\ c # Fallback /\ value \in SUBSET Bits
  BY BitsAssumption DEF Bits
<1>4. /\ request' \in [Domains -> SUBSET Bits]
      /\ \A e \in Domains : e # current(c) => request'[e] = request[e]
      /\ \A b \in Bits : b \in request'[current(c)] <=>
           IF b \in {c} THEN b \in value ELSE b \in request[current(c)]
  <2>1. WriteMasked(current(c), {c}, value)
    BY DEF WriteRequest
  <2>2. ForceWakeTypeOK
    BY DEF IInv
  <2> HIDE DEF value
  <2>3. QED
    BY <1>2, <1>3, <2>1, <2>2, MaskedBits
<1>5. ForceWakeTypeOK'
  BY <1>4 DEF IInv, ForceWakeTypeOK, WriteRequest
<1>6. step'[c] = "poll" /\ set' = set /\ todo' = todo /\ held' = held /\ ack' = ack
  BY DEF IInv, ForceWakeTypeOK, WriteRequest
<1>7. Elsewhere(c)
  BY <1>4, <1>6 DEF IInv, ForceWakeTypeOK, Bits, Elsewhere, WriteRequest
<1>8. current(c)' = current(c)
  BY <1>6, CurrentStays
<1>9. ASSUME NEW d \in Domains
      PROVE  /\ IF Requested(c, d)' THEN (c \in request'[d]) = set'[c]
                                    ELSE Settled(c, d)'
             /\ Fallback \in request'[d] =>
                  Toggling(c, d)' \/ (Fallback \in request[d] /\ ~Toggling(c, d))
  <2>1. CASE d = current(c)
    <3>1. Requested(c, d)'
      BY <1>6, <1>8, <2>1 DEF Requested
    <3>2. (c \in request'[d]) = set[c]
      BY <1>3, <1>4, <2>1 DEF IInv, ForceWakeTypeOK
    <3>3. QED
      BY <1>1, <1>3, <1>4, <1>6, <2>1, <3>1, <3>2 DEF Toggling
  <2>2. CASE d # current(c)
    <3>1. ~Requested(c, d)' /\ ~Requested(c, d)
      BY <1>8, <2>2 DEF Requested
    <3>2. request'[d] = request[d]
      BY <1>4, <2>2
    <3>3. Settled(c, d)
      BY <3>1 DEF IInv, BitsAgree
    <3>4. Settled(c, d)'
      BY <1>6, <3>2, <3>3 DEF Settled
    <3>5. QED
      BY <1>1, <3>1, <3>2, <3>4 DEF Toggling
  <2>3. QED
    BY <2>1, <2>2
<1>10. todo'[c] = {} <=> step'[c] = "idle"
  BY <1>1, <1>6
<1>11. QED
  BY <1>5, <1>6, <1>7, <1>9, <1>10, InsideCall

\* What a call that goes on to its next domain does to the bits of that context:
\* the acknowledged domain is settled, the request for the next one not written.
LEMMA NextDomainInv ==
  ASSUME IInv, NEW c \in Contexts, step[c] \notin {"idle", "write"},
         Acknowledged(c), NextDomain(c),
         ack' = ack, set' = set, panicked' \in BOOLEAN,
         \/ request' = request /\ step[c] # "read"
         \/ WriteMasked(current(c), {Fallback}, {})
  PROVE  IInv'
<1>1. todo[c] # {} /\ ForceWakeTypeOK
  BY DEF IInv, CallsHaveDomains
<1>2. current(c) \in todo[c] /\ current(c) \in Domains
  BY <1>1, CurrentIsLeft
<1>3. c \in Bits /\ Fallback \in Bits /\ c # Fallback
  BY BitsAssumption DEF Bits
<1>4. /\ request' \in [Domains -> SUBSET Bits]
      /\ \A e \in Domains : e # current(c) => request'[e] = request[e]
      /\ \A b \in Bits \ {Fallback}, e \in Domains : b \in request'[e] <=> b \in request[e]
      /\ Fallback \in request'[current(c)] =>
           Fallback \in request[current(c)] /\ step[c] # "read"
  BY <1>1, <1>2, FallbackBits
<1>5. step'[c] = IF todo[c] = {current(c)} THEN "idle" ELSE "write"
  BY <1>1 DEF ForceWakeTypeOK, NextDomain
<1>6. todo'[c] = todo[c] \ {current(c)}
  BY <1>1 DEF ForceWakeTypeOK, NextDomain
<1>7. held'[c] = IF set[c] THEN held[c] \cup {current(c)} ELSE held[c] \ {current(c)}
  BY <1>1 DEF ForceWakeTypeOK, NextDomain
<1>8. ForceWakeTypeOK'
  BY <1>1, <1>2, <1>4, PassesAssumption DEF ForceWakeTypeOK, NextDomain
<1>9. Elsewhere(c)
  <2>1. \A b \in Contexts \ {c} : b \in Bits \ {Fallback}
    BY BitsAssumption DEF Bits
  <2>2. QED
    BY <1>1, <1>4, <2>1 DEF ForceWakeTypeOK, Elsewhere, NextDomain
<1>10. todo'[c] = {} <=> step'[c] = "idle"
  BY <1>2, <1>5, <1>6
<1>11. ASSUME NEW d \in Domains
       PROVE  /\ IF Requested(c, d)' THEN (c \in request'[d]) = set'[c]
                                     ELSE Settled(c, d)'
              /\ Fallback \in request'[d] =>
                   Toggling(c, d)' \/ (Fallback \in request[d] /\ ~Toggling(c, d))
  <2>1. ~Requested(c, d)' /\ ~Toggling(c, d)'
    BY <1>5 DEF Requested, Toggling
  <2>2. (c \in request'[d] <=> c \in request[d]) /\ (c \in ack'[d] <=> c \in ack[d])
    BY <1>3, <1>4
  <2>3. CASE d = current(c)
    <3>1. Requested(c, d)
      BY <2>3 DEF Requested
    <3>2. (c \in request[d]) = set[c]
      BY <3>1 DEF IInv, BitsAgree
    <3>3. (c \in ack[d]) = set[c]
      BY <2>3 DEF Acknowledged
    <3>4. d \in held'[c] <=> set[c]
      BY <1>7, <2>3
    <3>5. Settled(c, d)'
      <4>1. c \in request'[d] <=> d \in held'[c]
        BY <2>2, <3>2, <3>4
      <4>2. c \in ack'[d] <=> d \in held'[c]
        BY <2>2, <3>3, <3>4
      <4>3. QED
        BY <4>1, <4>2 DEF Settled
    <3>6. Fallback \in request'[d] => Fallback \in request[d] /\ ~Toggling(c, d)
      BY <1>4, <2>3 DEF Toggling
    <3>7. QED
      BY <2>1, <3>5, <3>6
  <2>4. CASE d # current(c)
    <3>1. ~Requested(c, d) /\ ~Toggling(c, d)
      BY <2>4 DEF Requested, Toggling
    <3>2. Settled(c, d)
      BY <3>1 DEF IInv, BitsAgree
    <3>3. d \in held'[c] <=> d \in held[c]
      BY <1>7, <2>4
    <3>4. Settled(c, d)'
      BY <2>2, <3>2, <3>3 DEF Settled
    <3>5. request'[d] = request[d]
      BY <1>4, <2>4
    <3>6. QED
      BY <2>1, <3>1, <3>4, <3>5
  <2>5. QED
    BY <2>3, <2>4
<1>12. QED
  BY <1>8, <1>9, <1>10, <1>11, InsideCall

\* A failed poll, and the first half of a pass
LEMMA WaitInv ==
  ASSUME IInv, NEW c \in Contexts, step[c] \notin {"idle", "write"},
         step' = [step EXCEPT ![c] = "toggle"] \/ step' = [step EXCEPT ![c] = "last"],
         pass' \in [Contexts -> 0..Passes], panicked' = panicked,
         UNCHANGED <<ack, set, todo, held>>,
         \/ request' = request /\ step[c] # "read"
         \/ WriteMasked(current(c), {Fallback}, {})
  PROVE  IInv'
<1>1. todo[c] # {} /\ ForceWakeTypeOK
  BY DEF IInv, CallsHaveDomains
<1>2. current(c) \in Domains
  BY <1>1, CurrentIsLeft
<1>3. c \in Bits /\ Fallback \in Bits /\ c # Fallback
  BY BitsAssumption DEF Bits
<1>4. /\ request' \in [Domains -> SUBSET Bits]
      /\ \A e \in Domains : e # current(c) => request'[e] = request[e]
      /\ \A b \in Bits \ {Fallback}, e \in Domains : b \in request'[e] <=> b \in request[e]
      /\ Fallback \in request'[current(c)] =>
           Fallback \in request[current(c)] /\ step[c] # "read"
  BY <1>1, <1>2, FallbackBits
<1>5. step'[c] \in {"toggle", "last"} /\ current(c)' = current(c)
  BY <1>1, CurrentStays DEF ForceWakeTypeOK
<1>6. ForceWakeTypeOK'
  BY <1>1, <1>4 DEF ForceWakeTypeOK
<1>7. Elsewhere(c)
  <2>1. \A b \in Contexts \ {c} : b \in Bits \ {Fallback}
    BY BitsAssumption DEF Bits
  <2>2. QED
    BY <1>1, <1>4, <2>1 DEF ForceWakeTypeOK, Elsewhere
<1>8. ASSUME NEW d \in Domains
      PROVE  /\ IF Requested(c, d)' THEN (c \in request'[d]) = set'[c]
                                    ELSE Settled(c, d)'
             /\ Fallback \in request'[d] =>
                  Toggling(c, d)' \/ (Fallback \in request[d] /\ ~Toggling(c, d))
  <2>1. Requested(c, d)' = Requested(c, d)
    BY <1>5 DEF Requested
  <2>2. c \in request'[d] <=> c \in request[d]
    BY <1>3, <1>4
  <2>3. IF Requested(c, d) THEN (c \in request[d]) = set[c] ELSE Settled(c, d)
    BY DEF IInv, BitsAgree
  <2>4. Fallback \in request'[d] => Fallback \in request[d] /\ ~Toggling(c, d)
    BY <1>4 DEF Toggling
  <2>5. CASE Requested(c, d)
    BY <2>1, <2>2, <2>3, <2>4, <2>5
  <2>6. CASE ~Requested(c, d)
    <3>1. Settled(c, d)'
      BY <2>2, <2>3, <2>6 DEF Settled
    <3>2. QED
      BY <2>1, <2>4, <2>6, <3>1
  <2>7. QED
    BY <2>5, <2>6
<1>9. todo'[c] = {} <=> step'[c] = "idle"
  BY <1>1, <1>5
<1>10. QED
  BY <1>6, <1>7, <1>8, <1>9, InsideCall

\* The fallback bit is set for a pass that has begun.
LEMMA SetFallbackInv ==
  ASSUME IInv, NEW c \in Contexts, SetFallback(c)
  PROVE  IInv'
<1>1. step[c] = "toggle" /\ todo[c] # {} /\ ForceWakeTypeOK
  BY DEF IInv, CallsHaveDomains, SetFallback
<1>2. current(c) \in Domains
  BY <1>1, CurrentIsLeft
<1>3. c \in Bits /\ Fallback \in Bits /\ c # Fallback
  BY BitsAssumption DEF Bits
<1>4. /\ request' \in [Domains -> SUBSET Bits]
      /\ \A e \in Domains : e # current(c) => request'[e] = request[e]
      /\ \A b \in Bits : b \in request'[current(c)] <=>
           IF b \in {Fallback} THEN b \in {Fallback} ELSE b \in request[current(c)]
  BY <1>1, <1>2, <1>3, MaskedBits DEF SetFallback
<1>5. step'[c] = "read" /\ current(c)' = current(c)
  BY <1>1, CurrentStays DEF ForceWakeTypeOK, SetFallback
<1>6. ForceWakeTypeOK'
  BY <1>1, <1>4 DEF ForceWakeTypeOK, SetFallback
<1>7. Elsewhere(c)
  <2>1. \A b \in Contexts \ {c} : b \in Bits \ {Fallback}
    BY BitsAssumption DEF Bits
  <2>2. QED
    BY <1>1, <1>4, <2>1 DEF ForceWakeTypeOK, Elsewhere, SetFallback
<1>8. ASSUME NEW d \in Domains
      PROVE  /\ IF Requested(c, d)' THEN (c \in request'[d]) = set'[c]
                                    ELSE Settled(c, d)'
             /\ Fallback \in request'[d] =>
                  Toggling(c, d)' \/ (Fallback \in request[d] /\ ~Toggling(c, d))
  <2>1. Requested(c, d)' = Requested(c, d)
    BY <1>1, <1>5 DEF Requested
  <2>2. (c \in request'[d] <=> c \in request[d]) /\ set' = set /\ held' = held /\ ack' = ack
    BY <1>3, <1>4 DEF SetFallback
  <2>3. IF Requested(c, d) THEN (c \in request[d]) = set[c] ELSE Settled(c, d)
    BY DEF IInv, BitsAgree
  <2>4. Fallback \in request'[d] =>
          Toggling(c, d)' \/ (Fallback \in request[d] /\ ~Toggling(c, d))
    BY <1>1, <1>4, <1>5 DEF Toggling
  <2>5. CASE Requested(c, d)
    BY <2>1, <2>2, <2>3, <2>4, <2>5
  <2>6. CASE ~Requested(c, d)
    <3>1. Settled(c, d)'
      BY <2>2, <2>3, <2>6 DEF Settled
    <3>2. QED
      BY <2>1, <2>4, <2>6, <3>1
  <2>7. QED
    BY <2>5, <2>6
<1>9. (todo'[c] = {} <=> step'[c] = "idle") /\ ack' = ack
  BY <1>1, <1>5 DEF SetFallback
<1>10. QED
  BY <1>6, <1>7, <1>8, <1>9, InsideCall

\* The poll of the own bit ends the wait, or the fallback begins.
LEMMA PollInv ==
  ASSUME IInv, NEW c \in Contexts, Poll(c)
  PROVE  IInv'
<1>1. step[c] = "poll" /\ UNCHANGED <<request, ack, set, panicked>> /\ ForceWakeTypeOK
  BY DEF IInv, Poll
<1>2. CASE Acknowledged(c) /\ NextDomain(c)
  BY <1>1, <1>2, NextDomainInv DEF ForceWakeTypeOK
<1>3. CASE /\ step' = [step EXCEPT ![c] = "toggle"]
           /\ pass' = [pass EXCEPT ![c] = 1]
           /\ UNCHANGED <<todo, held>>
  <2>1. pass' \in [Contexts -> 0..Passes]
    BY <1>1, <1>3, PassesAssumption DEF ForceWakeTypeOK
  <2>2. QED
    BY <1>1, <1>3, <2>1, WaitInv
<1>4. QED
  BY <1>2, <1>3 DEF Poll

\* The end of a pass clears the fallback bit, whatever was read.
LEMMA ClearFallbackInv ==
  ASSUME IInv, NEW c \in Contexts, ClearFallback(c)
  PROVE  IInv'
<1>1. /\ step[c] = "read" /\ UNCHANGED <<ack, set, panicked>> /\ ForceWakeTypeOK
      /\ WriteMasked(current(c), {Fallback}, {})
  BY DEF IInv, ClearFallback
<1>2. CASE Acknowledged(c) /\ NextDomain(c)
  BY <1>1, <1>2, NextDomainInv DEF ForceWakeTypeOK
<1>3. CASE /\ pass[c] < Passes
           /\ pass' = [pass EXCEPT ![c] = @ + 1]
           /\ step' = [step EXCEPT ![c] = "toggle"]
           /\ UNCHANGED <<todo, held>>
  <2>1. pass' \in [Contexts -> 0..Passes]
    BY <1>1, <1>3, PassesAssumption DEF ForceWakeTypeOK
  <2>2. QED
    BY <1>1, <1>3, <2>1, WaitInv
<1>4. CASE step' = [step EXCEPT ![c] = "last"] /\ UNCHANGED <<pass, todo, held>>
  <2>1. pass' \in [Contexts -> 0..Passes]
    BY <1>1, <1>4 DEF ForceWakeTypeOK
  <2>2. QED
    BY <1>1, <1>4, <2>1, WaitInv
<1>5. QED
  BY <1>2, <1>3, <1>4 DEF ClearFallback

\* The last poll ends the wait, or the machine stops.
LEMMA LastPollInv ==
  ASSUME IInv, NEW c \in Contexts, LastPoll(c)
  PROVE  IInv'
<1>1. step[c] = "last" /\ UNCHANGED <<request, ack, set>> /\ ForceWakeTypeOK
  BY DEF IInv, LastPoll
<1>2. CASE Acknowledged(c) /\ NextDomain(c) /\ UNCHANGED panicked
  BY <1>1, <1>2, NextDomainInv DEF ForceWakeTypeOK
<1>3. CASE panicked' = TRUE /\ UNCHANGED <<step, todo, pass, held>>
  <2>1. ForceWakeTypeOK'
    BY <1>1, <1>3 DEF ForceWakeTypeOK
  <2>2. CallsHaveDomains' /\ BitsAgree' /\ FallbackReleased'
    BY <1>1, <1>3 DEF IInv, CallsHaveDomains, BitsAgree, Requested, Settled, current,
                      FallbackReleased, Toggling
  <2>3. QED
    BY <2>1, <2>2 DEF IInv
<1>4. QED
  BY <1>2, <1>3 DEF LastPoll

\* The hardware only acknowledges what is not settled.
LEMMA AcknowledgeInv ==
  ASSUME IInv, NEW d \in Domains, NEW b \in Bits, Acknowledge(d, b)
  PROVE  IInv'
<1>1. UNCHANGED <<request, step, set, todo, pass, held, panicked>>
  BY DEF Acknowledge
<1>2. ForceWakeTypeOK'
  BY <1>1 DEF IInv, ForceWakeTypeOK, Acknowledge
<1>3. CallsHaveDomains' /\ FallbackReleased'
  BY <1>1 DEF IInv, CallsHaveDomains, FallbackReleased, Toggling, current
<1>4. ASSUME NEW c \in Contexts, NEW e \in Domains
      PROVE  IF Requested(c, e)' THEN (c \in request'[e]) = set'[c]
                                 ELSE Settled(c, e)'
  <2>1. Requested(c, e)' = Requested(c, e)
    BY <1>1 DEF Requested, current
  <2>2. IF Requested(c, e) THEN (c \in request[e]) = set[c] ELSE Settled(c, e)
    BY DEF IInv, BitsAgree
  <2>3. CASE Requested(c, e)
    BY <1>1, <2>1, <2>2, <2>3
  <2>4. CASE ~Requested(c, e)
    <3>1. Settled(c, e)
      BY <2>2, <2>4
    <3>2. c # b \/ e # d
      BY <3>1 DEF Settled, Acknowledge
    <3>3. c \in ack'[e] <=> c \in ack[e]
      BY <3>2 DEF IInv, ForceWakeTypeOK, Acknowledge
    <3>4. Settled(c, e)'
      BY <1>1, <3>1, <3>3 DEF Settled
    <3>5. QED
      BY <2>1, <2>4, <3>4
  <2>5. QED
    BY <2>3, <2>4
<1>5. BitsAgree'
  BY <1>4 DEF BitsAgree
<1>6. QED
  BY <1>2, <1>3, <1>5 DEF IInv

\* No step leaves the invariant.
LEMMA StepInv == IInv /\ [ForceWakeNext]_forceWakeVars => IInv'
<1>1. ASSUME IInv, UNCHANGED forceWakeVars PROVE IInv'
  BY <1>1 DEF forceWakeVars, IInv, ForceWakeTypeOK, CallsHaveDomains, BitsAgree, Requested, Settled,
              current, FallbackReleased, Toggling
<1>2. QED
  BY <1>1, CallInv, WriteRequestInv, PollInv, SetFallbackInv, ClearFallbackInv,
     LastPollInv, AcknowledgeInv DEF ForceWakeNext, forceWake

\* For all domains, contexts and limits; the fairness of the specification is
\* not needed.
THEOREM InductiveInvariant == ForceWakeSpec => []IInv
<1>1. QED
  BY InitInv, StepInv, PTL DEF ForceWakeSpec

-----------------------------------------------------------------------------
\* Results

\* Between its calls of forceWake a driver has exactly the domains awake that it
\* asked for and did not release, whatever the other context did to the same
\* registers and however many acknowledgements had to be provoked.
THEOREM DomainsStayAwake == ForceWakeSpec => []AwakeWhileHeld
<1>1. IInv => AwakeWhileHeld
  BY DEF IInv, BitsAgree, Requested, Settled, AwakeWhileHeld
<1>2. QED
  BY <1>1, InductiveInvariant, PTL

\* forceWakeWaitAckFallback leaves the shared fallback bit set in no domain,
\* on none of its ways out.
THEOREM FallbackIsReleased == ForceWakeSpec => []FallbackReleased
<1>1. IInv => FallbackReleased
  BY DEF IInv
<1>2. QED
  BY <1>1, InductiveInvariant, PTL
-----------------------------------------------------------------------------
(* NGFX: calls of PreSubmit.                                               *)

\* The three parts of the patch come together, and without the prologue.
PatchWhole ==
  /\ prologue \in BOOLEAN /\ routed \in BOOLEAN
  /\ routed => ~prologue
  /\ orgVaddrPreSubmit <=> routed
  /\ presubmitBase <=> routed
  /\ ngfxPc \in {"kext", "solve"} => prologue
  /\ ngfxPc = "route" => ~routed /\ ~prologue

\* A call that was put back says where its function has the address space, and
\* leads to the trampoline.
CallsMarked ==
  /\ symbols \subseteq Sites
  /\ siteRegister \in [Sites -> Registers]
  /\ restored \in [Sites -> Registers \cup {None}]
  /\ \A s \in Sites : restored[s] # None => restored[s] = siteRegister[s] /\ routed

\* The wrapper is called for its caller, before the prologue has been executed.
CallUnderWay ==
  /\ ngfxPc = "wrapper" => routed /\ frames = 0 /\ that = caller
  /\ ngfxPc \in {"prepare", "submit"} => routed /\ frames = 1 /\ that = caller
  /\ ngfxPc = "return" /\ (prologue \/ routed) => frames = 1 /\ that = caller

NgfxInv == PatchWhole /\ CallsMarked /\ CallUnderWay

\* While the patches are made PreSubmit is not called.
LEMMA NgfxPatchInv ==
  ASSUME NgfxInv, ResolveFifo \/ ReplacePrologue \/ RoutePreSubmit \/ RestoreCall
  PROVE  NgfxInv'
<1>1. CASE ResolveFifo \/ ReplacePrologue
  <2>1. PatchWhole'
    <3>1. UNCHANGED <<routed, orgVaddrPreSubmit, presubmitBase>>
      BY <1>1 DEF ResolveFifo, ReplacePrologue, patches
    <3>2. CASE ResolveFifo
      <4>1. UNCHANGED prologue /\ ngfxPc = "kext"
        BY <3>2 DEF ResolveFifo, patches
      <4>2. ngfxPc' \in {"solve", "running"}
        BY <3>2 DEF ResolveFifo
      <4>3. QED
        BY <3>1, <4>1, <4>2 DEF NgfxInv, PatchWhole
    <3>3. CASE ReplacePrologue
      <4>1. ngfxPc = "solve"
        BY <3>3 DEF ReplacePrologue
      <4>2. \/ ngfxPc' = "sites" /\ UNCHANGED prologue
            \/ ngfxPc' = "route" /\ prologue' = FALSE
        BY <3>3 DEF ReplacePrologue
      <4>3. QED
        BY <3>1, <4>1, <4>2 DEF NgfxInv, PatchWhole
    <3>4. QED
      BY <1>1, <3>2, <3>3
  <2>2. CallsMarked'
    BY <1>1 DEF NgfxInv, PatchWhole, CallsMarked, ResolveFifo, ReplacePrologue,
                patches, machine
  <2>3. CallUnderWay'
    BY <1>1 DEF CallUnderWay, ResolveFifo, ReplacePrologue
  <2>4. QED
    BY <2>1, <2>2, <2>3 DEF NgfxInv
<1>2. CASE RoutePreSubmit
  <2>1. PatchWhole'
    <3>1. UNCHANGED prologue /\ ngfxPc = "route" /\ ngfxPc' = "sites"
      BY <1>2 DEF RoutePreSubmit
    <3>2. \/ UNCHANGED <<routed, orgVaddrPreSubmit, presubmitBase>>
          \/ routed' = TRUE /\ orgVaddrPreSubmit' = TRUE /\ presubmitBase' = TRUE
      BY <1>2 DEF RoutePreSubmit
    <3>3. ~prologue
      BY <3>1 DEF NgfxInv, PatchWhole
    <3>4. CASE UNCHANGED <<routed, orgVaddrPreSubmit, presubmitBase>>
      BY <3>1, <3>3, <3>4 DEF NgfxInv, PatchWhole
    <3>5. CASE routed' = TRUE /\ orgVaddrPreSubmit' = TRUE /\ presubmitBase' = TRUE
      BY <3>1, <3>3, <3>5 DEF NgfxInv, PatchWhole
    <3>6. QED
      BY <3>2, <3>4, <3>5
  <2>2. CallsMarked'
    BY <1>2 DEF NgfxInv, PatchWhole, CallsMarked, RoutePreSubmit, machine
  <2>3. CallUnderWay'
    BY <1>2 DEF CallUnderWay, RoutePreSubmit
  <2>4. QED
    BY <2>1, <2>2, <2>3 DEF NgfxInv
<1>3. CASE RestoreCall
  <2>1. UNCHANGED <<prologue, routed, orgVaddrPreSubmit, presubmitBase, siteRegister>>
        /\ ngfxPc' \in {"sites", "running"} /\ symbols' \subseteq symbols
    BY <1>3 DEF RestoreCall, machine
  <2>2. CASE CanRestore
    <3>1. routed
      BY <2>2 DEF CanRestore, NgfxInv, PatchWhole
    <3>2. PICK s \in Sites :
            restored' \in {restored, [restored EXCEPT ![s] = siteRegister[s]]}
      <4>1. symbols \subseteq Sites
        BY DEF NgfxInv, CallsMarked
      <4>2. QED
        BY <1>3, <2>2, <4>1 DEF RestoreCall
    <3>3. siteRegister[s] \in Registers
      BY DEF NgfxInv, CallsMarked
    <3>4. CallsMarked'
      BY <2>1, <3>1, <3>2, <3>3 DEF NgfxInv, CallsMarked
    <3>5. PatchWhole'
      BY <2>1 DEF NgfxInv, PatchWhole
    <3>6. CallUnderWay'
      BY <2>1 DEF CallUnderWay
    <3>7. QED
      BY <3>4, <3>5, <3>6 DEF NgfxInv
  <2>3. CASE ~CanRestore
    <3>1. restored' = restored
      BY <1>3, <2>3 DEF RestoreCall
    <3>2. QED
      BY <2>1, <3>1 DEF NgfxInv, PatchWhole, CallsMarked, CallUnderWay
  <2>4. QED
    BY <2>2, <2>3
<1>4. QED
  BY <1>1, <1>2, <1>3

\* A call arrives with its own address space: only routed calls have a mark, and it
\* is the right one.
LEMMA PreSubmitInv == ASSUME NgfxInv, PreSubmit PROVE NgfxInv'
<1>1. PICK who \in {"driver"} \cup {s \in Sites : restored[s] # None} :
        /\ caller' = who
        /\ frames' = IF who = "driver" /\ prologue THEN 1 ELSE 0
        /\ IF routed
           THEN that' = AddressSpace(who) /\ ngfxPc' = "wrapper"
           ELSE that' = (IF who = "driver" THEN who ELSE None) /\ ngfxPc' = "return"
  BY DEF PreSubmit
<1>2. UNCHANGED <<prologue, routed, orgVaddrPreSubmit, presubmitBase, restored,
                  siteRegister, symbols>>
  BY DEF PreSubmit, machine, patches
<1>3. PatchWhole' /\ CallsMarked'
  <2>1. ngfxPc' \in {"wrapper", "return"}
    BY <1>1
  <2>2. QED
    BY <1>2, <2>1 DEF NgfxInv, PatchWhole, CallsMarked
<1>4. CASE routed
  <2>1. AddressSpace(who) = who
    BY <1>1 DEF AddressSpace, NgfxInv, CallsMarked
  <2>2. frames' = 0 /\ that' = caller' /\ ngfxPc' = "wrapper"
    BY <1>1, <1>4, <2>1 DEF NgfxInv, PatchWhole
  <2>3. QED
    BY <1>2, <1>3, <1>4, <2>2 DEF NgfxInv, CallUnderWay
<1>5. CASE ~routed
  <2>1. who = "driver"
    BY <1>1, <1>5 DEF NgfxInv, CallsMarked
  <2>2. QED
    BY <1>1, <1>2, <1>3, <1>5, <2>1 DEF NgfxInv, CallUnderWay
<1>6. QED
  BY <1>4, <1>5

\* The wrapper executes the prologue once, and the call returns.
LEMMA NgfxCallInv ==
  ASSUME NgfxInv, Original \/ Prepare \/ Submit \/ Return \/ UNCHANGED ngfxVars
  PROVE  NgfxInv'
<1>1. UNCHANGED <<prologue, routed, orgVaddrPreSubmit, presubmitBase, restored,
                  siteRegister, symbols>>
  BY DEF Original, Prepare, Submit, Return, machine, patches, ngfxVars
<1>2. PatchWhole'
  BY <1>1 DEF NgfxInv, PatchWhole, Original, Prepare, Submit, Return, ngfxVars
<1>3. CallsMarked'
  BY <1>1 DEF NgfxInv, CallsMarked
<1>4. CallUnderWay'
  BY <1>1 DEF NgfxInv, PatchWhole, CallUnderWay, Original, Prepare, Submit, Return,
              call, ngfxVars
<1>5. QED
  BY <1>2, <1>3, <1>4 DEF NgfxInv

\* For any functions and registers, and whichever lookups, patches and routes fail:
\* a call of PreSubmit executes one prologue and works on the address space of its
\* caller, and no call is put back that does not lead to the trampoline.
THEOREM PreSubmitIsWhole == NgfxSpec => []CallsAreWhole
<1>1. NgfxInit => NgfxInv
  BY DEF NgfxInit, NgfxInv, PatchWhole, CallsMarked, CallUnderWay
<1>2. NgfxInv /\ [NgfxNext]_ngfxVars => NgfxInv'
  BY NgfxPatchInv, PreSubmitInv, NgfxCallInv DEF NgfxNext
<1>3. NgfxInv => CallsAreWhole
  BY DEF NgfxInv, PatchWhole, CallsMarked, CallUnderWay, CallsAreWhole
<1>4. QED
  BY <1>1, <1>2, <1>3, PTL DEF NgfxSpec

-----------------------------------------------------------------------------
\* The loading of GuC firmware

\* Abbreviations that every step sees through.
USE DEF boot, memory, pointers, images, history, Blocks

Loading == pc \in {"allocate", "copy", "address", "upload"}
WithFirmware == pc \in {"copy", "address", "upload"}

\* The flag is set exactly while the hooked driver loads its firmware and is not
\* inside of initSchedControl.
FlagKnown ==
  /\ pc # "kernel" => mode # "unknown"
  /\ pc \in {"kernel", "kext"} => hooks = "none"
  /\ ~Loading /\ pc # "return" => ~performing
  /\ saved # Null => Loading /\ ~performing /\ saved = (hooks # "none")
  /\ Loading /\ saved = Null => performing = (hooks # "none")

\* One buffer may point elsewhere: the firmware's, from its allocation to the
\* look-up of its address.
Exchanged ==
  /\ WithFirmware => firmware \in mine
  /\ real # Null => /\ pc \in {"copy", "address"} /\ hooks = "all"
                    /\ real = firmware
                    /\ dummy \in heap
                    /\ data[firmware] = dummy
  /\ \A b \in live : b # real => data[b] = b

\* A dummy stays for each exchange under way or given up.
DummiesCounted ==
  /\ IsFiniteSet(heap)
  /\ Cardinality(heap) <= unwritable + (IF real = Null THEN 0 ELSE 1)

\* What is next to the firmware, and in its buffer, after each step of a load.
ImageKnown ==
  /\ signature = size
  /\ hooks # "all" => signature = "apple" /\ ~replaced
  /\ WithFirmware => /\ FirmwareSize["apple"] <= room[firmware]
                     /\ replaced => /\ FirmwareSize["generic"] <= room[firmware]
                                    /\ content[firmware] = "generic"
                                    /\ signature = "generic"
                                    /\ pc # "upload" => real = firmware
                     /\ ~replaced => /\ real = Null
                                     /\ ~spoiled => signature = "apple"
                                     /\ pc # "copy" => content[firmware] = "apple"

\* The GPU has firmware only after a load.
GpuKnown == /\ gpu # NoFirmware => pc \in {"return", "awake"}
            /\ RunsWholeImage

FirmwareInv == /\ TypeOK /\ FlagKnown /\ Exchanged /\ DummiesCounted /\ ImageKnown
        /\ GpuKnown

-----------------------------------------------------------------------------
\* Room for either image is left in a buffer of the new size.
LEMMA NewSizeFits ==
  ASSUME SizesAssumption, NEW s \in Requests
  PROVE  /\ NewSize(s) \in Nat
         /\ FirmwareSize["apple"] <= NewSize(s)
         /\ FirmwareSize["generic"] <= NewSize(s)
<1> DEFINE n == FirmwareSize["generic"]
           m == n + Alignment - 1
           q == m \div Alignment
<1>1. n \in Nat /\ FirmwareSize["apple"] \in Nat /\ s \in Nat
      /\ FirmwareSize["apple"] <= s /\ Alignment \in Nat \ {0} /\ m \in Nat
  BY DEF SizesAssumption
<1>2. q \in Nat /\ m < (q + 1) * Alignment
  <2> HIDE DEF m
  <2>1. QED
    BY <1>1 DEF q
<1>3. (q + 1) * Alignment = q * Alignment + Alignment
  <2> HIDE DEF q
  <2>1. QED
    BY <1>1, <1>2
<1>4. RoundUp(n) = q * Alignment
  BY DEF RoundUp
<1>5. q * Alignment \in Nat /\ n <= q * Alignment
  <2> HIDE DEF q, n
  <2>1. q * Alignment \in Nat
    BY <1>1, <1>2
  <2> DEFINE a == q * Alignment
  <2>2. QED
    <3>1. a \in Nat /\ m < a + Alignment
      BY <1>2, <1>3, <2>1
    <3> HIDE DEF a
    <3>2. n <= a
      BY <1>1, <3>1 DEF m
    <3>3. QED
      BY <2>1, <3>2 DEF a
<1>6. QED
  BY <1>1, <1>4, <1>5 DEF NewSize

\* The invariant holds when the machine starts.
LEMMA FirmwareInitInv == ASSUME BoundAssumption, Init PROVE FirmwareInv
<1>0. TypeOK
  <2>1. /\ data \in [Buffers -> Blocks] /\ room \in [Buffers -> Nat]
        /\ content \in [Blocks -> {"none", "apple", "generic"}]
    BY DEF Init
  <2>2. sleeps \in 0..MaxSleeps
    BY DEF Init, BoundAssumption
  <2>3. QED
    BY <2>1, <2>2 DEF Init, TypeOK
<1>1. FlagKnown /\ Exchanged /\ ImageKnown /\ GpuKnown
  BY DEF Init, FlagKnown, Exchanged, ImageKnown, GpuKnown, Loading,
         WithFirmware, RunsWholeImage
<1>2. DummiesCounted
  BY FS_EmptySet DEF Init, DummiesCounted
<1>3. QED
  BY <1>0, <1>1, <1>2 DEF FirmwareInv

\* Start-up only chooses the mode and the hooks.
LEMMA StartInv ==
  ASSUME FirmwareInv, ProcessKernel \/ loadIGScheduler4Patches \/ applyDevelopmentPatches
  PROVE  FirmwareInv'
<1>1. TypeOK'
  <2>1. CASE applyDevelopmentPatches
    <3>1. mode \in {"disable", "generic", "apple"}
      BY <2>1 DEF FirmwareInv, TypeOK, FlagKnown, applyDevelopmentPatches
    <3>2. scheduler' \in {1, 2, 4, 5}
      BY <2>1, <3>1 DEF applyDevelopmentPatches
    <3>3. QED
      BY <2>1, <3>2 DEF FirmwareInv, TypeOK, applyDevelopmentPatches
  <2>2. QED
    BY <2>1 DEF FirmwareInv, TypeOK, ProcessKernel, loadIGScheduler4Patches
<1>2. FlagKnown' /\ Exchanged' /\ DummiesCounted' /\ ImageKnown' /\ GpuKnown'
  BY DEF FirmwareInv, TypeOK, FlagKnown, Exchanged, DummiesCounted, ImageKnown, GpuKnown,
         Loading, WithFirmware, RunsWholeImage, ProcessKernel,
         loadIGScheduler4Patches, applyDevelopmentPatches
<1>3. QED
  BY <1>1, <1>2 DEF FirmwareInv

\* A load begins, at start or after a sleep, with every buffer in its place.
LEMMA BeginInv ==
  ASSUME FirmwareInv, wrapLoadFirmware \/ wrapSystemDidWake PROVE FirmwareInv'
<1>1. pc' = "allocate" /\ performing' = (hooks # "none") /\ saved' = saved
      /\ hooks' = hooks /\ mode' = mode /\ pc \in {"started", "asleep"}
  BY DEF wrapLoadFirmware, wrapSystemDidWake, wrapLoadGuCBinary
<1>2. FlagKnown'
  BY <1>1 DEF FirmwareInv, TypeOK, FlagKnown, Loading
<1>3. TypeOK'
  BY <1>1 DEF FirmwareInv, TypeOK, wrapLoadFirmware, wrapSystemDidWake, wrapLoadGuCBinary
<1>4. Exchanged' /\ DummiesCounted' /\ ImageKnown' /\ GpuKnown'
  BY <1>1 DEF FirmwareInv, Exchanged, DummiesCounted, ImageKnown, GpuKnown,
         WithFirmware, RunsWholeImage, wrapLoadFirmware, wrapSystemDidWake
<1>5. QED
  BY <1>2, <1>3, <1>4 DEF FirmwareInv

\* The driver asks for the firmware's buffer, which is exchanged if everything
\* that this takes is there.
LEMMA AllocateFirmwareInv ==
  ASSUME NullAssumption, SizesAssumption, FirmwareInv, AllocateFirmware PROVE FirmwareInv'
<1>1. PICK s \in Requests, b \in Buffers \cup {Null}, d \in Dummies \cup {Null},
           writable \in BOOLEAN :
        /\ wrapIgBufferWithOptions(s, b, d, writable)
        /\ firmware' = b
        /\ mine' = IF b = Null THEN mine ELSE mine \cup {b}
        /\ pc' = IF b = Null THEN "return" ELSE "copy"
  BY DEF AllocateFirmware
<1>2. /\ pc = "allocate" /\ saved = Null /\ real = Null
      /\ performing = (hooks # "none")
      /\ \A x \in live : data[x] = x
      /\ UNCHANGED <<mojave, mode, scheduler, hooks, performing, saved, gpu, sleeps>>
      /\ gpu = NoFirmware
  <2>1. pc = "allocate" /\ saved = Null
        /\ UNCHANGED <<mojave, mode, scheduler, hooks, performing, saved, gpu, sleeps>>
    BY DEF AllocateFirmware
  <2>2. real = Null /\ performing = (hooks # "none") /\ gpu = NoFirmware
    BY <2>1 DEF FirmwareInv, FlagKnown, Exchanged, GpuKnown, Loading
  <2>3. \A x \in live : data[x] = x
    BY <2>2 DEF FirmwareInv, TypeOK, Exchanged, NullAssumption
  <2>4. QED
    BY <2>1, <2>2, <2>3
<1>3. FlagKnown'
  BY <1>1, <1>2 DEF FirmwareInv, FlagKnown, Loading
<1>4. GpuKnown'
  BY <1>2 DEF GpuKnown, RunsWholeImage, NoFirmware
<1>5. CASE Filtering
  <2> DEFINE replaces == b # Null /\ d # Null /\ writable
  <2>1. /\ d \in (Dummies \ heap) \cup {Null}
        /\ b # Null => /\ Allocate(b, NewSize(s))
        /\ b = Null => UNCHANGED <<live, room, data, content>>
        /\ heap' = IF b # Null THEN heap \cup ({d} \ {Null}) ELSE heap
        /\ dummy' = IF b # Null THEN d ELSE Null
        /\ replaced' = replaces
        /\ spoiled' = (~replaces /\ signature = "generic")
    BY <1>1, <1>5 DEF wrapIgBufferWithOptions
  <2>2. replaces => /\ real' = b
                    /\ data' = [data EXCEPT ![b] = d]
                    /\ content' = [content EXCEPT ![b] = "generic", ![d] = "none"]
                    /\ signature' = "generic" /\ size' = "generic"
                    /\ unwritable' = unwritable
    BY <1>1, <1>5 DEF wrapIgBufferWithOptions
  <2>3. ~replaces =>
          /\ b # Null => Fresh(b)
          /\ unwritable' = IF b # Null /\ d # Null THEN unwritable + 1 ELSE unwritable
          /\ UNCHANGED <<real, signature, size>>
    BY <1>1, <1>5 DEF wrapIgBufferWithOptions
  <2>4. NewSize(s) \in Nat
    BY NewSizeFits
  <2> HIDE DEF replaces
  <2>5. TypeOK'
    <3>1. /\ data' \in [Buffers -> Blocks]
          /\ content' \in [Blocks -> {"none", "apple", "generic"}]
          /\ real' \in Blocks \cup {Null}
          /\ signature' \in {"apple", "generic"} /\ size' \in {"apple", "generic"}
          /\ unwritable' \in Nat
      BY <2>1, <2>2, <2>3 DEF FirmwareInv, TypeOK, Fresh, replaces
    <3>2. /\ room' \in [Buffers -> Nat]
          /\ live' \subseteq Buffers /\ mine' \subseteq live'
      BY <1>1, <2>1, <2>4 DEF FirmwareInv, TypeOK, Allocate
    <3>3. replaced' \in BOOLEAN /\ spoiled' \in BOOLEAN
      BY <2>1 DEF replaces
    <3>4. /\ heap' \subseteq Dummies /\ dummy' \in Dummies \cup {Null}
          /\ firmware' \in Buffers \cup {Null}
          /\ pc' \in {"return", "copy"}
      BY <1>1, <2>1 DEF FirmwareInv, TypeOK
    <3>5. QED
      BY <1>2, <3>1, <3>2, <3>3, <3>4 DEF FirmwareInv, TypeOK
  <2>6. Exchanged'
    <3>1. CASE replaces
      BY <1>1, <1>2, <1>5, <2>1, <2>2, <3>1
         DEF replaces, Exchanged, FirmwareInv, TypeOK, Allocate, WithFirmware, Filtering,
             NullAssumption
    <3>2. CASE ~replaces
      BY <1>1, <1>2, <2>1, <2>3, <3>2
         DEF Exchanged, FirmwareInv, TypeOK, Allocate, Fresh, WithFirmware
    <3>3. QED
      BY <3>1, <3>2
  <2>7. DummiesCounted'
    <3>1. IsFiniteSet(heap) /\ Cardinality(heap) \in Nat
          /\ Cardinality(heap) <= unwritable /\ unwritable \in Nat
      BY <1>2, FS_CardinalityType DEF FirmwareInv, DummiesCounted, TypeOK
    <3>2. CASE b # Null /\ d # Null
      <4>1. heap' = heap \cup {d} /\ d \notin heap
        BY <2>1, <3>2
      <4>2. IsFiniteSet(heap') /\ Cardinality(heap') = Cardinality(heap) + 1
        BY <3>1, <4>1, FS_AddElement
      <4>3. replaces => real' # Null
        BY <2>2, <3>2
      <4>4. CASE replaces
        BY <2>2, <3>1, <4>2, <4>3, <4>4 DEF DummiesCounted
      <4>5. CASE ~replaces
        BY <1>2, <2>3, <3>1, <3>2, <4>2, <4>5 DEF DummiesCounted
      <4>6. QED
        BY <4>4, <4>5
    <3>3. CASE ~(b # Null /\ d # Null)
      <4>1. heap' = heap
        BY <2>1, <3>3
      <4>2. ~replaces
        BY <3>3 DEF replaces
      <4>3. UNCHANGED <<unwritable, real>>
        BY <2>3, <3>3, <4>2
      <4>4. QED
        BY <1>2, <3>1, <4>1, <4>3 DEF DummiesCounted
    <3>4. QED
      BY <3>2, <3>3
  <2>8. ImageKnown'
    <3>1. CASE replaces
      BY <1>1, <1>2, <1>5, <2>1, <2>2, <3>1, NewSizeFits
         DEF replaces, ImageKnown, FirmwareInv, TypeOK, Allocate, WithFirmware, Filtering,
             NullAssumption
    <3>2. CASE ~replaces
      BY <1>1, <1>2, <1>5, <2>1, <2>3, <3>2, NewSizeFits
         DEF ImageKnown, FirmwareInv, TypeOK, Allocate, WithFirmware, Filtering
    <3>3. QED
      BY <3>1, <3>2
  <2>9. QED
    BY <1>3, <1>4, <2>5, <2>6, <2>7, <2>8 DEF FirmwareInv
<1>6. CASE ~Filtering
  <2>1. /\ b # Null => Allocate(b, s) /\ Fresh(b)
        /\ b = Null => UNCHANGED <<live, room, data, content>>
        /\ UNCHANGED <<dummy, real, heap, signature, size, replaced, spoiled,
                       unwritable>>
    BY <1>1, <1>6 DEF wrapIgBufferWithOptions
  <2>2. s \in Nat /\ FirmwareSize["apple"] <= s
    BY DEF SizesAssumption
  <2>3. TypeOK'
    <3>1. /\ data' \in [Buffers -> Blocks] /\ room' \in [Buffers -> Nat]
          /\ content' \in [Blocks -> {"none", "apple", "generic"}]
          /\ live' \subseteq Buffers /\ mine' \subseteq live'
      BY <1>1, <2>1, <2>2 DEF FirmwareInv, TypeOK, Allocate, Fresh
    <3>2. firmware' \in Buffers \cup {Null} /\ pc' \in {"return", "copy"}
      BY <1>1
    <3>3. QED
      BY <1>2, <2>1, <3>1, <3>2 DEF FirmwareInv, TypeOK
  <2>4. Exchanged' /\ DummiesCounted'
    BY <1>1, <1>2, <2>1
       DEF Exchanged, DummiesCounted, FirmwareInv, TypeOK, Allocate, Fresh, WithFirmware
  <2>5. ImageKnown'
    <3>1. hooks # "all"
      BY <1>2, <1>6 DEF Filtering
    <3>2. QED
      BY <1>1, <1>2, <2>1, <2>2, <3>1
         DEF ImageKnown, FirmwareInv, TypeOK, Allocate, WithFirmware
  <2>6. QED
    BY <1>3, <1>4, <2>3, <2>4, <2>5 DEF FirmwareInv
<1>7. QED
  BY <1>5, <1>6

\* Apple's binary is copied to where the buffer points.
LEMMA CopyBinaryInv == ASSUME NullAssumption, FirmwareInv, CopyBinary PROVE FirmwareInv'
<1>1. /\ firmware \in Buffers /\ data[firmware] \in Blocks
      /\ real # Null => data[firmware] \in Dummies
      /\ real = Null => data[firmware] = firmware
  BY DEF CopyBinary, FirmwareInv, TypeOK, Exchanged, WithFirmware, NullAssumption
<1>2. TypeOK' /\ FlagKnown' /\ Exchanged' /\ DummiesCounted' /\ GpuKnown'
  BY <1>1 DEF CopyBinary, FirmwareInv, TypeOK, FlagKnown, Exchanged, DummiesCounted,
         GpuKnown, Loading, WithFirmware, RunsWholeImage
<1>3. ImageKnown'
  BY <1>1 DEF CopyBinary, FirmwareInv, TypeOK, ImageKnown, WithFirmware, NullAssumption
<1>4. QED
  BY <1>2, <1>3 DEF FirmwareInv

\* The address is looked up, and the buffer is put back.
LEMMA GetAddressInv == ASSUME NullAssumption, FirmwareInv, GetAddress PROVE FirmwareInv'
<1>1. /\ pc = "address" /\ saved = Null /\ pc' = "upload"
      /\ wrapIgBufferGetGpuVirtualAddress(firmware)
      /\ UNCHANGED <<mojave, mode, scheduler, hooks, performing, saved, live, room,
                     content, mine, firmware, signature, size, replaced, spoiled,
                     unwritable, gpu, sleeps>>
  BY DEF GetAddress
<1>2. FlagKnown' /\ GpuKnown'
  BY <1>1 DEF FirmwareInv, FlagKnown, GpuKnown, Loading, RunsWholeImage
<1>3. CASE real # Null
  <2>1. Filtering /\ real = firmware /\ dummy \in heap
    BY <1>1, <1>3 DEF FirmwareInv, FlagKnown, Exchanged, Loading, Filtering
  <2>2. /\ data' = [data EXCEPT ![firmware] = real]
        /\ heap' = heap \ {dummy}
        /\ real' = Null /\ dummy' = Null
    BY <1>1, <1>3, <2>1 DEF wrapIgBufferGetGpuVirtualAddress
  <2>3. TypeOK'
    <3>1. data' \in [Buffers -> Blocks]
      BY <1>3, <2>2 DEF FirmwareInv, TypeOK
    <3>2. heap' \subseteq Dummies
      BY <2>2 DEF FirmwareInv, TypeOK
    <3>3. QED
      BY <1>1, <2>2, <3>1, <3>2 DEF FirmwareInv, TypeOK
  <2>4. Exchanged'
    BY <1>1, <2>1, <2>2 DEF FirmwareInv, TypeOK, Exchanged, WithFirmware
  <2>5. DummiesCounted'
    <3>1. IsFiniteSet(heap) /\ Cardinality(heap) \in Nat /\ unwritable \in Nat
          /\ Cardinality(heap) <= unwritable + 1
      BY <1>3, FS_CardinalityType DEF FirmwareInv, DummiesCounted, TypeOK
    <3>2. IsFiniteSet(heap') /\ Cardinality(heap') = Cardinality(heap) - 1
      BY <2>1, <2>2, <3>1, FS_RemoveElement
    <3>3. QED
      BY <1>1, <2>2, <3>1, <3>2 DEF DummiesCounted
  <2>6. ImageKnown'
    BY <1>1, <1>3, <2>2 DEF FirmwareInv, ImageKnown, WithFirmware
  <2>7. QED
    BY <1>2, <2>3, <2>4, <2>5, <2>6 DEF FirmwareInv
<1>4. CASE real = Null
  <2>1. UNCHANGED <<data, dummy, real, heap>>
    BY <1>1, <1>4 DEF wrapIgBufferGetGpuVirtualAddress
  <2>2. TypeOK' /\ Exchanged' /\ DummiesCounted'
    BY <1>1, <1>4, <2>1 DEF FirmwareInv, TypeOK, Exchanged, DummiesCounted, WithFirmware
  <2>3. ImageKnown'
    BY <1>1, <1>4, <2>1 DEF FirmwareInv, TypeOK, Exchanged, ImageKnown, WithFirmware,
       NullAssumption
  <2>4. QED
    BY <1>2, <2>2, <2>3 DEF FirmwareInv
<1>5. QED
  BY <1>3, <1>4

\* The GPU gets what the buffer, the signature and the size say.
LEMMA UploadInv == ASSUME FirmwareInv, Upload PROVE FirmwareInv'
<1>1. TypeOK' /\ FlagKnown' /\ Exchanged' /\ DummiesCounted' /\ ImageKnown'
  BY DEF Upload, FirmwareInv, TypeOK, FlagKnown, Exchanged, DummiesCounted, ImageKnown,
         Loading, WithFirmware
<1>2. GpuKnown'
  BY DEF Upload, FirmwareInv, TypeOK, ImageKnown, GpuKnown, WithFirmware, RunsWholeImage
<1>3. QED
  BY <1>1, <1>2 DEF FirmwareInv

\* The load and initSchedControl set and clear the flag.
LEMMA FlagInv ==
  ASSUME NullAssumption, FirmwareInv, LoadDone \/ InitSchedControl \/ InitSchedControlDone
  PROVE  FirmwareInv'
<1>1. FlagKnown'
  BY DEF LoadDone, InitSchedControl, InitSchedControlDone, FirmwareInv, TypeOK, FlagKnown,
         Loading, NullAssumption
<1>2. TypeOK'
  <2>1. performing' \in BOOLEAN /\ saved' \in BOOLEAN \cup {Null}
    BY DEF LoadDone, InitSchedControl, InitSchedControlDone, FirmwareInv, TypeOK
  <2>2. pc' \in {pc, "awake"}
    BY DEF LoadDone, InitSchedControl, InitSchedControlDone
  <2>3. UNCHANGED <<boot, pointers, memory, firmware, images, history, sleeps>>
    BY DEF LoadDone, InitSchedControl, InitSchedControlDone
  <2>4. QED
    BY <2>1, <2>2, <2>3 DEF FirmwareInv, TypeOK
<1>3. Exchanged' /\ DummiesCounted' /\ ImageKnown' /\ GpuKnown'
  BY DEF LoadDone, InitSchedControl, InitSchedControlDone, FirmwareInv, Exchanged,
         DummiesCounted, ImageKnown, GpuKnown, WithFirmware, RunsWholeImage
<1>4. QED
  BY <1>1, <1>2, <1>3 DEF FirmwareInv

\* A sleep loses what the GPU runs, nothing else.
LEMMA SleepInv == ASSUME BoundAssumption, FirmwareInv, Sleep PROVE FirmwareInv'
<1>1. TypeOK'
  <2>1. sleeps' \in 0..MaxSleeps
    BY DEF Sleep, FirmwareInv, TypeOK, BoundAssumption
  <2>2. QED
    BY <2>1 DEF Sleep, FirmwareInv, TypeOK
<1>2. FlagKnown' /\ Exchanged' /\ DummiesCounted' /\ ImageKnown' /\ GpuKnown'
  BY DEF Sleep, FirmwareInv, FlagKnown, Exchanged, DummiesCounted, ImageKnown, GpuKnown,
         Loading, WithFirmware, RunsWholeImage, NoFirmware
<1>3. QED
  BY <1>1, <1>2 DEF FirmwareInv

\* The wrappers leave other buffers alone: those that initSchedControl takes, and
\* those that clients take while no firmware is loaded.
LEMMA NotFiltering ==
  ASSUME FirmwareInv, saved # Null \/ Quiet PROVE ~Filtering
  BY DEF FirmwareInv, FlagKnown, Loading, Quiet, Filtering

LEMMA AllocateOtherInv ==
  ASSUME SizesAssumption, NullAssumption, FirmwareInv, ~Filtering,
         NEW s \in Requests, NEW b \in (Buffers \ live) \cup {Null},
         NEW d \in Dummies \cup {Null}, NEW writable \in BOOLEAN,
         wrapIgBufferWithOptions(s, b, d, writable),
         mine' = mine \/ (b # Null /\ mine' = mine \cup {b}),
         UNCHANGED <<pc, boot, performing, saved, firmware, gpu, sleeps>>
  PROVE  FirmwareInv'
<1>1. /\ b # Null => Allocate(b, s) /\ Fresh(b)
      /\ b = Null => UNCHANGED <<live, room, data, content>>
      /\ UNCHANGED <<pointers, heap, images, history>>
  BY DEF wrapIgBufferWithOptions
<1>2. TypeOK'
  <2>1. /\ data' \in [Buffers -> Blocks] /\ room' \in [Buffers -> Nat]
        /\ content' \in [Blocks -> {"none", "apple", "generic"}]
        /\ live' \subseteq Buffers /\ mine' \subseteq live'
    BY <1>1 DEF SizesAssumption, FirmwareInv, TypeOK, Allocate, Fresh
  <2>2. QED
    BY <1>1, <2>1 DEF FirmwareInv, TypeOK
<1>3. FlagKnown' /\ DummiesCounted' /\ GpuKnown'
  BY <1>1 DEF FirmwareInv, FlagKnown, DummiesCounted, GpuKnown, Loading, RunsWholeImage
<1>4. WithFirmware => firmware \in live /\ firmware # b
  BY DEF FirmwareInv, TypeOK, Exchanged, NullAssumption
<1>5. Exchanged'
  BY <1>1, <1>4 DEF FirmwareInv, TypeOK, Exchanged, WithFirmware, Allocate, Fresh
<1>6. ImageKnown'
  BY <1>1, <1>4 DEF FirmwareInv, TypeOK, ImageKnown, WithFirmware, Allocate, Fresh
<1>7. QED
  BY <1>2, <1>3, <1>5, <1>6 DEF FirmwareInv

\* Nothing happens to the invariant when nothing changes.
LEMMA UnchangedInv == ASSUME FirmwareInv, UNCHANGED vars PROVE FirmwareInv'
  BY DEF vars, FirmwareInv, TypeOK, FlagKnown, Exchanged, DummiesCounted, ImageKnown,
         GpuKnown, Loading, WithFirmware, RunsWholeImage

\* No step leaves the invariant.
LEMMA NextInv ==
  ASSUME NullAssumption, SizesAssumption, BoundAssumption, Serial,
         FirmwareInv, [Next]_vars
  PROVE  FirmwareInv'
<1>1. CASE ProcessKernel \/ loadIGScheduler4Patches \/ applyDevelopmentPatches
  BY <1>1, StartInv
<1>2. CASE wrapLoadFirmware \/ wrapSystemDidWake
  BY <1>2, BeginInv
<1>3. CASE AllocateFirmware \/ CopyBinary \/ GetAddress \/ Upload
  BY <1>3, AllocateFirmwareInv, CopyBinaryInv, GetAddressInv, UploadInv
<1>4. CASE LoadDone \/ InitSchedControl \/ InitSchedControlDone
  BY <1>4, FlagInv
<1>5. CASE Sleep
  BY <1>5, SleepInv
<1>6. CASE SchedAllocate
  <2>1. ~Filtering
    BY <1>6, NotFiltering DEF SchedAllocate
  <2>2. PICK b \in Buffers \ live, s \in Requests, d \in Dummies \cup {Null},
             writable \in BOOLEAN :
          /\ wrapIgBufferWithOptions(s, b, d, writable)
          /\ mine' = mine \cup {b}
    BY <1>6 DEF SchedAllocate
  <2>3. b # Null
    BY DEF NullAssumption, Blocks
  <2>4. UNCHANGED <<pc, boot, performing, saved, firmware, gpu, sleeps>>
    BY <1>6 DEF SchedAllocate
  <2>5. QED
    BY <2>1, <2>2, <2>3, <2>4, AllocateOtherInv
<1>7. CASE ClientAllocate
  <2>1. ~Filtering
    BY <1>7, NotFiltering DEF ClientAllocate
  <2>2. PICK b \in Buffers \ live, s \in Requests, d \in Dummies \cup {Null},
             writable \in BOOLEAN : wrapIgBufferWithOptions(s, b, d, writable)
    BY <1>7 DEF ClientAllocate
  <2>3. UNCHANGED <<pc, boot, performing, saved, mine, firmware, gpu, sleeps>>
    BY <1>7 DEF ClientAllocate
  <2>4. QED
    BY <2>1, <2>2, <2>3, AllocateOtherInv
<1>8. CASE SchedAddress \/ ClientAddress
  <2>1. ~Filtering
    BY <1>8, NotFiltering DEF SchedAddress, ClientAddress
  <2>2. UNCHANGED vars
    BY <1>8, <2>1
       DEF SchedAddress, ClientAddress, wrapIgBufferGetGpuVirtualAddress, vars
  <2>3. QED
    BY <2>2, UnchangedInv
<1>9. CASE ClientRelease
  <2>1. /\ live' \subseteq live /\ mine' = mine /\ mine \subseteq live'
        /\ UNCHANGED <<pc, boot, performing, saved, pointers, heap, data, room,
                       content, firmware, images, history, gpu, sleeps>>
    BY <1>9 DEF ClientRelease, FirmwareInv, TypeOK
  <2>2. TypeOK' /\ FlagKnown' /\ Exchanged' /\ DummiesCounted' /\ ImageKnown' /\ GpuKnown'
    BY <2>1 DEF FirmwareInv, TypeOK, FlagKnown, Exchanged, DummiesCounted, ImageKnown,
         GpuKnown, Loading, WithFirmware, RunsWholeImage
  <2>3. QED
    BY <2>2 DEF FirmwareInv
<1>10. CASE UNCHANGED vars
  BY <1>10, UnchangedInv
<1>11. QED
  BY <1>1, <1>2, <1>3, <1>4, <1>5, <1>6, <1>7, <1>8, <1>9, <1>10 DEF Next

\* For all constants, if clients keep off while firmware is loaded.
THEOREM FirmwareInductiveInvariant ==
  ASSUME NullAssumption, SizesAssumption, BoundAssumption, Serial
  PROVE  Spec => []FirmwareInv
<1>1. Init => FirmwareInv
  BY FirmwareInitInv
<1>2. FirmwareInv /\ [Next]_vars => FirmwareInv'
  BY NextInv
<1>3. QED
  BY <1>1, <1>2, PTL DEF Spec

\* Every firmware that the GPU gets is whole: image, signature and size belong
\* together and fit into the buffer (wrapIgBufferWithOptions), except where a later
\* exchange fails after one that worked.
THEOREM FirmwareIsWhole ==
  ASSUME NullAssumption, SizesAssumption, BoundAssumption, Serial
  PROVE  Spec => []RunsWholeImage
<1>1. Spec => []FirmwareInv
  BY FirmwareInductiveInvariant
<1>2. FirmwareInv => RunsWholeImage
  BY DEF FirmwareInv, GpuKnown
<1>3. QED
  BY <1>1, <1>2, PTL

\* Every buffer is in its place when no firmware is loaded, none ever points to a
\* block that has been freed, and dummies remain only from exchanges given up
\* (wrapIgBufferGetGpuVirtualAddress).
THEOREM BuffersAreRestored ==
  ASSUME NullAssumption, SizesAssumption, BoundAssumption, Serial
  PROVE  Spec => []BuffersRestored
<1>1. Spec => []FirmwareInv
  BY FirmwareInductiveInvariant
<1>2. ASSUME FirmwareInv PROVE BuffersRestored
  <2>1. \A b \in live : data[b] \in {b} \cup heap
    BY <1>2 DEF FirmwareInv, TypeOK, Exchanged, NullAssumption
  <2>2. ASSUME Quiet
        PROVE  /\ \A b \in live : data[b] = b
               /\ real = Null
               /\ Cardinality(heap) <= unwritable
    <3>1. real = Null
      BY <1>2, <2>2 DEF FirmwareInv, Exchanged, Quiet
    <3>2. \A b \in live : data[b] = b
      BY <1>2, <3>1 DEF FirmwareInv, TypeOK, Exchanged, NullAssumption
    <3>3. Cardinality(heap) <= unwritable
      BY <1>2, <3>1, FS_CardinalityType DEF FirmwareInv, TypeOK, DummiesCounted
    <3>4. QED
      BY <3>1, <3>2, <3>3
  <2>3. QED
    BY <2>1, <2>2 DEF BuffersRestored
<1>3. QED
  BY <1>1, <1>2, PTL
==============================================================================
