------------------------------ MODULE ForceWake ------------------------------
(***************************************************************************)
(* The force wake workaround: forceWake replaces the accelerator's         *)
(* SafeForceWakeMultithreaded.  A call sets or clears the wake bit of its  *)
(* context in the request register of each power domain and waits for the  *)
(* hardware's acknowledgement.  One that does not come is provoked by      *)
(* toggling a spare bit (the fallback), a limited number of times; after   *)
(* that the machine panics.  Contexts run on different processors and      *)
(* share the registers of a domain, the fallback bit included.             *)
(***************************************************************************)
EXTENDS Integers, FiniteSets

CONSTANTS Domains,    \* FORCEWAKE_DOM_BITS, in the order of their bits
          Contexts,   \* 1: thread in a spinlock's critical section, 2: interrupt
          Fallback,   \* FORCEWAKE_KERNEL_FALLBACK, a bit of every register
          Passes      \* limit of the fallback's loop (10)

ASSUME DomainsAssumption == Domains \subseteq Nat /\ IsFiniteSet(Domains)
ASSUME BitsAssumption == Fallback \notin Contexts
ASSUME PassesAssumption == Passes \in Nat \ {0}

Bits == Contexts \cup {Fallback}

VARIABLES request,    \* request[d]: bits that are set in regForDom(d)
          ack,        \* ack[d]: bits that are set in ackForDom(d)
          step,       \* step[c]: what the call of context c does next
          set,        \* set[c]: does the call wake (or release) its domains?
          todo,       \* todo[c]: domains that the call has not finished
          pass,       \* pass[c]: passes of the fallback begun
          held,       \* held[c]: domains that c woke and did not release since
          panicked
forceWakeVars == <<request, ack, step, set, todo, pass, held, panicked>>

ForceWakeTypeOK ==
  /\ request \in [Domains -> SUBSET Bits]
  /\ ack \in [Domains -> SUBSET Bits]
  /\ step \in [Contexts -> {"idle", "write", "poll", "toggle", "read", "last"}]
  /\ set \in [Contexts -> BOOLEAN]
  /\ todo \in [Contexts -> SUBSET Domains]
  /\ pass \in [Contexts -> 0..Passes]
  /\ held \in [Contexts -> SUBSET Domains]
  /\ panicked \in BOOLEAN

ForceWakeInit ==
  /\ request = [d \in Domains |-> {}]
  /\ ack = [d \in Domains |-> {}]
  /\ step = [c \in Contexts |-> "idle"]
  /\ set = [c \in Contexts |-> FALSE]
  /\ todo = [c \in Contexts |-> {}]
  /\ pass = [c \in Contexts |-> 0]
  /\ held = [c \in Contexts |-> {}]
  /\ panicked = FALSE

\* Mutated form of WriteMasked: the written value replaces the register.
WriteUnmasked(d, mask, value) ==
  request' = [request EXCEPT ![d] = value \cap mask]

\* A register takes over only the bits that the mask in its upper half names.
\* masked_field, fw_set and fw_clear build such values.
WriteMasked(d, mask, value) ==
  request' = [request EXCEPT ![d] = (@ \ mask) \cup (value \cap mask)]

\* The loop visits the domains in ascending order of their bits.
current(c) == CHOOSE d \in todo[c] : \A e \in todo[c] : d <= e

\* (rd & mask) == val for the bit of context c
Acknowledged(c) == (c \in ack[current(c)]) = set[c]

\* The accelerator calls forceWake for some domains.
Call(c) ==
  /\ step[c] = "idle"
  /\ \E s \in BOOLEAN, dom \in (SUBSET Domains) \ {{}} :
       /\ set' = [set EXCEPT ![c] = s]
       /\ todo' = [todo EXCEPT ![c] = dom]
  /\ step' = [step EXCEPT ![c] = "write"]
  /\ UNCHANGED <<request, ack, pass, held, panicked>>

WriteRequest(c) ==
  /\ step[c] = "write"
  /\ WriteMasked(current(c), {c}, IF set[c] THEN {c} ELSE {})
  /\ step' = [step EXCEPT ![c] = "poll"]
  /\ UNCHANGED <<ack, set, todo, pass, held, panicked>>

\* Go on with the next domain, or return.
NextDomain(c) ==
  /\ todo' = [todo EXCEPT ![c] = @ \ {current(c)}]
  /\ step' = [step EXCEPT ![c] = IF todo[c] = {current(c)} THEN "idle" ELSE "write"]
  /\ held' = [held EXCEPT ![c] = IF set[c] THEN @ \cup {current(c)}
                                           ELSE @ \ {current(c)}]
  /\ pass' = [pass EXCEPT ![c] = 0]

\* pollRegister on the own bit; without a match it goes on until its deadline,
\* and the last read decides.
Poll(c) ==
  /\ step[c] = "poll"
  /\ \/ /\ Acknowledged(c)
        /\ NextDomain(c)
     \/ /\ ~Acknowledged(c)
        /\ step' = [step EXCEPT ![c] = "toggle"]
        /\ pass' = [pass EXCEPT ![c] = 1]
        /\ UNCHANGED <<todo, held>>
  /\ UNCHANGED <<request, ack, set, panicked>>

\* One pass of forceWakeWaitAckFallback.  Its polls of the fallback's own
\* acknowledgement only give the hardware time: the results are not used.
SetFallback(c) ==
  /\ step[c] = "toggle"
  /\ WriteMasked(current(c), {Fallback}, {Fallback})
  /\ step' = [step EXCEPT ![c] = "read"]
  /\ UNCHANGED <<ack, set, todo, pass, held, panicked>>

\* Mutated form of ClearFallback: the passes are not counted.
ClearFallbackForever(c) ==
  /\ step[c] = "read"
  /\ WriteMasked(current(c), {Fallback}, {})
  /\ \/ /\ Acknowledged(c)
        /\ NextDomain(c)
     \/ /\ ~Acknowledged(c)
        /\ step' = [step EXCEPT ![c] = "toggle"]
        /\ UNCHANGED <<pass, todo, held>>
  /\ UNCHANGED <<ack, set, panicked>>

\* The second half of a pass: the own acknowledgement is read once, and the
\* fallback bit is cleared whatever was read.
ClearFallback(c) ==
  /\ step[c] = "read"
  /\ WriteMasked(current(c), {Fallback}, {})
  /\ \/ /\ Acknowledged(c)
        /\ NextDomain(c)
     \/ /\ ~Acknowledged(c)
        /\ \/ /\ pass[c] < Passes
              /\ pass' = [pass EXCEPT ![c] = @ + 1]
              /\ step' = [step EXCEPT ![c] = "toggle"]
           \/ /\ pass[c] = Passes
              /\ step' = [step EXCEPT ![c] = "last"]
              /\ UNCHANGED pass
        /\ UNCHANGED <<todo, held>>
  /\ UNCHANGED <<ack, set, panicked>>

\* The poll after the fallback has failed: the last chance before PANIC.
LastPoll(c) ==
  /\ step[c] = "last"
  /\ \/ /\ Acknowledged(c)
        /\ NextDomain(c)
        /\ UNCHANGED panicked
     \/ /\ ~Acknowledged(c)
        /\ panicked' = TRUE
        /\ UNCHANGED <<step, todo, pass, held>>
  /\ UNCHANGED <<request, ack, set>>

forceWake(c) == WriteRequest(c) \/ Poll(c) \/ SetFallback(c) \/ ClearFallback(c)
                \/ LastPoll(c)

\* The hardware acknowledges a bit, at any time or never.
Acknowledge(d, b) ==
  /\ (b \in ack[d]) # (b \in request[d])
  /\ ack' = [ack EXCEPT ![d] = IF b \in request[d] THEN @ \cup {b} ELSE @ \ {b}]
  /\ UNCHANGED <<request, step, set, todo, pass, held, panicked>>

ForceWakeNext ==
  /\ ~panicked
  /\ \/ \E c \in Contexts : Call(c) \/ forceWake(c)
     \/ \E d \in Domains, b \in Bits : Acknowledge(d, b)

\* A call is straight-line code with polls that end at a deadline, in a context
\* that is not preempted.  Nothing is asked of the hardware.
Fairness == \A c \in Contexts : WF_forceWakeVars(~panicked /\ forceWake(c))

ForceWakeSpec == ForceWakeInit /\ [][ForceWakeNext]_forceWakeVars /\ Fairness

-----------------------------------------------------------------------------
\* Properties

\* The driver may touch a power domain from the return of a call that woke it
\* until it calls again to release it: as long as a context is not inside a
\* call, the hardware keeps acknowledging exactly the domains which that context
\* holds, whatever calls of the other context do to the same registers, and
\* however acknowledgements were lost and provoked on the way.
AwakeWhileHeld ==
  \A c \in Contexts : step[c] = "idle" /\ ~panicked =>
    \A d \in Domains : (c \in ack[d]) = (d \in held[c])

\* A context is inside a pass of the fallback for domain d.
Toggling(c, d) == step[c] = "read" /\ d = current(c)

\* The fallback bit is the one bit that both contexts write: it is never left
\* behind in a domain for which no pass is under way, or the next call's toggle
\* would toggle nothing.
FallbackReleased ==
  \A d \in Domains : Fallback \in request[d] => \E c \in Contexts : Toggling(c, d)

\* However silent the hardware is, a call returns or panics.
CallsEnd == \A c \in Contexts : step[c] # "idle" ~> step[c] = "idle" \/ panicked
==============================================================================
