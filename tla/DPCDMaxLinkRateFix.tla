-------------------------- MODULE DPCDMaxLinkRateFix --------------------------
(***************************************************************************)
(* The maximum link rate fix of IGFX.  ReadAUX of the framebuffer driver   *)
(* is wrapped: what the built-in panel reports as its maximum link rate is *)
(* replaced by the user's value, or by one that is looked for in the link  *)
(* rate table of the panel and remembered once it is found.                *)
(* The wrapper leaves its arguments in members of the submodule, where     *)
(* each later step of the call finds them; here a step is one access of    *)
(* the display.                                                            *)
(***************************************************************************)
EXTENDS Integers, Sequences, FiniteSetsExt

CONSTANTS Threads,     \* callers of ReadAUX
          Displays,    \* by framebuffer index; 0 is the built-in panel
          Reported,    \* maximum link rate that a display reports
          Users,       \* values of dpcd-max-link-rate, None without it
          Panels,      \* eDP version and link rate table of the panel
          Serial,      \* does a call begin only after the others have ended?
          None

VARIABLES user, panel,
          maxLinkRate,   \* the user's or the remembered rate, or 0
          display,       \* displayPath, framebuffer or port of the last call
          ratePc,        \* per thread
          args,          \* its arguments: display and address
          rate           \* byte 1 of its buffer, None while it is not written
rateVars == <<user, panel, maxLinkRate, display, ratePc, args, rate>>

Addresses == {"caps", "other"}    \* 0x0000 and 0x2200, and any other one

ASSUME UsersAssumption == Users \subseteq Nat \cup {None} /\ None \notin Nat

ASSUME DisplaysAssumption == 0 \in Displays /\ Reported \in [Displays -> Nat]

\* 3 stands for eDP 1.4; a rate of the table is a multiple of 200 kHz in 16 bits
LargestEntry == 65535
ASSUME PanelsAssumption ==
  \A p \in Panels : /\ p.version \in Nat
                    /\ p.rates \in Seq(0..LargestEntry) /\ Len(p.rates) <= 8

RateTypeOK == /\ user \in Users /\ panel \in Panels
              /\ maxLinkRate \in Nat
              /\ display \in Displays \cup {None}
              /\ ratePc \in [Threads -> {"idle", "read", "index", "version", "rates", "done"}]
              /\ args \in [Threads -> [display : Displays, address : Addresses]]
              /\ rate \in [Threads -> Nat \cup {None}]

verifyLinkRateValue(r) == IF r \in {30, 20, 12, 10, 6} THEN r ELSE 0

RateInit == /\ user \in Users /\ panel \in Panels
            /\ maxLinkRate = IF user = None THEN 0 ELSE verifyLinkRateValue(user)
            /\ display = None
            /\ ratePc = [t \in Threads |-> "idle"]
            /\ args = [t \in Threads |-> [display |-> 0, address |-> "other"]]
            /\ rate = [t \in Threads |-> None]

Proceed(t, label) == ratePc' = [ratePc EXCEPT ![t] = label]

\* wrapCFLReadAUX, wrapICLReadAUX
ReadAUX(t) ==
  /\ ratePc[t] = "idle"
  /\ Serial => \A u \in Threads : ratePc[u] = "idle"
  /\ \E d \in Displays, a \in Addresses :
       /\ args' = [args EXCEPT ![t] = [display |-> d, address |-> a]]
       /\ display' = d
  /\ rate' = [rate EXCEPT ![t] = None]
  /\ Proceed(t, "read")
  /\ UNCHANGED <<user, panel, maxLinkRate>>

\* orgReadAUX on the caller's buffer, which may fail; then the address is
\* looked at, whether it has failed or not.
OriginalRead(t) ==
  /\ ratePc[t] = "read"
  /\ rate' \in {rate, [rate EXCEPT ![t] = Reported[display]]}
  /\ Proceed(t, IF args[t].address = "caps" THEN "index" ELSE "done")
  /\ UNCHANGED <<user, panel, maxLinkRate, display, args>>

\* Mutated form of IsBuiltin: the index of the framebuffer does not matter.
IsAny(d) == d \in Displays

IsBuiltin(d) == d = 0

\* getFramebufferIndex may fail, too.
FramebufferIndex(t) ==
  /\ ratePc[t] = "index"
  /\ \/ /\ Proceed(t, "done")
        /\ UNCHANGED rate
     \/ /\ ~IsBuiltin(display)
        /\ Proceed(t, "done")
        /\ UNCHANGED rate
     \/ /\ IsBuiltin(display) /\ maxLinkRate # 0
        /\ rate' = [rate EXCEPT ![t] = maxLinkRate]
        /\ Proceed(t, "done")
     \/ /\ IsBuiltin(display) /\ maxLinkRate = 0
        /\ Proceed(t, "version")
        /\ UNCHANGED rate
  /\ UNCHANGED <<user, panel, maxLinkRate, display, args>>

\* probeMaxLinkRate has returned r, which is remembered (0 is no rate).
Probed(t, r) ==
  /\ rate' = [rate EXCEPT ![t] = r]
  /\ maxLinkRate' = r
  /\ Proceed(t, "done")

ReadVersion(t) ==
  /\ ratePc[t] = "version"
  /\ \/ Probed(t, 0)
     \/ panel.version < 3 /\ Probed(t, 0)
     \/ panel.version >= 3 /\ Proceed(t, "rates") /\ UNCHANGED <<rate, maxLinkRate>>
  /\ UNCHANGED <<user, panel, display, args>>

\* An entry of the table in units of 0.27 GHz
LinkRate(entry) == (entry * 200) \div 270000

\* The loop over the table, after i of its entries.  A 0 ends it; the table may be
\* unsorted.
LargestRate(rates) ==
  LET last[i \in 0..Len(rates)] ==
        IF i = 0 THEN 0
        ELSE IF (\E j \in 1..i : rates[j] = 0) \/ LinkRate(rates[i]) <= last[i - 1]
             THEN last[i - 1] ELSE LinkRate(rates[i])
  IN last[Len(rates)]

ReadRates(t) ==
  /\ ratePc[t] = "rates"
  /\ \/ Probed(t, 0)
     \/ Probed(t, verifyLinkRateValue(LargestRate(panel.rates)))
  /\ UNCHANGED <<user, panel, display, args>>

ReadAUXReturns(t) == /\ ratePc[t] = "done"
             /\ Proceed(t, "idle")
             /\ UNCHANGED <<user, panel, maxLinkRate, display, args, rate>>

RateNext == \E t \in Threads : \/ ReadAUX(t) \/ OriginalRead(t) \/ FramebufferIndex(t)
                               \/ ReadVersion(t) \/ ReadRates(t) \/ ReadAUXReturns(t)

RateSpec == RateInit /\ [][RateNext]_rateVars

-----------------------------------------------------------------------------
\* Rates that the driver can use: 8.1, 5.4, 3.24, 2.7 and 1.62 Gbps.
Supported == {6, 10, 12, 20, 30}

\* The largest rate of the panel's table up to its first 0, in units of 0.27 Gbps,
\* or 0 when the driver cannot use it or the panel has no table.
PanelRate ==
  LET listed == {i \in DOMAIN panel.rates : \A j \in 1..i : panel.rates[j] # 0}
      largest == Max({panel.rates[i] : i \in listed} \cup {0}) \div 1350
  IN IF panel.version >= 3 /\ largest \in Supported THEN largest ELSE 0

BuiltinRate == IF user \in Supported THEN user ELSE PanelRate

\* The driver never sees a rate of another display: an external display keeps the
\* rate it reported, whatever is read before or between, and the built-in panel
\* gets, when it does not keep its own, exactly the rate that the user or its
\* table asks for; only if a read of the table has failed it is 0, and that 0 is
\* not taken for a rate by later calls.
RateIsOwn ==
  /\ \A t \in Threads :
       ratePc[t] = "done" =>
         \/ rate[t] \in {None, Reported[args[t].display]}
         \/ /\ args[t] = [display |-> 0, address |-> "caps"]
            /\ rate[t] \in {0, BuiltinRate}
            /\ rate[t] = 0 => maxLinkRate = 0
  /\ maxLinkRate \in {0, BuiltinRate}
===============================================================================
