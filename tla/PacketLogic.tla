----------------------------- MODULE PacketLogic -----------------------------
(***************************************************************************)
(* The verdict on a packet: chain_decide, decide and the entry point of    *)
(* C/arbitrator/packet_logic.c.                                            *)
(*                                                                         *)
(* Chain 0 is the default chain.  Whether a packet passes the filter of    *)
(* another chain is the constant Matches; which state a chain is in and    *)
(* what its random numbers are is one nondeterministic draw per chain.     *)
(* Two draws of a table (SplitLinear) or of the logarithm differ only in   *)
(* the delay they give, so a draw names the delay.                         *)
(***************************************************************************)
EXTENDS Integers, FiniteSets, Timeval

CONSTANTS Kinds,         \* packets, as far as filters and payload tell them apart
          EmptyPackets,  \* those without a payload
          NumChains,     \* data->num_chains
          Matches,       \* packet |-> the chains whose filter it passes
          ChainDelays,   \* delays in milliseconds that a state can draw
          MaxRelease     \* bound on release times, and here on the clock

ASSUME PacketLogicAssumption ==
  /\ NumChains \in Nat /\ EmptyPackets \subseteq Kinds
  /\ Matches \in [Kinds -> SUBSET (1 .. NumChains - 1)]
  /\ ChainDelays \subseteq Nat /\ MaxRelease \in Nat

VARIABLES
  last_packet_release_time,  \* per chain; sec = 0 and usec = 0 when unset
  verdict,                   \* of the packet decided last
  chain_verdicts             \* history: what each chain that took part said

logicVars == <<now, last_packet_release_time, verdict, chain_verdicts>>

Chains == 0 .. NumChains - 1

(* The outcome of the draws of a chain: which_prob against drop_prob and   *)
(* delay_prob, the delay function, and do_a_stable_delay_prob.             *)
Draws == [action : {"DROP", "ACCEPT"}, delay : {0}, stable : {FALSE}]
           \cup [action : {"DELAY"}, delay : ChainDelays, stable : BOOLEAN]

NoDraw == [action |-> "ACCEPT", delay |-> 0, stable |-> FALSE]

Accept(flag) == [action |-> "ACCEPT", delay_len |-> 0, flag |-> flag]

TruncDiv(a, b) == IF a >= 0 THEN a \div b ELSE -((-a) \div b)

(* Mutant: the seconds are forgotten. *)
StableDelayNoSeconds(last, t, delay) ==
  LET len == TruncDiv(AddDelay(last, delay).usec - t.usec, UsecPerMsec)
  IN  IF len < 0 THEN 0 ELSE len

(***************************************************************************)
(* packet_logic.c:443-508: the delay of a packet drawn to be delayed at    *)
(* time t, when the chain's last packet was to leave at last.              *)
(***************************************************************************)
StableDelay(last, t, delay) ==
  LET last_tv == AddDelay(last, delay)
      len == (last_tv.sec - t.sec) * (UsecPerSec \div UsecPerMsec)
               + TruncDiv(last_tv.usec - t.usec, UsecPerMsec)
  IN  IF len < 0 THEN 0 ELSE len

ChainDelay(chain, t, draw) ==
  LET last == last_packet_release_time[chain]
      from == IF last.sec = 0 THEN t ELSE last
  IN  IF draw.stable THEN StableDelay(from, t, draw.delay) ELSE draw.delay

(* The answer of a chain whose filter the packet passes (the default chain *)
(* has none), and the chain's new release time.                            *)
chain_decide(chain, t, draw) ==
  CASE draw.action = "DROP"   -> [Accept("PROCESSED") EXCEPT !.action = "DROP"]
    [] draw.action = "DELAY"  -> [action |-> "DELAY", flag |-> "PROCESSED",
                                  delay_len |-> ChainDelay(chain, t, draw)]
    [] draw.action = "ACCEPT" -> Accept("PROCESSED")

(* Mutant: the drawn delay is added, stable or not. *)
NewReleaseTimeDrawn(chain, t, draw) ==
  IF draw.action = "DELAY" THEN AddDelay(t, draw.delay)
                           ELSE last_packet_release_time[chain]

NewReleaseTime(chain, t, draw) ==
  IF draw.action = "DELAY"
    THEN AddDelay(t, ChainDelay(chain, t, draw))
    ELSE last_packet_release_time[chain]

(* Mutant: a delay takes the place of the delays before it, or of a drop.  *)
AccumulateLast(global, chain) ==
  CASE chain.action = "DROP" ->
         [global EXCEPT !.action = "DROP", !.flag = "PROCESSED"]
    [] chain.action = "DELAY" -> chain
    [] chain.action = "ACCEPT" ->
         IF chain.flag = "PROCESSED" THEN [global EXCEPT !.flag = "PROCESSED"]
                                     ELSE global

(* One round of decide's loop: the verdict so far and the next chain's.    *)
Accumulate(global, chain) ==
  CASE chain.action = "DROP" ->
         [global EXCEPT !.action = "DROP", !.flag = "PROCESSED"]
    [] chain.action = "DELAY" /\ global.action = "DROP" -> global
    [] chain.action = "DELAY" /\ global.action = "DELAY" ->
         [global EXCEPT !.delay_len = @ + chain.delay_len]
    [] chain.action = "DELAY" /\ global.action = "ACCEPT" -> chain
    [] chain.action = "ACCEPT" ->
         IF chain.flag = "PROCESSED" THEN [global EXCEPT !.flag = "PROCESSED"]
                                     ELSE global

(* The verdict of chains 1 .. n, given what each of them says.             *)
GlobalVerdict(says) ==
  LET upto[n \in 0 .. Cardinality(DOMAIN says)] ==
        IF n = 0 THEN Accept("UNPROCESSED") ELSE Accumulate(upto[n - 1], says[n])
  IN  upto[Cardinality(DOMAIN says)]

(* A delay of 0 is no delay. *)
ZeroDelayIsAccept(v) ==
  IF v.action = "DELAY" /\ v.delay_len = 0
    THEN [v EXCEPT !.action = "ACCEPT"] ELSE v

-----------------------------------------------------------------------------
NoVerdict == Accept("UNPROCESSED")

LogicInit ==
  /\ now = UsecPerSec  \* not 0: a tv_sec of 0 means "unset"
  /\ last_packet_release_time = [c \in Chains |-> [sec |-> 0, usec |-> 0]]
  /\ verdict = NoVerdict
  /\ chain_verdicts = <<>>

(* decide: every chain but the default one speaks, whatever the others     *)
(* said; the default one speaks for a packet nobody processed.             *)
decide(m) ==
  \E draw \in [Matches[m] -> Draws] :
    LET t == TimevalOf(now)
        says == [c \in Chains \ {0} |->
                   IF c \in Matches[m] THEN chain_decide(c, t, draw[c])
                                       ELSE Accept("UNPROCESSED")]
        global == GlobalVerdict(says)
        default == global.flag = "UNPROCESSED" /\ NumChains > 0
        spoke == Matches[m] \cup IF default THEN {0} ELSE {}
    IN  \E default_draw \in IF default THEN Draws ELSE {NoDraw} :
          LET drawn == [c \in spoke |-> IF c = 0 THEN default_draw ELSE draw[c]]
          IN  /\ verdict' = ZeroDelayIsAccept(
                              IF default THEN chain_decide(0, t, drawn[0])
                                         ELSE global)
              /\ chain_verdicts' = [c \in spoke |->
                                      [says   |-> chain_decide(c, t, drawn[c]),
                                       stable |-> drawn[c].stable]]
              /\ last_packet_release_time' =
                   [c \in Chains |-> IF c \in spoke
                                       THEN NewReleaseTime(c, t, drawn[c])
                                       ELSE last_packet_release_time[c]]

(* ..._packet_logic_decide_what_to_do_with_packet: a packet without data   *)
(* is accepted unseen.                                                     *)
decide_what_to_do_with_packet(m) ==
  \/ /\ m \notin EmptyPackets
     /\ decide(m)
  \/ /\ m \in EmptyPackets
     /\ verdict' = Accept("UNPROCESSED")
     /\ chain_verdicts' = <<>>
     /\ UNCHANGED last_packet_release_time

(* On its own, the packet logic judges packets at any time. *)
Decide ==
  /\ \E m \in Kinds :
       /\ \/ m \in EmptyPackets
          \/ \A c \in Chains : Microseconds(last_packet_release_time[c]) < MaxRelease
       /\ decide_what_to_do_with_packet(m)
  /\ UNCHANGED now

LogicTick ==
  /\ now < MaxRelease
  /\ now' = now + 1
  /\ UNCHANGED <<last_packet_release_time, verdict, chain_verdicts>>

LogicNext == Decide \/ LogicTick

LogicSpec == LogicInit /\ [][LogicNext]_logicVars

-----------------------------------------------------------------------------
LogicTypeOK ==
  /\ last_packet_release_time \in [Chains -> Timevals]
  /\ verdict.action \in {"ACCEPT", "DROP", "DELAY"} /\ verdict.delay_len \in Nat

(* The sum of the delays in answers, those of the chains that took part.    *)
TotalDelay(answers) ==
  LET sum[n \in 0 .. NumChains] ==
        IF n = 0 THEN 0
        ELSE sum[n - 1] + IF n - 1 \in DOMAIN answers
                            THEN answers[n - 1].says.delay_len ELSE 0
  IN  sum[NumChains]

(* The rules of Docs/Users_Guide/main.html, "How the Arbitration is Done": *)
(* each chain can veto the verdict to a drop; if none does, the delay is   *)
(* the sum of the chains' delays, an accept counting as a delay of 0.      *)
VerdictFollowsRules ==
  LET total == TotalDelay(chain_verdicts)
  IN  IF \E c \in DOMAIN chain_verdicts : chain_verdicts[c].says.action = "DROP"
        THEN verdict.action = "DROP"
        ELSE IF total > 0 THEN verdict.action = "DELAY" /\ verdict.delay_len = total
                          ELSE verdict.action = "ACCEPT"

(* A chain's answer does not depend on the others: it keeps its release    *)
(* time also for a packet that another chain drops (packet_logic.c:545).   *)
(* Every chain the packet passes to moves its own clock, and no other.     *)
EachChainKeepsItsTime ==
  [][\A c \in Chains :
       IF c \in DOMAIN chain_verdicts' /\ chain_verdicts'[c].says.action = "DELAY"
         THEN Microseconds(last_packet_release_time'[c]) =
                now + chain_verdicts'[c].says.delay_len * UsecPerMsec
         ELSE UNCHANGED last_packet_release_time[c]]_<<last_packet_release_time,
                                                        chain_verdicts>>

(* A stable delay is counted from the release of the chain's last packet,  *)
(* in whole milliseconds: the release times that a chain gives stably step *)
(* back by less than a millisecond, across second boundaries too.          *)
StableDrift ==
  [][\A c \in DOMAIN chain_verdicts' :
       LET old == last_packet_release_time[c]
           new == Microseconds(last_packet_release_time'[c])
       IN  /\ chain_verdicts'[c].says.action = "DELAY"
           /\ chain_verdicts'[c].stable
           /\ old.sec # 0
           => new + UsecPerMsec > Microseconds(old)]_<<last_packet_release_time,
                                                       chain_verdicts>>
=============================================================================
