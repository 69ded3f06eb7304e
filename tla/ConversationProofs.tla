------------------------- MODULE ConversationProofs -------------------------
(***************************************************************************)
(* The components of a conversation keep their promises, for every value   *)
(* of their constants: the reply limit of a Slack thread; the Telegram     *)
(* frontend's sessions, albums, menus and approval cards; a session's      *)
(* permission questions; the dialogs of a terminal; and the model a person *)
(* pins.  The last section puts together those that a person answers, as   *)
(* MCConversation explores them.                                           *)
(***************************************************************************)
EXTENDS MCConversation, DeliveryProofs, FiniteSetTheorems, TLAPS

\* Whatever has come this far has arrived, and what ran is no longer owed.
HasCome ==
    /\ seen \subseteq Msgs /\ done \subseteq seen /\ owed \cap done = {}
    /\ ToSet(gated) \subseteq seen /\ ToSet(untagged) \subseteq seen
    /\ \A b \in Buttons : ToSet(drain[b]) \subseteq seen
    /\ \A m \in Msgs : at[m] # "none" => m \in seen

Drained(m) == \E b \in Buttons : InList(drain[b], m)

\* Where an owed message is; one that is being locked is on a list a button still reads.
Safe ==
    \A m \in owed :
        /\ InList(gated, m) \/ InList(untagged, m) \/ at[m] # "none" \/ Drained(m)
        /\ at[m] = "locking" => InList(gated, m) \/ Drained(m)

\* The delay ends before its ceiling, which is MaxHold after the wait began.
NoticeClock ==
    \/ due = NoNotice /\ ceiling = NoNotice /\ wait = 0
    \/ due \in 0..MaxHold /\ ceiling \in due..MaxHold /\ wait = MaxHold - ceiling

\* The count is the number of turns; unless handlers overlapped, at most one is past the
\* gate, and it has a turn left.
Charged ==
    /\ replies = turns
    /\ ~overlap =>
         /\ turns <= ReplyLimit
         /\ Building # {} => turns < ReplyLimit
         /\ \A m, u \in Building : m = u

GateInv == GateTypeOK /\ HasCome /\ Safe /\ NoticeClock /\ HeldBackIsTold /\ Charged

-----------------------------------------------------------------------------
(* Lists.                                                                  *)

LEMMA ListFacts ==
  ASSUME NEW s \in Seq(Msgs), NEW m \in Msgs
  PROVE  /\ ToSet(s) \subseteq Msgs
         /\ Append(s, m) \in Seq(Msgs) /\ Len(Append(s, m)) = Len(s) + 1
         /\ ToSet(Append(s, m)) = ToSet(s) \union {m}
         /\ ToSet(<<m>>) = {m} /\ <<m>> \in Seq(Msgs) /\ Len(<<m>>) = 1
  <1>1. ToSet(s) \subseteq Msgs /\ Append(s, m) \in Seq(Msgs) /\ Len(Append(s, m)) = Len(s) + 1
    BY DEF ToSet
  <1>2. /\ \A i \in 1..Len(s) : Append(s, m)[i] = s[i]
        /\ Append(s, m)[Len(s) + 1] = m
        /\ Len(s) \in Nat
    OBVIOUS
  <1>3. ToSet(Append(s, m)) = ToSet(s) \union {m}
    BY <1>1, <1>2 DEF ToSet
  <1>4. ToSet(<<m>>) = {m} /\ <<m>> \in Seq(Msgs) /\ Len(<<m>>) = 1
    BY DEF ToSet
  <1>5. QED
    BY <1>1, <1>3, <1>4

LEMMA NoList == ToSet(<<>>) = {} /\ <<>> \in Seq(Msgs) /\ Len(<<>>) = 0
  BY DEF ToSet

LEMMA TailFacts ==
  ASSUME NEW s \in Seq(Msgs), s # <<>>
  PROVE  /\ s[1] \in Msgs /\ Tail(s) \in Seq(Msgs) /\ Len(Tail(s)) = Len(s) - 1
         /\ ToSet(s) = {s[1]} \union ToSet(Tail(s))
  <1>1. /\ s[1] \in Msgs /\ Tail(s) \in Seq(Msgs) /\ Len(Tail(s)) = Len(s) - 1
        /\ Len(s) \in Nat \ {0}
        /\ \A i \in 1..(Len(s) - 1) : Tail(s)[i] = s[i + 1]
    OBVIOUS
  <1>2. ASSUME NEW x \in ToSet(s), x # s[1] PROVE x \in ToSet(Tail(s))
    <2>1. PICK i \in 1..Len(s) : s[i] = x
      BY <1>2 DEF ToSet
    <2>2. i - 1 \in DOMAIN Tail(s) /\ Tail(s)[i - 1] = x
      BY <1>1, <1>2, <2>1
    <2>3. QED
      BY <1>1, <2>2 DEF ToSet
  <1>3. ToSet(Tail(s)) \subseteq ToSet(s) /\ s[1] \in ToSet(s)
    BY <1>1 DEF ToSet
  <1>4. QED
    BY <1>1, <1>2, <1>3

\* A capped list keeps its newest message.
LEMMA CappedFacts ==
  ASSUME NEW s \in Seq(Msgs), Len(s) <= BacklogMax, NEW m \in Msgs
  PROVE  /\ Capped(Append(s, m)) \in Seq(Msgs) /\ Len(Capped(Append(s, m))) <= BacklogMax
         /\ ToSet(Capped(Append(s, m))) \subseteq ToSet(s) \union {m}
         /\ m \in ToSet(Capped(Append(s, m)))
  <1> DEFINE t == Append(s, m)
  <1>1. /\ t \in Seq(Msgs) /\ Len(t) = Len(s) + 1 /\ t[Len(s) + 1] = m
        /\ ToSet(t) = ToSet(s) \union {m} /\ t # <<>> /\ Len(s) \in Nat
    <2>1. t[Len(s) + 1] = m /\ Len(s) \in Nat /\ t # <<>>
      OBVIOUS
    <2>2. QED
      BY <2>1, ListFacts
  <1> HIDE DEF t
  <1>2. CASE Len(t) <= BacklogMax
    <2>1. Capped(t) = t
      BY <1>1, <1>2, GateAssumption DEF Capped
    <2>2. QED
      BY <1>1, <1>2, <2>1 DEF t
  <1>3. CASE Len(t) > BacklogMax
    <2>1. /\ Tail(t) \in Seq(Msgs) /\ Len(Tail(t)) = Len(t) - 1
          /\ ToSet(Tail(t)) \subseteq ToSet(t)
      BY <1>1, TailFacts
    <2>2. Len(s) = BacklogMax /\ Len(s) >= 1
      BY <1>1, <1>3, GateAssumption
    <2>3. Tail(t)[Len(s)] = m /\ Len(s) \in DOMAIN Tail(t)
      BY <1>1, <2>1, <2>2
    <2>4. m \in ToSet(Tail(t))
      BY <2>3 DEF ToSet
    <2>5. Capped(t) = Tail(t)
      BY <1>3 DEF Capped
    <2>6. QED
      BY <1>1, <2>1, <2>2, <2>4, <2>5 DEF t
  <1>4. QED
    BY <1>1, <1>2, <1>3, GateAssumption

-----------------------------------------------------------------------------
(* A message on its way through the gate.                                  *)

\* What of a message's entry the invariant is about, whichever way it takes.
Entered(m) ==
    /\ m \notin done /\ at[m] = "none" /\ untagged' = <<>> /\ tagger' = TRUE
    /\ by' \in [Msgs -> Buttons \union {"live"}]
    /\ at' \in [Msgs -> Holding] /\ at'[m] # "none"
    /\ \A u \in Msgs \ {m} :
         \/ at'[u] = at[u]
         \/ at[u] = "unreacting" /\ at'[u] = "orphaned" /\ gated' = <<>>
    /\ gated' \in Seq(Msgs) /\ Len(gated') <= BacklogMax
    /\ ToSet(gated') \subseteq ToSet(gated) \union {m}
    /\ gated' = <<>> \/ ToSet(gated) \subseteq ToSet(gated')
    /\ m \in ToSet(gated') => m \in ToSet(gated) \/ at'[m] = "locking"
    /\ at'[m] = "locking" => m \in ToSet(gated')
    /\ owed' \subseteq (owed \ ToSet(untagged)) \union {m}
    /\ \A u \in owed' \ {m} : at'[u] = at[u] /\ (u \in ToSet(gated) => u \in ToSet(gated'))
    /\ lost' \subseteq lost \union {"swept"}
    /\ UNCHANGED timer \/ (CancelNotice /\ gated' = <<>>)

\* ... and how it counts.
Counted(m) ==
    \/ ClearedGate
    \/ UNCHANGED <<replies, turns, overlap>> /\ at'[m] # "building"
    \/ /\ UNCHANGED <<replies, turns>> /\ replies < ReplyLimit
       /\ overlap' = (overlap \/ Building # {})

LEMMA EnterIs ==
  ASSUME GateTypeOK, NEW m \in Msgs, NEW b \in Buttons \union {"live"}, Enter(m, b)
  PROVE  Entered(m) /\ Counted(m)
  <1>1. /\ m \notin done /\ at[m] = "none" /\ untagged' = <<>> /\ tagger' = TRUE
        /\ by' \in [Msgs -> Buttons \union {"live"}]
    BY DEF Enter, GateTypeOK
  <1>2. /\ at \in [Msgs -> Holding] /\ gated \in Seq(Msgs) /\ Len(gated) <= BacklogMax
        /\ ToSet(gated) \subseteq Msgs /\ owed \subseteq Msgs
    BY ListFacts DEF GateTypeOK
  <1>3. ASSUME EnterResuming(m, b) PROVE Entered(m) /\ Counted(m)
    <2>1. /\ at' \in [Msgs -> Holding] /\ at'[m] # "none" /\ at'[m] # "locking"
          /\ \A u \in Msgs \ {m} :
               at'[u] = at[u] \/ (at[u] = "unreacting" /\ at'[u] = "orphaned")
      <3> DEFINE x == IF gated = <<>> THEN "building" ELSE "unlocking"
      <3>1. /\ Orphaned(at) \in [Msgs -> Holding]
            /\ \A u \in Msgs : Orphaned(at)[u] = IF at[u] = "unreacting" THEN "orphaned"
                                                ELSE at[u]
        BY <1>2 DEF Orphaned, Holding
      <3>2. at' = [Orphaned(at) EXCEPT ![m] = x]
        BY <1>3 DEF EnterResuming
      <3>3. x \in Holding /\ x # "none" /\ x # "locking"
        BY DEF Holding
      <3> DEFINE f == Orphaned(at)
      <3> HIDE DEF x, f
      <3>4. f \in [Msgs -> Holding] /\ at' = [f EXCEPT ![m] = x]
        BY <3>1, <3>2 DEF f
      <3>5. at' \in [Msgs -> Holding] /\ at'[m] = x /\ \A u \in Msgs \ {m} : at'[u] = f[u]
        BY <3>3, <3>4
      <3>6. QED
        BY <3>1, <3>3, <3>5 DEF f
    <2>2. gated' = <<>> /\ ToSet(gated') = {} /\ CancelNotice /\ ClearedGate
      BY <1>3, NoList DEF EnterResuming
    <2>3. /\ owed' \subseteq owed \ ToSet(untagged)
          /\ \A u \in owed' \ {m} : u \notin ToSet(gated) /\ at'[u] = at[u]
      BY <1>2, <1>3, <2>1 DEF EnterResuming
    <2>4. lost' \subseteq lost \union {"swept"}
      BY <1>3 DEF EnterResuming
    <2>5. QED
      BY <1>1, <2>1, <2>2, <2>3, <2>4, NoList, GateAssumption DEF Entered, Counted
  <1>4. ASSUME EnterGated(m) PROVE Entered(m) /\ Counted(m)
    <2>1. /\ at' = [at EXCEPT ![m] = at'[m]] /\ at'[m] \in {"locking", "unreacting"}
          /\ at' \in [Msgs -> Holding]
      BY <1>2, <1>4 DEF EnterGated, Holding
    <2>2. /\ gated = <<>> => gated' = <<m>> /\ ToSet(gated) = {}
          /\ gated # <<>> => gated' = gated
          /\ ToSet(<<m>>) = {m} /\ <<m>> \in Seq(Msgs) /\ Len(<<m>>) = 1 /\ <<m>> # <<>>
      BY <1>4, ListFacts, NoList DEF EnterGated
    <2>3. /\ at'[m] = "locking" => m \in ToSet(gated')
          /\ m \in ToSet(gated') => m \in ToSet(gated) \/ at'[m] = "locking"
      BY <1>2, <1>4, <2>2 DEF EnterGated, InList
    <2>4. /\ gated' \in Seq(Msgs) /\ Len(gated') <= BacklogMax /\ gated' # <<>>
          /\ ToSet(gated') \subseteq ToSet(gated) \union {m}
          /\ ToSet(gated) \subseteq ToSet(gated')
      <3>1. CASE gated = <<>>
        <4>1. 1 <= BacklogMax
          BY GateAssumption
        <4>2. QED
          BY <2>2, <3>1, <4>1
      <3>2. CASE gated # <<>>
        BY <1>2, <2>2, <3>2
      <3>3. QED
        BY <3>1, <3>2
    <2>5. /\ owed' \subseteq (owed \ ToSet(untagged)) \union {m} /\ lost' = lost
          /\ UNCHANGED timer /\ UNCHANGED <<replies, turns, overlap>>
      BY <1>4 DEF EnterGated
    <2>6. at'[m] # "building" /\ \A u \in Msgs \ {m} : at'[u] = at[u]
      BY <1>2, <2>1
    <2>7. Counted(m)
      BY <2>5, <2>6 DEF Counted
    <2>8. \A u \in owed' \ {m} : at'[u] = at[u]
      BY <1>2, <2>5, <2>6
    <2>9. at'[m] # "none"
      BY <2>1
    <2>10. Entered(m)
      BY <1>1, <2>1, <2>3, <2>4, <2>5, <2>6, <2>8, <2>9 DEF Entered
    <2>11. QED
      BY <2>7, <2>10
  <1>5. ASSUME EnterPassed(m) PROVE Entered(m) /\ Counted(m)
    <2>1. /\ at' = [at EXCEPT ![m] = "building"] /\ at' \in [Msgs -> Holding] /\ gated' = gated
      BY <1>2, <1>5 DEF EnterPassed, Holding
    <2>2. /\ owed' = owed \ ToSet(untagged) /\ lost' = lost /\ UNCHANGED timer
          /\ UNCHANGED <<replies, turns>> /\ replies < ReplyLimit
          /\ overlap' = (overlap \/ Building # {})
      BY <1>5 DEF EnterPassed
    <2>3. gated = <<>> => ToSet(gated) = {}
      BY NoList
    <2>4. at'[m] = "building" /\ \A u \in Msgs \ {m} : at'[u] = at[u]
      BY <1>2, <2>1
    <2>5. Counted(m)
      BY <2>2 DEF Counted
    <2>6. \A u \in owed' \ {m} : at'[u] = at[u]
      BY <1>2, <2>2, <2>4
    <2>7. Entered(m)
      BY <1>1, <1>2, <2>1, <2>2, <2>3, <2>4, <2>6 DEF Entered
    <2>8. QED
      BY <2>5, <2>7
  <1>6. QED
    BY <1>3, <1>4, <1>5 DEF Enter

\* A press takes the first message off its list.
LEMMA Popped ==
  ASSUME GateTypeOK, NEW b \in Buttons, drain[b] # <<>>,
         drain' = [drain EXCEPT ![b] = Tail(@)]
  PROVE  /\ drain[b][1] \in Msgs /\ InList(drain[b], drain[b][1])
         /\ drain' \in [Buttons -> Seq(Msgs)]
         /\ \A c \in Buttons : ToSet(drain'[c]) \subseteq ToSet(drain[c])
         /\ \A u \in Msgs \ {drain[b][1]}, c \in Buttons :
              InList(drain[c], u) => InList(drain'[c], u)
  <1>1. drain \in [Buttons -> Seq(Msgs)] /\ drain[b] \in Seq(Msgs)
    BY DEF GateTypeOK
  <1>2. /\ drain[b][1] \in Msgs /\ Tail(drain[b]) \in Seq(Msgs)
        /\ ToSet(drain[b]) = {drain[b][1]} \union ToSet(Tail(drain[b]))
    BY <1>1, TailFacts
  <1>3. /\ drain'[b] = Tail(drain[b]) /\ drain' \in [Buttons -> Seq(Msgs)]
        /\ \A c \in Buttons \ {b} : drain'[c] = drain[c]
    BY <1>1, <1>2
  <1>4. QED
    BY <1>2, <1>3 DEF InList

\* What one message of a press does: it is skipped, or enters, or runs past the gate.
ReplaySkips(b, m) ==
    /\ at' = at /\ gated' = gated /\ untagged' = untagged /\ tagger' = tagger /\ by' = by
    /\ UNCHANGED timer
    /\ m \in done \/ at[m] # "none"
    /\ owed' \subseteq owed /\ (at[m] = "locking" => m \notin owed')
    /\ lost' \subseteq lost \union {"busy"}
    /\ ClearedGate \/ UNCHANGED <<replies, turns, overlap>>
ReplayRuns(b, m) ==
    /\ m \notin done /\ at[m] = "none" /\ gated' = gated /\ UNCHANGED timer /\ ClearedGate
    /\ at' = [at EXCEPT ![m] = "building"] /\ by' = [by EXCEPT ![m] = b]
    /\ tagger' = TRUE /\ untagged' = <<>> /\ owed' = owed \ ToSet(untagged)
    /\ lost' \subseteq lost \union {"swept"}

LEMMA ReplayIs ==
  ASSUME GateTypeOK, NEW b \in Buttons, ReplayNext(b)
  PROVE  /\ drain[b] # <<>> /\ drain' = [drain EXCEPT ![b] = Tail(@)]
         /\ UNCHANGED <<seen, done, others, presses, told>>
         /\ \/ ReplaySkips(b, drain[b][1]) \/ ReplayRuns(b, drain[b][1])
            \/ Entered(drain[b][1]) /\ Counted(drain[b][1])
  <1> DEFINE m == drain[b][1]
  <1>1. /\ drain[b] # <<>> /\ drain' = [drain EXCEPT ![b] = Tail(@)]
        /\ UNCHANGED <<seen, done, others, presses, told>>
    BY DEF ReplayNext
  <1>2. m \in Msgs
    BY <1>1, Popped
  <1>3. \/ /\ m \in done \/ at[m] # "none"
           /\ ClearedGate \/ UNCHANGED <<replies, turns, overlap>>
           /\ owed' = IF at[m] = "locking" THEN owed \ {m} ELSE owed
           /\ lost' = IF at[m] = "locking" THEN lost \union {"busy"} ELSE lost
           /\ UNCHANGED <<gated, untagged, tagger, at, by, timer>>
        \/ Enter(m, b)
        \/ ReplayRuns(b, m)
    BY DEF ReplayNext, ReplayRuns
  <1>4. CASE Enter(m, b)
    BY <1>1, <1>2, <1>4, EnterIs
  <1>5. CASE ReplayRuns(b, m)
    BY <1>1, <1>5
  <1>6. ASSUME /\ m \in done \/ at[m] # "none"
               /\ ClearedGate \/ UNCHANGED <<replies, turns, overlap>>
               /\ owed' = IF at[m] = "locking" THEN owed \ {m} ELSE owed
               /\ lost' = IF at[m] = "locking" THEN lost \union {"busy"} ELSE lost
               /\ UNCHANGED <<gated, untagged, tagger, at, by, timer>>
        PROVE  ReplaySkips(b, m)
    BY <1>6 DEF ReplaySkips
  <1>7. QED
    BY <1>1, <1>3, <1>4, <1>5, <1>6

-----------------------------------------------------------------------------
(* The delay of the notice.                                                *)

LEMMA Remainder == ASSUME NEW a \in Nat, NEW c \in 0..a PROVE a - c \in Nat /\ a - c <= a
  OBVIOUS

LEMMA TimerMoves ==
  ASSUME GateTypeOK, [GateNext]_gateVars
  PROVE  UNCHANGED timer \/ CancelNotice \/ Tick \/ (Schedule /\ wait' = wait)
  <1>1. CASE NoticePosts \/ PressContinue \/ ForgetGated
    BY <1>1 DEF NoticePosts, PressContinue, ForgetGated
  <1>2. CASE PressReplay \/ Tap \/ UNCHANGED gateVars
    BY <1>2 DEF PressReplay, Tap, gateVars, timer
  <1>3. ASSUME NEW m \in Msgs, Arrive(m) PROVE UNCHANGED timer \/ CancelNotice
    BY <1>3, EnterIs DEF Arrive, Entered
  <1>4. ASSUME NEW b \in Buttons, ReplayNext(b) PROVE UNCHANGED timer \/ CancelNotice
    BY <1>4, ReplayIs DEF Entered, ReplaySkips, ReplayRuns
  <1>5. ASSUME NEW m \in Msgs,
               Slip(m) \/ Unlocked(m) \/ Unreacted(m) \/ HandTo(m) \/ BuildRaises(m)
        PROVE  UNCHANGED timer
    BY <1>5 DEF Slip, Unlocked, Unreacted, HandTo, BuildRaises
  <1>6. ASSUME NEW m \in Msgs, Locked(m) PROVE Schedule /\ wait' = wait
    BY <1>6 DEF Locked
  <1>7. QED
    BY <1>1, <1>2, <1>3, <1>4, <1>5, <1>6 DEF GateNext

LEMMA ClockKept == GateTypeOK /\ NoticeClock /\ [GateNext]_gateVars => NoticeClock'
  <1> SUFFICES ASSUME GateTypeOK, NoticeClock, [GateNext]_gateVars PROVE NoticeClock'
    OBVIOUS
  <1>1. MaxHold \in Nat /\ NoticeDelay \in Nat /\ NoNotice = MaxHold + 1 /\ wait \in Nat
    BY GateAssumption DEF NoNotice, GateTypeOK
  <1>2. due \in 0..NoNotice /\ ceiling \in 0..NoNotice
    BY DEF GateTypeOK
  <1>3. CASE UNCHANGED timer
    BY <1>3 DEF timer, NoticeClock, NoNotice
  <1>4. CASE CancelNotice
    BY <1>4 DEF CancelNotice, NoticeClock, NoNotice
  <1>5. CASE Tick
    <2>1. due' = due - 1 /\ ceiling' = ceiling - 1 /\ wait' = wait + 1 /\ due \in 1..MaxHold
      BY <1>5 DEF Tick
    <2>2. due \in 0..MaxHold /\ ceiling \in due..MaxHold /\ wait = MaxHold - ceiling
      BY <1>1, <2>1 DEF NoticeClock
    <2>3. due' \in 0..MaxHold /\ ceiling' \in due'..MaxHold /\ wait' = MaxHold - ceiling'
      BY <1>1, <1>2, <2>1, <2>2
    <2>4. QED
      BY <2>3 DEF NoticeClock
  <1>6. CASE Schedule /\ wait' = wait
    <2>1. /\ ceiling' = IF ceiling = NoNotice THEN MaxHold ELSE ceiling
          /\ due' = IF NoticeDelay < ceiling' THEN NoticeDelay ELSE ceiling'
      BY <1>6 DEF Schedule
    <2>2. wait' = MaxHold - ceiling' /\ ceiling' \in 0..MaxHold
      BY <1>1, <1>2, <1>6, <2>1 DEF NoticeClock
    <2>3. due' \in 0..MaxHold /\ ceiling' \in due'..MaxHold
      <3>1. CASE NoticeDelay < ceiling'
        BY <1>1, <2>1, <2>2, <3>1
      <3>2. CASE ~(NoticeDelay < ceiling')
        BY <1>1, <2>1, <2>2, <3>2
      <3>3. QED
        BY <3>1, <3>2
    <2>4. QED
      BY <2>2, <2>3 DEF NoticeClock
  <1>7. QED
    BY <1>3, <1>4, <1>5, <1>6, TimerMoves

-----------------------------------------------------------------------------
(* The types.                                                              *)

\* What the types say of the lists, the handlers and the ghosts, but for the timer.
Lists ==
    /\ gated \in Seq(Msgs) /\ Len(gated) <= BacklogMax
    /\ untagged \in Seq(Msgs) /\ Len(untagged) <= BacklogMax
    /\ at \in [Msgs -> Holding] /\ by \in [Msgs -> Buttons \cup {"live"}]
    /\ drain \in [Buttons -> Seq(Msgs)] /\ tagger \in BOOLEAN
Ghosts ==
    /\ replies \in Nat /\ turns \in Nat /\ overlap \in BOOLEAN
    /\ done \subseteq Msgs /\ told \subseteq Msgs /\ owed \subseteq Msgs
    /\ lost \subseteq {"orphaned", "swept", "cut", "busy"}

LEMMA ListsKept ==
  ASSUME GateTypeOK, [GateNext]_gateVars PROVE Lists'
  <1>0. /\ Lists /\ gated \in Seq(Msgs) /\ untagged \in Seq(Msgs)
        /\ drain \in [Buttons -> Seq(Msgs)]
        /\ at \in [Msgs -> Holding]
        /\ <<>> \in Seq(Msgs) /\ Len(<<>>) <= BacklogMax
        /\ Orphaned(at) \in [Msgs -> Holding]
    BY NoList, GateAssumption DEF GateTypeOK, Lists, Orphaned, Holding
  <1>1. CASE Tick \/ NoticePosts \/ Tap \/ UNCHANGED gateVars
    BY <1>0, <1>1 DEF Tick, NoticePosts, Tap, gateVars, Lists
  <1>2. CASE PressContinue
    <2>1. drain' \in [Buttons -> Seq(Msgs)]
      BY <1>0, <1>2 DEF PressContinue
    <2>2. QED
      BY <1>0, <1>2, <2>1 DEF PressContinue, Lists
  <1>3. CASE PressReplay
    <2>1. drain' \in [Buttons -> Seq(Msgs)]
      BY <1>0, <1>3 DEF PressReplay
    <2>2. QED
      BY <1>0, <1>3, <2>1 DEF PressReplay, Lists
  <1>4. CASE ForgetGated
    BY <1>0, <1>4 DEF ForgetGated, Lists
  <1>5. ASSUME NEW b \in Buttons, ReplayNext(b) PROVE Lists'
    <2>1. drain' \in [Buttons -> Seq(Msgs)] /\ drain[b][1] \in Msgs
      BY <1>5, ReplayIs, Popped
    <2>2. CASE ReplaySkips(b, drain[b][1])
      BY <1>0, <2>1, <2>2 DEF ReplaySkips, Lists
    <2>3. CASE ReplayRuns(b, drain[b][1])
      <3>1. at' \in [Msgs -> Holding] /\ by' \in [Msgs -> Buttons \union {"live"}]
        BY <1>0, <2>3 DEF ReplayRuns, Lists, Holding
      <3>2. QED
        BY <1>0, <2>1, <2>3, <3>1 DEF ReplayRuns, Lists
    <2>4. CASE Entered(drain[b][1])
      BY <1>0, <2>1, <2>4 DEF Entered, Lists
    <2>5. QED
      BY <1>5, <2>2, <2>3, <2>4, ReplayIs
  <1>6. ASSUME NEW m \in Msgs, Arrive(m) PROVE Lists'
    <2>1. Entered(m) /\ drain' = drain
      BY <1>6, EnterIs DEF Arrive
    <2>2. QED
      BY <1>0, <2>1 DEF Entered, Lists
  <1>7. ASSUME NEW m \in Msgs, Slip(m) PROVE Lists'
    <2>1. untagged' \in Seq(Msgs) /\ Len(untagged') <= BacklogMax
      BY <1>0, <1>7, CappedFacts DEF Slip, Lists
    <2>2. QED
      BY <1>0, <1>7, <2>1 DEF Slip, Lists
  <1>8. ASSUME NEW m \in Msgs, Unreacted(m) PROVE Lists'
    <2>1. gated' \in Seq(Msgs) /\ Len(gated') <= BacklogMax
      BY <1>0, <1>8, CappedFacts DEF Unreacted, Lists
    <2>2. at' \in [Msgs -> Holding]
      BY <1>0, <1>8 DEF Unreacted, Holding
    <2>3. QED
      BY <1>0, <1>8, <2>1, <2>2 DEF Unreacted, Lists
  <1>9. ASSUME NEW m \in Msgs, Unlocked(m) \/ Locked(m) \/ HandTo(m) PROVE Lists'
    <2>1. at' \in [Msgs -> Holding]
      BY <1>0, <1>9 DEF Unlocked, Locked, HandTo, Holding
    <2>2. QED
      BY <1>0, <1>9, <2>1 DEF Unlocked, Locked, HandTo, Lists
  <1>10. ASSUME NEW m \in Msgs, BuildRaises(m) PROVE Lists'
    <2>1. at' \in [Msgs -> Holding]
      BY <1>0, <1>10 DEF BuildRaises, Holding
    <2>2. drain' \in [Buttons -> Seq(Msgs)]
      BY <1>0, <1>10 DEF BuildRaises
    <2>3. QED
      BY <1>0, <1>10, <2>1, <2>2 DEF BuildRaises, Lists
  <1>11. QED
    BY <1>1, <1>2, <1>3, <1>4, <1>5, <1>6, <1>7, <1>8, <1>9, <1>10 DEF GateNext

LEMMA CountTypes ==
  ASSUME Ghosts, ClearedGate \/ UNCHANGED <<replies, turns, overlap>> \/ \E m \in Msgs : Counted(m)
  PROVE  replies' \in Nat /\ turns' \in Nat /\ overlap' \in BOOLEAN
  <1>1. CASE ClearedGate
    <2>1. overlap' \in BOOLEAN
      BY <1>1, Zenon DEF ClearedGate
    <2>2. QED
      BY <1>1, <2>1 DEF ClearedGate
  <1>2. CASE UNCHANGED <<replies, turns, overlap>>
    BY <1>2 DEF Ghosts
  <1>3. ASSUME UNCHANGED <<replies, turns>>, overlap' = (overlap \/ Building # {})
        PROVE  replies' \in Nat /\ turns' \in Nat /\ overlap' \in BOOLEAN
    <2>1. overlap' \in BOOLEAN
      BY <1>3, Zenon
    <2>2. QED
      BY <1>3, <2>1 DEF Ghosts
  <1>4. QED
    BY <1>1, <1>2, <1>3 DEF Counted

LEMMA GhostsKept ==
  ASSUME GateTypeOK, [GateNext]_gateVars PROVE Ghosts'
  <1>0. Ghosts /\ ToSet(gated) \subseteq Msgs
    <2>1. gated \in Seq(Msgs)
      BY DEF GateTypeOK
    <2>2. ToSet(gated) \subseteq Msgs
      BY <2>1 DEF ToSet
    <2>3. QED
      BY <2>2 DEF GateTypeOK, Ghosts
  <1>1. CASE Tick \/ NoticePosts \/ PressReplay \/ UNCHANGED gateVars
    BY <1>0, <1>1 DEF Tick, NoticePosts, PressReplay, gateVars, Ghosts
  <1>8. CASE Tap
    <2>1. overlap' \in BOOLEAN
      BY <1>8 DEF Tap
    <2>2. QED
      BY <1>0, <1>8, <2>1 DEF Tap, Ghosts
  <1>2. CASE PressContinue \/ ForgetGated
    <2>1. ClearedGate /\ done' = done /\ told' = told /\ owed' \subseteq owed /\ lost' = lost
      BY <1>2 DEF PressContinue, ForgetGated
    <2>2. QED
      BY <1>0, <2>1, CountTypes DEF Ghosts
  <1>3. ASSUME NEW b \in Buttons, ReplayNext(b) PROVE Ghosts'
    <2>1. /\ done' = done /\ told' = told /\ drain[b][1] \in Msgs
      BY <1>3, ReplayIs, Popped
    <2>2. CASE ReplaySkips(b, drain[b][1])
      <3>1. /\ ClearedGate \/ UNCHANGED <<replies, turns, overlap>>
            /\ owed' \subseteq owed /\ lost' \subseteq lost \union {"busy"}
        BY <2>2 DEF ReplaySkips
      <3>2. QED
        BY <1>0, <2>1, <3>1, CountTypes DEF Ghosts
    <2>3. CASE ReplayRuns(b, drain[b][1])
      <3>1. /\ ClearedGate /\ owed' \subseteq owed /\ lost' \subseteq lost \union {"swept"}
        BY <2>3 DEF ReplayRuns
      <3>2. QED
        BY <1>0, <2>1, <3>1, CountTypes DEF Ghosts
    <2>4. CASE Entered(drain[b][1]) /\ Counted(drain[b][1])
      BY <1>0, <2>1, <2>4, CountTypes DEF Entered, Ghosts
    <2>5. QED
      BY <1>3, <2>2, <2>3, <2>4, ReplayIs
  <1>4. ASSUME NEW m \in Msgs, Arrive(m) PROVE Ghosts'
    <2>1. Entered(m) /\ Counted(m) /\ done' = done /\ told' = told
      BY <1>4, EnterIs DEF Arrive
    <2>2. QED
      BY <1>0, <2>1, CountTypes DEF Entered, Ghosts
  <1>5. ASSUME NEW m \in Msgs, Slip(m) \/ Unreacted(m) \/ Locked(m) PROVE Ghosts'
    BY <1>0, <1>5 DEF Slip, Unreacted, Locked, Ghosts
  <1>9. ASSUME NEW m \in Msgs, Unlocked(m) PROVE Ghosts'
    <2>1. overlap' \in BOOLEAN
      BY <1>9, Zenon DEF Unlocked
    <2>2. QED
      BY <1>0, <1>9, <2>1 DEF Unlocked, Ghosts
  <1>6. ASSUME NEW m \in Msgs, HandTo(m) \/ BuildRaises(m) PROVE Ghosts'
    <2>1. CASE HandTo(m)
      BY <1>0, <2>1 DEF HandTo, Ghosts
    <2>2. CASE BuildRaises(m)
      BY <1>0, <2>2 DEF BuildRaises, Ghosts
    <2>3. QED
      BY <1>6, <2>1, <2>2
  <1>7. QED
    BY <1>1, <1>2, <1>3, <1>4, <1>5, <1>6, <1>8, <1>9 DEF GateNext

LEMMA TypesKept == GateTypeOK /\ NoticeClock /\ [GateNext]_gateVars => GateTypeOK'
  <1> SUFFICES ASSUME GateTypeOK, NoticeClock, [GateNext]_gateVars PROVE GateTypeOK'
    OBVIOUS
  <1>1. NoticeClock' /\ Lists' /\ Ghosts'
    BY ClockKept, ListsKept, GhostsKept
  <1>2. due' \in 0..NoNotice /\ ceiling' \in 0..NoNotice /\ wait' \in Nat
    <2>1. MaxHold \in Nat /\ NoNotice = MaxHold + 1
      BY GateAssumption DEF NoNotice
    <2>2. CASE due' = NoNotice /\ ceiling' = NoNotice /\ wait' = 0
      BY <2>1, <2>2
    <2>3. CASE due' \in 0..MaxHold /\ ceiling' \in due'..MaxHold /\ wait' = MaxHold - ceiling'
      <3>1. ceiling' \in 0..MaxHold
        BY <2>1, <2>3
      <3>2. due' \in 0..MaxHold /\ wait' = MaxHold - ceiling'
        BY <2>3
      <3>3. wait' \in Nat
        BY <2>1, <3>1, <3>2, Remainder
      <3>4. due' \in 0..NoNotice /\ ceiling' \in 0..NoNotice
        BY <2>1, <3>1, <3>2
      <3>5. QED
        BY <3>3, <3>4
    <2>4. QED
      BY <1>1, <2>2, <2>3 DEF NoticeClock
  <1>3. QED
    BY <1>1, <1>2 DEF GateTypeOK, Lists, Ghosts

-----------------------------------------------------------------------------
(* The parts of the invariant.                                             *)

LEMMA KnownKept ==
  ASSUME GateTypeOK, HasCome, [GateNext]_gateVars PROVE HasCome'
  <1>0. /\ at \in [Msgs -> Holding] /\ gated \in Seq(Msgs) /\ untagged \in Seq(Msgs)
        /\ Len(gated) <= BacklogMax /\ Len(untagged) <= BacklogMax
        /\ drain \in [Buttons -> Seq(Msgs)] /\ ToSet(<<>>) = {}
        /\ \A m \in Msgs : Orphaned(at)[m] # "none" <=> at[m] # "none"
    BY NoList DEF GateTypeOK, Orphaned
  <1>1. CASE Tick \/ NoticePosts \/ Tap \/ UNCHANGED gateVars
    BY <1>1 DEF Tick, NoticePosts, Tap, gateVars, HasCome
  <1>2. CASE PressContinue
    <2>1. /\ gated' = <<>> /\ at' = Orphaned(at) /\ drain' = [drain EXCEPT !["continue"] = gated]
          /\ UNCHANGED <<untagged, seen, done, owed>>
      BY <1>2 DEF PressContinue
    <2>2. \A b \in Buttons : ToSet(drain'[b]) \subseteq seen
      BY <1>0, <2>1 DEF HasCome
    <2>3. QED
      BY <1>0, <2>1, <2>2 DEF HasCome
  <1>3. CASE PressReplay
    <2>1. /\ untagged' = <<>> /\ drain' = [drain EXCEPT !["replay"] = untagged]
          /\ UNCHANGED <<gated, at, seen, done, owed>>
      BY <1>3 DEF PressReplay
    <2>2. \A b \in Buttons : ToSet(drain'[b]) \subseteq seen
      BY <1>0, <2>1 DEF HasCome
    <2>3. QED
      BY <1>0, <2>1, <2>2 DEF HasCome
  <1>4. CASE ForgetGated
    BY <1>0, <1>4 DEF ForgetGated, HasCome
  <1>5. ASSUME NEW b \in Buttons, ReplayNext(b) PROVE HasCome'
    <2> DEFINE m == drain[b][1]
    <2>0. /\ drain[b] # <<>> /\ drain' = [drain EXCEPT ![b] = Tail(@)]
          /\ seen' = seen /\ done' = done
      BY <1>5, ReplayIs
    <2>a. /\ m \in Msgs /\ m \in ToSet(drain[b])
          /\ \A c \in Buttons : ToSet(drain'[c]) \subseteq ToSet(drain[c])
      BY <2>0, Popped DEF InList
    <2>1. /\ m \in seen /\ m \in Msgs /\ seen' = seen /\ done' = done
          /\ \A c \in Buttons : ToSet(drain'[c]) \subseteq seen
      BY <1>0, <2>0, <2>a DEF HasCome
    <2> HIDE DEF m
    <2>2. CASE ReplaySkips(b, m)
      BY <2>1, <2>2 DEF ReplaySkips, HasCome
    <2>3. CASE ReplayRuns(b, m)
      <3>1. \A u \in Msgs \ {m} : at'[u] = at[u]
        BY <1>0, <2>3 DEF ReplayRuns
      <3>2. QED
        BY <1>0, <2>1, <2>3, <3>1 DEF ReplayRuns, HasCome
    <2>4. CASE Entered(m)
      <3>1. \A u \in Msgs \ {m} : at'[u] # "none" => at[u] # "none"
        BY <2>4 DEF Entered
      <3>2. /\ m \notin done /\ untagged' = <<>> /\ ToSet(gated') \subseteq ToSet(gated) \union {m}
            /\ owed' \subseteq owed \union {m}
        BY <2>4 DEF Entered
      <3>3. QED
        BY <1>0, <2>1, <3>1, <3>2 DEF HasCome
    <2>5. QED
      BY <1>5, <2>2, <2>3, <2>4, ReplayIs DEF m
  <1>6. ASSUME NEW m \in Msgs, Arrive(m) PROVE HasCome'
    <2>1. Entered(m) /\ drain' = drain /\ done' = done /\ seen' = seen \union {m}
      BY <1>6, EnterIs DEF Arrive
    <2>2. QED
      BY <1>0, <2>1 DEF Entered, HasCome
  <1>7. ASSUME NEW m \in Msgs, Slip(m) PROVE HasCome'
    <2>1. ToSet(untagged') \subseteq ToSet(untagged) \union {m}
      BY <1>0, <1>7, CappedFacts DEF Slip
    <2>2. m \notin done
      BY <1>7 DEF Slip, HasCome
    <2>3. /\ seen' = seen \union {m} /\ owed' \subseteq owed \union {m}
          /\ UNCHANGED <<gated, at, done, drain>>
      BY <1>7 DEF Slip
    <2>4. QED
      BY <2>1, <2>2, <2>3 DEF HasCome
  <1>8. ASSUME NEW m \in Msgs, Unreacted(m) PROVE HasCome'
    <2>1. ToSet(gated') \subseteq ToSet(gated) \union {m}
      BY <1>0, <1>8, CappedFacts DEF Unreacted
    <2>2. /\ at[m] # "none" /\ at' = [at EXCEPT ![m] = "locking"] /\ owed' \subseteq owed
          /\ UNCHANGED <<untagged, seen, done, drain>>
      BY <1>8 DEF Unreacted
    <2>3. QED
      BY <1>0, <2>1, <2>2 DEF HasCome
  <1>9. ASSUME NEW m \in Msgs, Unlocked(m) \/ Locked(m) PROVE HasCome'
    <2>1. /\ at[m] # "none" /\ UNCHANGED <<gated, untagged, seen, done, drain, owed>>
          /\ \A u \in Msgs \ {m} : at'[u] = at[u]
      BY <1>0, <1>9 DEF Unlocked, Locked
    <2>2. QED
      BY <2>1 DEF HasCome
  <1>10. ASSUME NEW m \in Msgs, HandTo(m) \/ BuildRaises(m) PROVE HasCome'
    <2>1. /\ at[m] # "none" /\ UNCHANGED <<gated, untagged, seen>>
          /\ \A u \in Msgs \ {m} : at'[u] = at[u]
      BY <1>0, <1>10 DEF HandTo, BuildRaises
    <2>2. done' = done \union {m} /\ owed' \subseteq owed \ {m}
      BY <1>10 DEF HandTo, BuildRaises
    <2>3. \A c \in Buttons : ToSet(drain'[c]) \subseteq ToSet(drain[c])
      BY <1>0, <1>10 DEF HandTo, BuildRaises
    <2>4. QED
      BY <2>1, <2>2, <2>3 DEF HasCome
  <1>11. QED
    BY <1>1, <1>2, <1>3, <1>4, <1>5, <1>6, <1>7, <1>8, <1>9, <1>10 DEF GateNext

LEMMA SafeKept ==
  ASSUME GateTypeOK, HasCome, Safe, [GateNext]_gateVars PROVE Safe'
  <1>0. /\ at \in [Msgs -> Holding] /\ gated \in Seq(Msgs) /\ untagged \in Seq(Msgs)
        /\ Len(gated) <= BacklogMax /\ Len(untagged) <= BacklogMax
        /\ drain \in [Buttons -> Seq(Msgs)] /\ ToSet(<<>>) = {} /\ owed \subseteq Msgs
        /\ \A m \in Msgs : /\ Orphaned(at)[m] # "none" <=> at[m] # "none"
                           /\ Orphaned(at)[m] = "locking" <=> at[m] = "locking"
    BY NoList DEF GateTypeOK, Orphaned
  <1>1. CASE Tick \/ NoticePosts \/ Tap \/ UNCHANGED gateVars
    BY <1>1 DEF Tick, NoticePosts, Tap, gateVars, Safe, Drained
  <1>2. CASE PressContinue
    <2>1. /\ gated' = <<>> /\ at' = Orphaned(at) /\ UNCHANGED <<untagged, owed>>
          /\ drain["continue"] = <<>> /\ drain'["continue"] = gated
          /\ drain'["replay"] = drain["replay"]
      BY <1>0, <1>2 DEF PressContinue, Buttons
    <2>2. \A m \in Msgs : InList(gated, m) \/ Drained(m) => Drained(m)'
      BY <1>0, <2>1 DEF Drained, InList, Buttons
    <2>3. QED
      BY <1>0, <2>1, <2>2 DEF Safe
  <1>3. CASE PressReplay
    <2>1. /\ untagged' = <<>> /\ UNCHANGED <<gated, at, owed>>
          /\ drain["replay"] = <<>> /\ drain'["replay"] = untagged
          /\ drain'["continue"] = drain["continue"]
      BY <1>0, <1>3 DEF PressReplay, Buttons
    <2>2. \A m \in Msgs : InList(untagged, m) \/ Drained(m) => Drained(m)'
      BY <1>0, <2>1 DEF Drained, InList, Buttons
    <2>3. QED
      BY <1>0, <2>1, <2>2 DEF Safe
  <1>4. CASE ForgetGated
    BY <1>0, <1>4 DEF ForgetGated, Safe, Drained, InList
  <1>5. ASSUME NEW b \in Buttons, ReplayNext(b) PROVE Safe'
    <2> DEFINE m == drain[b][1]
    <2>1. m \in Msgs /\ \A u \in Msgs \ {m} : Drained(u) => Drained(u)'
      BY <1>5, ReplayIs, Popped DEF Drained
    <2> HIDE DEF m
    <2>2. CASE ReplaySkips(b, m)
      <3>1. m \in owed' => at[m] # "none" /\ at[m] # "locking"
        BY <2>2 DEF ReplaySkips, HasCome
      <3>2. QED
        BY <1>0, <2>1, <2>2, <3>1 DEF ReplaySkips, Safe
    <2>3. CASE ReplayRuns(b, m)
      <3>1. at'[m] = "building" /\ \A u \in Msgs \ {m} : at'[u] = at[u]
        BY <1>0, <2>1, <2>3 DEF ReplayRuns
      <3>2. gated' = gated /\ owed' = owed \ ToSet(untagged)
        BY <2>3 DEF ReplayRuns
      <3>3. QED
        BY <1>0, <2>1, <3>1, <3>2 DEF Safe, InList
    <2>4. CASE Entered(m)
      <3>1. \A u \in owed' \ {m} : /\ u \in owed /\ u \notin ToSet(untagged) /\ at'[u] = at[u]
                                   /\ u \in ToSet(gated) => u \in ToSet(gated')
        BY <2>4 DEF Entered
      <3>2. at'[m] # "none" /\ (at'[m] = "locking" => m \in ToSet(gated'))
        BY <2>4 DEF Entered
      <3>3. QED
        BY <1>0, <2>1, <3>1, <3>2 DEF Safe, InList
    <2>5. QED
      BY <1>5, <2>2, <2>3, <2>4, ReplayIs DEF m
  <1>6. ASSUME NEW m \in Msgs, Arrive(m) PROVE Safe'
    <2>1. Entered(m) /\ drain' = drain
      BY <1>6, EnterIs DEF Arrive
    <2>2. \A u \in owed' \ {m} : /\ u \in owed /\ u \notin ToSet(untagged) /\ at'[u] = at[u]
                                 /\ u \in ToSet(gated) => u \in ToSet(gated')
      BY <2>1 DEF Entered
    <2>3. at'[m] # "none" /\ (at'[m] = "locking" => m \in ToSet(gated'))
      BY <2>1 DEF Entered
    <2>4. QED
      BY <1>0, <2>1, <2>2, <2>3 DEF Safe, InList, Drained
  <1>7. ASSUME NEW m \in Msgs, Slip(m) PROVE Safe'
    <2>1. m \in ToSet(untagged') /\ m \notin seen
      BY <1>0, <1>7, CappedFacts DEF Slip
    <2>2. /\ owed' = (owed \union {m}) \ (ToSet(untagged) \ ToSet(untagged'))
          /\ UNCHANGED <<gated, at, drain>>
      BY <1>7 DEF Slip
    <2>3. at[m] = "none"
      BY <2>1 DEF HasCome
    <2>4. QED
      BY <2>1, <2>2, <2>3 DEF Safe, InList, Drained
  <1>8. ASSUME NEW m \in Msgs, Unreacted(m) PROVE Safe'
    <2>1. /\ at[m] \in {"unreacting", "orphaned"} /\ at'[m] = "locking"
          /\ \A u \in Msgs \ {m} : at'[u] = at[u]
          /\ UNCHANGED <<untagged, drain>>
      BY <1>0, <1>8 DEF Unreacted
    <2>2. CASE at[m] = "unreacting"
      <3>1. m \in ToSet(gated') /\ owed' \subseteq owed \ (ToSet(gated) \ ToSet(gated'))
        BY <1>0, <1>8, <2>2, CappedFacts DEF Unreacted
      <3>2. QED
        BY <1>0, <2>1, <3>1 DEF Safe, InList, Drained
    <2>3. CASE at[m] = "orphaned"
      <3>1. gated' = gated /\ owed' \subseteq owed \ {m}
        BY <1>8, <2>3 DEF Unreacted
      <3>2. QED
        BY <1>0, <2>1, <3>1 DEF Safe, InList, Drained
    <2>4. QED
      BY <2>1, <2>2, <2>3
  <1>9. ASSUME NEW m \in Msgs, Unlocked(m) \/ Locked(m) PROVE Safe'
    <2>1. /\ UNCHANGED <<gated, untagged, drain, owed>>
          /\ \A u \in Msgs \ {m} : at'[u] = at[u]
          /\ at'[m] = "building" \/ (at[m] = "locking" /\ at'[m] = "none")
      BY <1>0, <1>9 DEF Unlocked, Locked
    <2>2. QED
      BY <1>0, <2>1 DEF Safe, Drained
  <1>10. ASSUME NEW m \in Msgs, HandTo(m) PROVE Safe'
    <2>1. /\ UNCHANGED <<gated, untagged, drain>> /\ owed' = owed \ {m}
          /\ \A u \in Msgs \ {m} : at'[u] = at[u]
      BY <1>0, <1>10 DEF HandTo
    <2>2. QED
      BY <1>0, <2>1 DEF Safe, Drained
  <1>11. ASSUME NEW m \in Msgs, BuildRaises(m) PROVE Safe'
    <2>1. /\ UNCHANGED <<gated, untagged>> /\ owed' \subseteq owed \ {m}
          /\ \A u \in Msgs \ {m} : at'[u] = at[u]
      BY <1>0, <1>11 DEF BuildRaises
    <2>2. \A u \in owed' : Drained(u) => Drained(u)'
      <3>1. CASE by[m] \in Buttons
        <4>1. /\ drain' = [drain EXCEPT ![by[m]] = <<>>]
              /\ owed' = owed \ (ToSet(drain[by[m]]) \union {m})
          BY <1>11, <3>1 DEF BuildRaises
        <4>2. \A c \in Buttons \ {by[m]} : drain'[c] = drain[c]
          BY <1>0, <4>1
        <4>3. QED
          BY <3>1, <4>1, <4>2 DEF Drained, InList
      <3>2. CASE by[m] \notin Buttons
        BY <1>11, <3>2 DEF BuildRaises, Drained
      <3>3. QED
        BY <3>1, <3>2
    <2>3. QED
      BY <1>0, <2>1, <2>2 DEF Safe
  <1>12. QED
    BY <1>1, <1>2, <1>3, <1>4, <1>5, <1>6, <1>7, <1>8, <1>9, <1>10, <1>11 DEF GateNext

\* A message on the gated list has been told of, or will be.
ToldOf(m) ==
    m \in told \/ due # NoNotice \/ \E u \in Msgs : at[u] \in {"locking", "unreacting"}

LEMMA ToldKept ==
  ASSUME GateTypeOK, NoticeClock', HeldBackIsTold, [GateNext]_gateVars PROVE HeldBackIsTold'
  <1>0. /\ at \in [Msgs -> Holding] /\ gated \in Seq(Msgs) /\ Len(gated) <= BacklogMax
        /\ ToSet(<<>>) = {} /\ ToSet(gated) \subseteq Msgs
        /\ \A m \in ToSet(gated) : ToldOf(m)
    BY NoList DEF GateTypeOK, HeldBackIsTold, ToldOf, ToSet
  <1>1. wait' <= MaxHold
    <2>1. MaxHold \in Nat
      BY GateAssumption
    <2>2. CASE wait' = 0
      BY <2>1, <2>2
    <2>3. CASE due' \in 0..MaxHold /\ ceiling' \in due'..MaxHold /\ wait' = MaxHold - ceiling'
      <3>1. ceiling' \in 0..MaxHold /\ wait' = MaxHold - ceiling'
        BY <2>1, <2>3
      <3>2. QED
        BY <2>1, <3>1, Remainder
    <2>4. QED
      BY <2>2, <2>3 DEF NoticeClock
  <1>2. SUFFICES \A m \in ToSet(gated') : ToldOf(m)'
    BY <1>1 DEF HeldBackIsTold, ToldOf
  <1>3. CASE gated' = <<>>
    BY <1>0, <1>3
  <1>4. CASE NoticePosts \/ Tick
    <2>1. gated' = gated /\ at' = at
      BY <1>4 DEF NoticePosts, Tick
    <2>2. CASE NoticePosts
      BY <2>1, <2>2 DEF NoticePosts, ToldOf
    <2>3. CASE Tick
      <3>1. due' \in 0..MaxHold /\ told' = told
        BY <2>3, GateAssumption DEF Tick
      <3>2. due' # NoNotice
        BY <3>1, GateAssumption DEF NoNotice
      <3>3. QED
        BY <3>2 DEF ToldOf, NoNotice
    <2>4. QED
      BY <1>4, <2>2, <2>3
  <1>5. CASE PressReplay \/ Tap \/ UNCHANGED gateVars
    <2>1. gated' = gated /\ at' = at /\ told' = told /\ due' = due
      BY <1>5 DEF PressReplay, Tap, gateVars, timer
    <2>2. QED
      BY <1>0, <2>1 DEF ToldOf
  <1>6. CASE PressContinue \/ ForgetGated
    BY <1>3, <1>6 DEF PressContinue, ForgetGated
  <1>7. ASSUME NEW m \in Msgs, Entered(m), told' = told PROVE \A u \in ToSet(gated') : ToldOf(u)'
    <2>1. CASE gated' = <<>>
      BY <1>3, <2>1
    <2>2. CASE gated' # <<>>
      <3>1. /\ due' = due /\ at[m] = "none" /\ \A u \in Msgs \ {m} : at'[u] = at[u]
            /\ ToSet(gated') \subseteq ToSet(gated) \union {m}
            /\ m \in ToSet(gated') => m \in ToSet(gated) \/ at'[m] = "locking"
        BY <1>7, <2>2 DEF Entered, timer
      <3>2. QED
        BY <1>0, <1>7, <3>1 DEF ToldOf
    <2>3. QED
      BY <2>1, <2>2
  <1>8. ASSUME NEW b \in Buttons, ReplayNext(b) PROVE \A u \in ToSet(gated') : ToldOf(u)'
    <2> DEFINE m == drain[b][1]
    <2>1. m \in Msgs /\ told' = told
      BY <1>8, ReplayIs, Popped
    <2> HIDE DEF m
    <2>2. CASE ReplaySkips(b, m)
      BY <1>0, <2>1, <2>2 DEF ReplaySkips, ToldOf, timer
    <2>3. CASE ReplayRuns(b, m)
      <3>1. /\ due' = due /\ at[m] = "none" /\ gated' = gated
            /\ \A u \in Msgs \ {m} : at'[u] = at[u]
        BY <1>0, <2>3 DEF ReplayRuns, timer
      <3>2. QED
        BY <1>0, <2>1, <3>1 DEF ToldOf
    <2>4. CASE Entered(m)
      BY <1>7, <2>1, <2>4
    <2>5. QED
      BY <1>8, <2>2, <2>3, <2>4, ReplayIs DEF m
  <1>9. ASSUME NEW m \in Msgs, Arrive(m) PROVE \A u \in ToSet(gated') : ToldOf(u)'
    BY <1>7, <1>9, EnterIs DEF Arrive
  <1>10. ASSUME NEW m \in Msgs, Slip(m) PROVE \A u \in ToSet(gated') : ToldOf(u)'
    BY <1>0, <1>10 DEF Slip, ToldOf, timer
  <1>11. ASSUME NEW m \in Msgs, Unreacted(m) PROVE \A u \in ToSet(gated') : ToldOf(u)'
    BY <1>0, <1>11 DEF Unreacted, ToldOf
  <1>12. ASSUME NEW m \in Msgs, Locked(m) PROVE \A u \in ToSet(gated') : ToldOf(u)'
    <2>1. Schedule
      BY <1>12 DEF Locked
    <2>2. due' # NoNotice
      <3>1. MaxHold \in Nat /\ NoticeDelay \in Nat /\ NoNotice = MaxHold + 1
        BY GateAssumption DEF NoNotice
      <3>2. /\ ceiling \in 0..NoNotice /\ ceiling' = IF ceiling = NoNotice THEN MaxHold ELSE ceiling
            /\ due' = IF NoticeDelay < ceiling' THEN NoticeDelay ELSE ceiling'
        BY <2>1 DEF Schedule, GateTypeOK
      <3>3. ceiling' \in 0..MaxHold
        BY <3>1, <3>2
      <3>4. QED
        BY <3>1, <3>2, <3>3
    <2>3. QED
      BY <2>2 DEF ToldOf, NoNotice
  <1>13. ASSUME NEW m \in Msgs, Unlocked(m) \/ HandTo(m) \/ BuildRaises(m)
         PROVE  \A u \in ToSet(gated') : ToldOf(u)'
    <2>1. /\ gated' = gated /\ told' = told /\ due' = due /\ at[m] \in {"unlocking", "building"}
          /\ \A u \in Msgs \ {m} : at'[u] = at[u]
      BY <1>0, <1>13 DEF Unlocked, HandTo, BuildRaises, timer
    <2>2. QED
      BY <1>0, <2>1 DEF ToldOf
  <1>14. QED
    BY <1>4, <1>5, <1>6, <1>8, <1>9, <1>10, <1>11, <1>12, <1>13, <1>3 DEF GateNext

\* Whoever clears the count has at most one handler to count from then on.
LEMMA NothingCounts ==
  ASSUME GateTypeOK, ClearedGate, Building' \subseteq Building PROVE Charged'
  <1>1. replies' = turns' /\ turns' = 0 /\ (~overlap' => Building' = {})
    BY DEF ClearedGate
  <1>2. QED
    BY <1>1, GateAssumption DEF Charged

LEMMA ChargedKept ==
  ASSUME GateTypeOK, Charged, [GateNext]_gateVars PROVE Charged'
  <1>0. /\ at \in [Msgs -> Holding] /\ replies \in Nat /\ turns \in Nat
        /\ ReplyLimit \in Nat \ {0}
        /\ \A m \in Msgs : Orphaned(at)[m] = "building" <=> at[m] = "building"
    BY GateAssumption DEF GateTypeOK, Orphaned
  <1>1. ASSUME UNCHANGED <<replies, turns>>, overlap' = overlap, Building' \subseteq Building
        PROVE  Charged'
    BY <1>1 DEF Charged
  <1>2. CASE Tick \/ NoticePosts \/ PressReplay \/ UNCHANGED gateVars
    <2>1. UNCHANGED <<replies, turns>> /\ overlap' = overlap /\ at' = at
      BY <1>2 DEF Tick, NoticePosts, PressReplay, gateVars
    <2>2. QED
      BY <1>1, <2>1 DEF Building
  <1>3. CASE PressContinue \/ ForgetGated
    <2>1. ClearedGate /\ at' = Orphaned(at)
      BY <1>3 DEF PressContinue, ForgetGated
    <2>2. QED
      BY <1>0, <2>1, NothingCounts DEF Building
  <1>4. CASE Tap
    <2>1. replies' = turns' /\ overlap' = TRUE
      BY <1>4 DEF Tap, Charged
    <2>2. QED
      BY <2>1 DEF Charged
  \* One more handler is past the gate, when the count was just cleared or left a turn.
  <1>5. ASSUME NEW m \in Msgs, Building' \subseteq Building \union {m},
               ClearedGate \/ (/\ UNCHANGED <<replies, turns>> /\ replies < ReplyLimit
                               /\ overlap' = (overlap \/ Building # {}))
        PROVE  Charged'
    <2>1. CASE ClearedGate
      <3>1. replies' = turns' /\ turns' = 0 /\ (~overlap' => Building = {})
        BY <2>1 DEF ClearedGate
      <3>2. turns' < ReplyLimit /\ turns' <= ReplyLimit
        BY <1>0, <3>1
      <3>3. QED
        BY <1>5, <3>1, <3>2 DEF Charged
    <2>2. CASE /\ UNCHANGED <<replies, turns>> /\ replies < ReplyLimit
               /\ overlap' = (overlap \/ Building # {})
      <3>1. replies' = turns' /\ turns' < ReplyLimit /\ turns' <= ReplyLimit
        BY <1>0, <2>2 DEF Charged
      <3>2. ~overlap' => Building = {}
        BY <2>2
      <3>3. QED
        BY <1>5, <3>1, <3>2 DEF Charged
    <2>3. QED
      BY <1>5, <2>1, <2>2
  <1>6. ASSUME NEW m \in Msgs, Entered(m), Counted(m) PROVE Charged'
    <2>1. Building' \subseteq Building \union {m}
      BY <1>6 DEF Entered, Building
    <2>2. CASE UNCHANGED <<replies, turns, overlap>> /\ at'[m] # "building"
      <3>1. Building' \subseteq Building
        BY <2>1, <2>2 DEF Building
      <3>2. QED
        BY <1>1, <2>2, <3>1
    <2>3. QED
      BY <1>5, <1>6, <2>1, <2>2 DEF Counted
  <1>7. ASSUME NEW b \in Buttons, ReplayNext(b) PROVE Charged'
    <2> DEFINE m == drain[b][1]
    <2>1. m \in Msgs
      BY <1>7, ReplayIs, Popped
    <2> HIDE DEF m
    <2>2. CASE ReplaySkips(b, m)
      <3>1. Building' = Building
        BY <2>2 DEF ReplaySkips, Building
      <3>2. QED
        BY <1>1, <2>2, <3>1, NothingCounts DEF ReplaySkips
    <2>3. CASE ReplayRuns(b, m)
      <3>1. Building' \subseteq Building \union {m} /\ ClearedGate
        BY <1>0, <2>3 DEF ReplayRuns, Building
      <3>2. QED
        BY <1>5, <2>1, <3>1
    <2>4. CASE Entered(m) /\ Counted(m)
      BY <1>6, <2>1, <2>4
    <2>5. QED
      BY <1>7, <2>2, <2>3, <2>4, ReplayIs DEF m
  <1>8. ASSUME NEW m \in Msgs, Arrive(m) PROVE Charged'
    BY <1>6, <1>8, EnterIs DEF Arrive
  <1>9. ASSUME NEW m \in Msgs, Slip(m) \/ Unreacted(m) \/ Locked(m) \/ BuildRaises(m)
        PROVE  Charged'
    <2>1. UNCHANGED <<replies, turns>> /\ overlap' = overlap
      BY <1>9 DEF Slip, Unreacted, Locked, BuildRaises
    <2>2. Building' \subseteq Building
      BY <1>0, <1>9 DEF Slip, Unreacted, Locked, BuildRaises, Building
    <2>3. QED
      BY <1>1, <2>1, <2>2
  <1>10. ASSUME NEW m \in Msgs, Unlocked(m) PROVE Charged'
    <2>1. /\ UNCHANGED <<replies, turns>> /\ Building' \subseteq Building \union {m}
          /\ overlap' = (overlap \/ Building # {} \/ replies > 0)
      BY <1>0, <1>10 DEF Unlocked, Building
    <2>2. CASE replies > 0
      BY <2>1, <2>2 DEF Charged
    <2>3. CASE ~(replies > 0)
      <3>1. replies < ReplyLimit /\ overlap' = (overlap \/ Building # {})
        BY <1>0, <2>1, <2>3
      <3>2. QED
        BY <1>5, <2>1, <3>1
    <2>4. QED
      BY <2>2, <2>3
  <1>11. ASSUME NEW m \in Msgs, HandTo(m) PROVE Charged'
    <2>1. /\ replies' = turns' /\ turns' = turns + 1 /\ overlap' = overlap /\ m \in Building
          /\ Building' = Building \ {m}
      BY <1>0, <1>11 DEF HandTo, Building, Charged
    <2>2. ~overlap => turns' <= ReplyLimit /\ Building' = {}
      BY <1>0, <2>1 DEF Charged
    <2>3. QED
      BY <2>1, <2>2 DEF Charged
  <1>12. QED
    BY <1>2, <1>3, <1>4, <1>7, <1>8, <1>9, <1>10, <1>11 DEF GateNext

-----------------------------------------------------------------------------
LEMMA GateStarts == GateInit => GateInv
  <1> SUFFICES ASSUME GateInit PROVE GateInv
    OBVIOUS
  <1>1. /\ <<>> \in Seq(Msgs) /\ Len(<<>>) = 0 /\ ToSet(<<>>) = {} /\ Building = {}
        /\ MaxHold + 1 \in 0..(MaxHold + 1) /\ BacklogMax \in Nat /\ ReplyLimit \in Nat
        /\ MaxHold \in Nat
    BY NoList, GateAssumption DEF GateInit, Building
  <1>2. GateTypeOK
    <2>1. /\ at \in [Msgs -> Holding] /\ by \in [Msgs -> Buttons \union {"live"}]
          /\ drain \in [Buttons -> Seq(Msgs)]
      BY <1>1 DEF GateInit, Holding
    <2>2. /\ due \in 0..NoNotice /\ ceiling \in 0..NoNotice /\ wait \in Nat
          /\ replies \in Nat /\ turns \in Nat
      BY <1>1 DEF GateInit, NoNotice
    <2>3. /\ gated \in Seq(Msgs) /\ Len(gated) <= BacklogMax
          /\ untagged \in Seq(Msgs) /\ Len(untagged) <= BacklogMax
      BY <1>1 DEF GateInit
    <2>4. QED
      BY <2>1, <2>2, <2>3 DEF GateInit, GateTypeOK
  <1>3. HasCome /\ Safe /\ NoticeClock /\ Charged
    BY <1>1 DEF GateInit, HasCome, Safe, NoticeClock, Charged
  <1>4. HeldBackIsTold
    BY <1>1 DEF GateInit, HeldBackIsTold
  <1>5. QED
    BY <1>2, <1>3, <1>4 DEF GateInv

LEMMA GateStep == GateInv /\ [GateNext]_gateVars => GateInv'
  BY TypesKept, ClockKept, KnownKept, SafeKept, ToldKept, ChargedKept DEF GateInv

\* What the reply gate holds back is in a list that somebody reads until it runs or is let
\* go by a rule, its sender is told within MaxHold, and no thread has more turns than its
\* limit unless handlers overlapped (_mark_gated, _replay_gated, _charge_turn).
THEOREM TheGateKeeps == GateSpec => []GatedIsKept
  <1>1. GateInv => GatedIsKept
    <2>1. GateInv => HeldBackIsHeld
      BY DEF GateInv, Safe, HeldBackIsHeld, Drained
    <2>2. GateInv => LimitUnlessOverlapped
      BY DEF GateInv, Charged, LimitUnlessOverlapped
    <2>3. QED
      BY <2>1, <2>2 DEF GateInv, GatedIsKept
  <1>2. QED
    BY <1>1, GateStarts, GateStep, PTL DEF GateSpec

-----------------------------------------------------------------------------
(* Telegram: sessions.                                                     *)

\* The turns of a restart are the last of those pending.
Pending ==
    /\ journaled \in Seq(Nat) /\ toReplay \in Seq(Nat) /\ Len(toReplay) <= Len(journaled)
    /\ \A i \in 1..Len(journaled) : journaled[i] <= minted
    /\ \A i \in 1..Len(toReplay) :
         toReplay[i] = journaled[(Len(journaled) - Len(toReplay)) + i]
    /\ botIs = "up" => toReplay = <<>>

TokensKnown ==
    /\ acts \in 0..MaxActs /\ minted \in 0..acts
    /\ token \in 0..minted /\ counter \in 0..minted /\ savedToken \in (0..minted) \union {Torn}
    /\ "unsaved" \notin tgFaults =>
         savedToken = minted /\ (botIs = "up" => token = minted /\ counter = minted)

InOrder(s) == \A i, j \in 1..Len(s) : i <= j => s[i] <= s[j]

\* Those of the first n turns are asked in no session later than c.
NoLater(s, n, c) == \A i \in 1..n : s[i] <= c

RanForward == \A r \in ranIn : r[1] <= r[2]

\* While the file was good at all times, turns were asked in the order of their sessions, and
\* the chat is in none earlier than those of the turns that are queued.
KeptForward ==
    /\ "unsaved" \notin tgFaults
    /\ InOrder(journaled)
    /\ NoLater(journaled, Len(journaled) - Len(toReplay), counter)
    /\ RanForward

Forward == "lapsed" \notin tgFaults => KeptForward

SessionInv == TokensKnown /\ Pending /\ Forward

Steady == UNCHANGED sessionVars /\ botIs' = botIs /\ acts' \in {acts, acts + 1} /\ acts' <= MaxActs
            /\ ("unsaved" \in tgFaults' <=> "unsaved" \in tgFaults)
            /\ ("lapsed" \in tgFaults' <=> "lapsed" \in tgFaults)

\* Everything but messages, /new, turns and restarts leaves the session as it is.
LEMMA OthersSteady ==
  ASSUME SessionInv, [TelegramNext]_telegramVars
  PROVE  \/ Steady \/ TextArrives \/ TurnRuns \/ Restarted \/ Replays \/ StartsPolling
         \/ \E b \in BOOLEAN : Killed(b) \/ \E w \in BOOLEAN : New(b, w)
  <1>0. acts \in Nat /\ acts <= MaxActs /\ MaxActs \in Nat
    BY TelegramAssumption DEF SessionInv, TokensKnown
  <1>1. (TgAct \/ NoAct) => acts' \in {acts, acts + 1} /\ acts' <= MaxActs
    BY <1>0 DEF TgAct, NoAct
  <1>2. CASE UNCHANGED telegramVars
    BY <1>0, <1>2 DEF telegramVars, Steady, sessionVars
  <1>3. CASE FlushBegins
    BY <1>1, <1>3 DEF FlushBegins, Steady
  <1>4. ASSUME NEW f \in 1..MaxFiles, AlbumFile(f) PROVE Steady
    BY <1>1, <1>4 DEF AlbumFile, Steady
  <1>5. ASSUME NEW f \in flushes, NEW b \in BOOLEAN, FlushSaves(f, b) \/ FlushHandsOver(f)
        PROVE  Steady
    BY <1>1, <1>5 DEF FlushSaves, FlushHandsOver, Steady
  <1>6. ASSUME NEW c \in TgChats, PostsMenu(c) PROVE Steady
    BY <1>1, <1>6 DEF PostsMenu, Steady
  <1>7. ASSUME NEW m \in menus, KeepsLabels(m) \/ Press(m) PROVE Steady
    BY <1>1, <1>7 DEF KeepsLabels, Press, Steady
  <1>8. CASE PressSends
    BY <1>1, <1>8 DEF PressSends, Steady
  <1>9. ASSUME NEW b \in BOOLEAN, PressAnswered(b) PROVE Steady
    BY <1>1, <1>9 DEF PressAnswered, Steady
  <1>10. CASE AsksOnCard \/ CardPosted \/ CardForsaken
    <2>1. CASE CardForsaken
      BY <1>1, <2>1 DEF CardForsaken, CardOnly, Steady
    <2>2. CASE AsksOnCard \/ CardPosted
      BY <1>1, <2>2 DEF AsksOnCard, CardPosted, CardOnly, Steady
    <2>3. QED
      BY <1>10, <2>1, <2>2
  <1>11. ASSUME NEW b \in BOOLEAN, NEW w \in BOOLEAN, CardWakes(b) \/ CardStamped(b, w)
         PROVE  Steady
    BY <1>1, <1>11 DEF CardWakes, CardStamped, CardOnly, Steady
  <1>12. ASSUME NEW who \in {"operator", "other"}, NEW v \in {"grant", "deny"},
                CardTapped(who, v)
         PROVE  Steady
    BY <1>1, <1>12 DEF CardTapped, CardOnly, Steady
  <1>13. QED
    BY <1>2, <1>3, <1>4, <1>5, <1>6, <1>7, <1>8, <1>9, <1>10, <1>11, <1>12 DEF TelegramNext

LEMMA SessionTypes ==
  ASSUME SessionInv
  PROVE  /\ acts \in Nat /\ MaxActs \in Nat /\ acts <= MaxActs /\ Torn = MaxActs + 1
         /\ minted \in Nat /\ token \in Nat /\ counter \in Nat /\ minted <= acts
         /\ journaled \in Seq(Nat) /\ toReplay \in Seq(Nat)
         /\ Len(journaled) \in Nat /\ Len(toReplay) \in Nat /\ Len(toReplay) <= Len(journaled)
         /\ \A i \in 1..Len(journaled) : journaled[i] \in Nat /\ journaled[i] <= minted
  <1>1. /\ acts \in Nat /\ MaxActs \in Nat /\ acts <= MaxActs /\ Torn = MaxActs + 1
        /\ minted \in Nat /\ token \in Nat /\ counter \in Nat /\ minted <= acts
    BY TelegramAssumption DEF SessionInv, TokensKnown, Torn
  <1>2. QED
    BY <1>1 DEF SessionInv, Pending

LEMMA TokensKept ==
  ASSUME SessionInv, [TelegramNext]_telegramVars PROVE TokensKnown'
  <1>0. /\ acts \in Nat /\ MaxActs \in Nat /\ acts <= MaxActs /\ Torn = MaxActs + 1
        /\ minted \in Nat /\ minted <= acts /\ TokensKnown
    BY SessionTypes DEF SessionInv
  <1>1. CASE Steady
    <2>1. /\ minted' = minted /\ token' = token /\ counter' = counter /\ botIs' = botIs
          /\ savedToken' = savedToken /\ ("unsaved" \in tgFaults' <=> "unsaved" \in tgFaults)
      BY <1>1 DEF Steady, sessionVars
    <2>2. acts' \in 0..MaxActs /\ minted \in 0..acts'
      <3>1. acts' \in Nat /\ acts' <= MaxActs /\ acts <= acts'
        BY <1>0, <1>1 DEF Steady
      <3>2. QED
        BY <1>0, <3>1
    <2>3. QED
      BY <1>0, <2>1, <2>2 DEF TokensKnown, Torn
  <1>2. CASE TextArrives
    BY <1>0, <1>2 DEF TextArrives, TgAct, TokensKnown, Torn
  <1>3. CASE TurnRuns
    BY <1>0, <1>3 DEF TurnRuns, NoAct, TokensKnown, Torn
  <1>4. CASE Restarted
    BY <1>0, <1>4 DEF Restarted, NoAct, TokensKnown, Torn, sessionVars
  <1>5. CASE Replays
    <2>1. toReplay # <<>> /\ Head(toReplay) = toReplay[1] /\ Len(toReplay) \in Nat \ {0}
      BY <1>5, SessionTypes DEF Replays
    <2>2. Head(toReplay) \in 0..minted
      <3> DEFINE k == (Len(journaled) - Len(toReplay)) + 1
      <3>1. k \in 1..Len(journaled)
        BY <2>1, SessionTypes
      <3>2. toReplay[1] = journaled[k]
        BY <2>1 DEF SessionInv, Pending
      <3> HIDE DEF k
      <3>3. journaled[k] \in Nat /\ journaled[k] <= minted
        BY <3>1, SessionTypes
      <3>4. QED
        BY <1>0, <2>1, <3>2, <3>3
    <2>3. /\ token' \in 0..minted /\ counter' \in 0..minted /\ botIs' # "up"
          /\ UNCHANGED <<acts, minted, savedToken, tgFaults>>
      BY <1>0, <1>5, <2>2 DEF Replays, NoAct, TokensKnown
    <2>4. QED
      BY <1>0, <2>3 DEF TokensKnown, Torn
  <1>6. CASE StartsPolling
    <2>1. /\ token' = Loaded /\ UNCHANGED <<acts, minted, savedToken, tgFaults>>
          /\ counter' = IF savedToken \in {0, Torn} THEN counter ELSE Loaded
      BY <1>6 DEF StartsPolling, NoAct
    <2>2. token' \in 0..minted /\ counter' \in 0..minted
      BY <1>0, <2>1 DEF TokensKnown, Loaded
    <2>3. "unsaved" \notin tgFaults => token' = minted /\ counter' = minted
      <3>1. CASE minted = 0
        BY <2>2, <3>1
      <3>2. ASSUME minted # 0, "unsaved" \notin tgFaults
            PROVE  token' = minted /\ counter' = minted
        <4>1. savedToken = minted /\ savedToken \notin {0, Torn}
          BY <1>0, <3>2 DEF TokensKnown
        <4>2. QED
          BY <2>1, <4>1 DEF Loaded
      <3>3. QED
        BY <3>1, <3>2
    <2>4. QED
      BY <1>0, <2>1, <2>2, <2>3 DEF TokensKnown, Torn
  <1>7. ASSUME NEW b \in BOOLEAN, Killed(b) PROVE TokensKnown'
    <2>1. /\ acts' = acts + 1 /\ acts < MaxActs /\ botIs' = "down" /\ token' = 0 /\ counter' = 0
          /\ minted' = minted
      BY <1>7 DEF Killed, TgAct
    <2>2. /\ savedToken' = savedToken \/ savedToken' = Torn
          /\ "unsaved" \notin tgFaults' => savedToken' = savedToken /\ "unsaved" \notin tgFaults
      BY <1>7 DEF Killed, Unsaved
    <2>3. QED
      BY <1>0, <2>1, <2>2 DEF TokensKnown, Torn
  <1>8. ASSUME NEW b \in BOOLEAN, NEW w \in BOOLEAN, New(b, w) PROVE TokensKnown'
    <2>1. /\ acts' = acts + 1 /\ acts < MaxActs /\ botIs' = botIs
          /\ minted' = IF b THEN minted + 1 ELSE minted
          /\ token' = minted' /\ counter' = minted'
      BY <1>8 DEF New, TgAct
    <2>2. /\ savedToken' = savedToken \/ savedToken' = minted'
          /\ "unsaved" \notin tgFaults' => savedToken' = minted'
      BY <1>8 DEF New, Unsaved
    <2>3. minted' \in 0..acts' /\ acts' \in 0..MaxActs /\ 0..minted \subseteq 0..minted'
      BY <1>0, <2>1
    <2>4. savedToken' \in (0..minted') \union {Torn}
      BY <1>0, <2>2, <2>3 DEF TokensKnown
    <2>5. QED
      BY <1>0, <2>1, <2>2, <2>3, <2>4 DEF TokensKnown, Torn
  <1>9. QED
    BY <1>1, <1>2, <1>3, <1>4, <1>5, <1>6, <1>7, <1>8, OthersSteady

LEMMA PendingKept ==
  ASSUME SessionInv, [TelegramNext]_telegramVars PROVE Pending'
  <1>0. /\ journaled \in Seq(Nat) /\ toReplay \in Seq(Nat) /\ minted \in Nat /\ counter \in Nat
        /\ Len(journaled) \in Nat /\ Len(toReplay) \in Nat /\ Len(toReplay) <= Len(journaled)
        /\ Pending /\ counter <= minted
    BY SessionTypes DEF SessionInv, TokensKnown
  <1>1. CASE Steady
    BY <1>1, <1>0 DEF Steady, sessionVars, Pending
  <1>2. CASE TextArrives
    <2>1. /\ journaled' = Append(journaled, counter) /\ toReplay = <<>> /\ toReplay' = toReplay
          /\ minted' = minted
      BY <1>0, <1>2 DEF TextArrives, Handles, Pending
    <2>2. /\ journaled' \in Seq(Nat) /\ Len(journaled') = Len(journaled) + 1
          /\ \A i \in 1..Len(journaled) : journaled'[i] = journaled[i]
          /\ journaled'[Len(journaled) + 1] = counter
      BY <1>0, <2>1
    <2>3. \A i \in 1..Len(journaled') : journaled'[i] <= minted'
      BY <1>0, <2>1, <2>2 DEF Pending
    <2>4. QED
      BY <2>1, <2>2, <2>3 DEF Pending
  <1>3. CASE TurnRuns
    <2>1. /\ journaled' = Tail(journaled) /\ toReplay' = toReplay /\ minted' = minted
          /\ botIs' = botIs /\ Len(journaled) > Len(toReplay)
      BY <1>3 DEF TurnRuns
    <2>2. /\ journaled' \in Seq(Nat) /\ Len(journaled') = Len(journaled) - 1
          /\ \A i \in 1..Len(journaled') : journaled'[i] = journaled[i + 1]
      BY <1>0, <2>1
    <2>3. /\ \A i \in 1..Len(journaled') : journaled'[i] <= minted'
          /\ Len(toReplay') <= Len(journaled')
      BY <1>0, <2>1, <2>2 DEF Pending
    <2>4. ASSUME NEW i \in 1..Len(toReplay')
          PROVE  toReplay'[i] = journaled'[(Len(journaled') - Len(toReplay')) + i]
      <3> DEFINE k == (Len(journaled') - Len(toReplay')) + i
      <3>1. k \in 1..Len(journaled')
        BY <1>0, <2>1, <2>2
      <3>2. k + 1 = (Len(journaled) - Len(toReplay)) + i
        BY <1>0, <2>1, <2>2
      <3>3. toReplay[i] = journaled[k + 1] /\ toReplay'[i] = toReplay[i]
        BY <1>0, <2>1, <3>2 DEF Pending
      <3> HIDE DEF k
      <3>4. journaled'[k] = journaled[k + 1]
        BY <2>2, <3>1
      <3>5. QED
        BY <3>3, <3>4 DEF k
    <2>5. QED
      BY <1>0, <2>1, <2>2, <2>3, <2>4 DEF Pending
  <1>4. CASE Restarted
    BY <1>0, <1>4 DEF Restarted, sessionVars, Pending
  <1>5. CASE Replays
    <2>1. /\ toReplay' = Tail(toReplay) /\ journaled' = journaled /\ minted' = minted
          /\ botIs' # "up" /\ toReplay # <<>>
      BY <1>5 DEF Replays
    <2>2. /\ toReplay' \in Seq(Nat) /\ Len(toReplay') = Len(toReplay) - 1
          /\ \A i \in 1..Len(toReplay') : toReplay'[i] = toReplay[i + 1]
      BY <1>0, <2>1
    <2>3. ASSUME NEW i \in 1..Len(toReplay')
          PROVE  toReplay'[i] = journaled[(Len(journaled) - Len(toReplay')) + i]
      <3>1. /\ i + 1 \in 1..Len(toReplay)
            /\ (Len(journaled) - Len(toReplay')) + i = (Len(journaled) - Len(toReplay)) + (i + 1)
        BY <1>0, <2>2
      <3>2. QED
        BY <2>2, <3>1, <1>0 DEF Pending
    <2>4. QED
      BY <1>0, <2>1, <2>2, <2>3 DEF Pending
  <1>6. CASE StartsPolling
    BY <1>0, <1>6 DEF StartsPolling, Pending
  <1>7. ASSUME NEW b \in BOOLEAN, Killed(b) PROVE Pending'
    <2>1. toReplay' = journaled /\ journaled' = journaled /\ minted' = minted /\ botIs' = "down"
      BY <1>7 DEF Killed
    <2>2. \A i \in 1..Len(journaled) : (Len(journaled) - Len(journaled)) + i = i
      BY <1>0
    <2>3. QED
      BY <1>0, <2>1, <2>2 DEF Pending
  <1>8. ASSUME NEW b \in BOOLEAN, NEW w \in BOOLEAN, New(b, w) PROVE Pending'
    <2>1. /\ journaled' = journaled /\ toReplay' = toReplay /\ botIs' = botIs
          /\ minted' \in Nat /\ minted <= minted'
      BY <1>0, <1>8 DEF New
    <2>2. \A i \in 1..Len(journaled) : journaled[i] <= minted'
      BY <1>0, <2>1, SessionTypes
    <2>3. QED
      BY <1>0, <2>1, <2>2 DEF Pending
  <1>9. QED
    BY <1>1, <1>2, <1>3, <1>4, <1>5, <1>6, <1>7, <1>8, OthersSteady

\* A session that is the latest of all goes to the end.
LEMMA AppendInOrder ==
  ASSUME NEW s \in Seq(Nat), NEW c \in Nat, InOrder(s), NoLater(s, Len(s), c)
  PROVE  InOrder(Append(s, c)) /\ NoLater(Append(s, c), Len(s) + 1, c)
  <1> DEFINE a == Append(s, c)
  <1>1. /\ Len(s) \in Nat /\ Len(a) = Len(s) + 1 /\ a[Len(s) + 1] = c
        /\ \A i \in 1..Len(s) : a[i] = s[i]
    OBVIOUS
  <1>2. \A i \in 1..Len(s) : s[i] \in Nat
    OBVIOUS
  <1> HIDE DEF a
  <1>3. \A i \in 1..(Len(s) + 1) : a[i] <= c
    BY <1>1 DEF NoLater
  <1>4. ASSUME NEW i \in 1..(Len(s) + 1), NEW j \in 1..(Len(s) + 1), i <= j
        PROVE  a[i] <= a[j]
    <2>1. CASE j = Len(s) + 1
      BY <1>1, <1>3, <2>1
    <2>2. CASE j # Len(s) + 1
      <3>1. i \in 1..Len(s) /\ j \in 1..Len(s)
        BY <1>1, <1>4, <2>2
      <3>2. QED
        BY <1>1, <1>4, <3>1 DEF InOrder
    <2>3. QED
      BY <2>1, <2>2
  <1>5. QED
    BY <1>1, <1>3, <1>4 DEF InOrder, NoLater, a

\* What is left when the first one is gone.
LEMMA TailInOrder ==
  ASSUME NEW s \in Seq(Nat), s # <<>>, InOrder(s), NEW n \in Nat, n < Len(s),
         NEW c \in Nat, NoLater(s, n + 1, c)
  PROVE  InOrder(Tail(s)) /\ NoLater(Tail(s), n, c) /\ Head(s) <= c
  <1> DEFINE t == Tail(s)
  <1>1. /\ Len(s) \in Nat \ {0} /\ Len(t) = Len(s) - 1 /\ Head(s) = s[1]
        /\ \A i \in 1..Len(t) : t[i] = s[i + 1]
    OBVIOUS
  <1> HIDE DEF t
  <1>2. \A i, j \in 1..Len(t) : i <= j => t[i] <= t[j]
    <2>1. ASSUME NEW i \in 1..Len(t), NEW j \in 1..Len(t), i <= j PROVE t[i] <= t[j]
      <3>1. i + 1 \in 1..Len(s) /\ j + 1 \in 1..Len(s) /\ i + 1 <= j + 1
        BY <1>1, <2>1
      <3>2. t[i] = s[i + 1] /\ t[j] = s[j + 1]
        BY <1>1
      <3>3. QED
        BY <3>1, <3>2 DEF InOrder
    <2>2. QED
      BY <2>1
  <1>3. ASSUME NEW i \in 1..n PROVE t[i] <= c
    <2>1. i \in 1..Len(t) /\ i + 1 \in 1..(n + 1)
      BY <1>1
    <2>2. QED
      BY <1>1, <2>1 DEF NoLater
  <1>4. s[1] <= c
    <2>1. 1 \in 1..(n + 1)
      OBVIOUS
    <2>2. QED
      BY <2>1 DEF NoLater
  <1>5. QED
    BY <1>1, <1>2, <1>3, <1>4 DEF InOrder, NoLater, t

LEMMA ForwardKept ==
  ASSUME SessionInv, [TelegramNext]_telegramVars PROVE Forward'
  <1> SUFFICES ASSUME "lapsed" \notin tgFaults' PROVE KeptForward'
    BY DEF Forward
  <1>0. /\ journaled \in Seq(Nat) /\ toReplay \in Seq(Nat) /\ minted \in Nat /\ counter \in Nat
        /\ Len(journaled) \in Nat /\ Len(toReplay) \in Nat /\ Len(toReplay) <= Len(journaled)
    BY SessionTypes
  <1>K. \A i \in 1..Len(journaled) : journaled[i] \in Nat /\ journaled[i] <= minted
    BY SessionTypes
  <1>1. "lapsed" \notin tgFaults => KeptForward
    BY DEF SessionInv, Forward
  <1>2. CASE Steady
    <2>1. KeptForward
      BY <1>1, <1>2 DEF Steady
    <2>2. /\ UNCHANGED <<journaled, toReplay, counter, ranIn>> /\ "unsaved" \notin tgFaults'
      BY <1>2, <2>1 DEF Steady, sessionVars, KeptForward
    <2>3. QED
      BY <2>1, <2>2 DEF KeptForward, RanForward
  <1>3. CASE TextArrives
    <2>1. /\ journaled' = Append(journaled, counter) /\ botIs = "up" /\ toReplay' = toReplay
          /\ counter' = counter /\ ranIn' = ranIn /\ tgFaults' = tgFaults
      BY <1>3 DEF TextArrives, Handles
    <2>2. KeptForward
      BY <1>1, <2>1
    <2>3. counter = minted /\ toReplay = <<>>
      BY <2>1, <2>2 DEF SessionInv, TokensKnown, Pending, KeptForward
    <2>4. NoLater(journaled, Len(journaled), counter)
      BY <1>K, <2>3 DEF NoLater
    <2>5. InOrder(journaled') /\ NoLater(journaled', Len(journaled) + 1, counter')
      BY <1>0, <2>1, <2>2, <2>4, AppendInOrder DEF KeptForward
    <2>6. Len(journaled') - Len(toReplay') = Len(journaled) + 1
      BY <1>0, <2>1, <2>3
    <2>7. QED
      BY <2>1, <2>2, <2>5, <2>6 DEF KeptForward, RanForward
  <1>4. CASE TurnRuns
    <2>1. /\ journaled' = Tail(journaled) /\ toReplay' = toReplay
          /\ counter' = counter /\ tgFaults' = tgFaults
          /\ Len(journaled) > Len(toReplay)
      BY <1>4 DEF TurnRuns
    <2>2. ranIn' = ranIn \union {<<Head(journaled), counter>>}
      BY <1>4 DEF TurnRuns
    <2>3. KeptForward
      BY <1>1, <2>1
    <2> DEFINE n == (Len(journaled) - Len(toReplay)) - 1
    <2>4. /\ n \in Nat /\ n < Len(journaled) /\ n + 1 = Len(journaled) - Len(toReplay)
          /\ journaled # <<>>
      BY <1>0, <2>1
    <2>5. Len(journaled') - Len(toReplay') = n
      BY <1>0, <2>1, <2>4
    <2> HIDE DEF n
    <2>6. InOrder(journaled') /\ NoLater(journaled', n, counter) /\ Head(journaled) <= counter
      BY <1>0, <2>1, <2>3, <2>4, TailInOrder DEF KeptForward
    <2>7. RanForward'
      BY <2>2, <2>3, <2>6 DEF KeptForward, RanForward
    <2>8. QED
      BY <2>1, <2>3, <2>5, <2>6, <2>7 DEF KeptForward
  <1>5. CASE Restarted
    <2>1. KeptForward
      BY <1>1, <1>5 DEF Restarted
    <2>2. UNCHANGED <<journaled, toReplay, counter, ranIn, tgFaults>>
      BY <1>5 DEF Restarted, sessionVars
    <2>3. QED
      BY <2>1, <2>2 DEF KeptForward, RanForward
  <1>6. CASE Replays
    <2> DEFINE q == Len(journaled) - Len(toReplay)
    <2>1. /\ toReplay # <<>> /\ toReplay' = Tail(toReplay)
          /\ journaled' = journaled /\ ranIn' = ranIn /\ tgFaults' = tgFaults
      BY <1>6 DEF Replays
    <2>2. counter' = IF Head(toReplay) = 0 THEN counter ELSE Head(toReplay)
      BY <1>6 DEF Replays
    <2>3. /\ Len(toReplay') = Len(toReplay) - 1 /\ Head(toReplay) = toReplay[1]
          /\ Len(toReplay) >= 1
      BY <1>0, <2>1
    <2>4. q + 1 \in 1..Len(journaled) /\ q \in Nat
      BY <1>0, <2>3
    <2>5. toReplay[1] = journaled[q + 1]
      BY <1>0, <2>3 DEF SessionInv, Pending
    <2>6. Len(journaled') - Len(toReplay') = q + 1
      BY <1>0, <2>1, <2>3
    <2>7. KeptForward
      BY <1>1, <2>1
    <2>8. NoLater(journaled, q, counter) /\ InOrder(journaled)
      BY <2>7 DEF KeptForward
    <2> HIDE DEF q
    <2>9. ASSUME NEW i \in 1..(q + 1) PROVE journaled[i] <= counter'
      <3>1. i \in 1..Len(journaled) /\ i <= q + 1
        BY <1>0, <2>4
      <3>2. journaled[i] <= journaled[q + 1]
        BY <2>4, <2>8, <3>1 DEF InOrder
      <3>3. CASE Head(toReplay) = 0
        <4>1. counter' = counter /\ journaled[q + 1] = 0
          BY <2>2, <2>3, <2>5, <3>3
        <4>2. journaled[i] \in Nat
          BY <1>K, <3>1
        <4>3. QED
          BY <1>0, <3>2, <4>1, <4>2
      <3>4. CASE Head(toReplay) # 0
        BY <2>2, <2>3, <2>5, <3>2, <3>4
      <3>5. QED
        BY <3>3, <3>4
    <2>10. QED
      BY <2>1, <2>6, <2>7, <2>8, <2>9 DEF KeptForward, RanForward, NoLater
  <1>7. CASE StartsPolling
    <2>1. UNCHANGED <<journaled, toReplay, ranIn, tgFaults, savedToken>>
      BY <1>7 DEF StartsPolling
    <2>2. KeptForward
      BY <1>1, <2>1
    <2>3. counter' = counter \/ counter' = minted
      BY <1>7, <2>2 DEF StartsPolling, Loaded, SessionInv, TokensKnown, KeptForward
    <2> DEFINE n == Len(journaled) - Len(toReplay)
    <2>4. n \in Nat /\ \A i \in 1..n : i \in 1..Len(journaled)
      BY <1>0
    <2>5. NoLater(journaled, n, counter)
      BY <2>2 DEF KeptForward
    <2> HIDE DEF n
    <2>6. NoLater(journaled, n, counter')
      BY <1>K, <2>3, <2>4, <2>5 DEF NoLater
    <2>7. QED
      BY <2>1, <2>2, <2>6 DEF KeptForward, RanForward, n
  <1>8. ASSUME NEW b \in BOOLEAN, Killed(b) PROVE KeptForward'
    <2>1. /\ journaled' = journaled /\ toReplay' = journaled /\ ranIn' = ranIn
          /\ "unsaved" \in tgFaults' => "unsaved" \in tgFaults \/ "lapsed" \in tgFaults'
          /\ "lapsed" \notin tgFaults
      BY <1>8 DEF Killed, Unsaved
    <2>2. KeptForward
      BY <1>1, <2>1
    <2>3. Len(journaled') - Len(toReplay') = 0
      BY <1>0, <2>1
    <2>4. NoLater(journaled', 0, counter')
      BY DEF NoLater
    <2>5. "unsaved" \notin tgFaults'
      BY <2>1, <2>2 DEF KeptForward
    <2>6. QED
      BY <2>1, <2>2, <2>3, <2>4, <2>5 DEF KeptForward, RanForward
  <1>9. ASSUME NEW b \in BOOLEAN, NEW w \in BOOLEAN, New(b, w) PROVE KeptForward'
    <2>1. /\ "lapsed" \notin tgFaults /\ "unsaved" \notin tgFaults'
          /\ journaled' = journaled /\ toReplay' = toReplay /\ ranIn' = ranIn
      BY <1>9 DEF New, Unsaved
    <2>2. counter' = minted \/ counter' = minted + 1
      BY <1>9 DEF New
    <2>3. KeptForward
      BY <1>1, <2>1
    <2> DEFINE n == Len(journaled) - Len(toReplay)
    <2>4. n \in Nat /\ \A i \in 1..n : i \in 1..Len(journaled)
      BY <1>0
    <2> HIDE DEF n
    <2>5. NoLater(journaled, n, counter')
      BY <1>0, <1>K, <2>2, <2>4 DEF NoLater
    <2>6. QED
      BY <2>1, <2>3, <2>5 DEF KeptForward, RanForward, n
  <1>10. QED
    BY <1>2, <1>3, <1>4, <1>5, <1>6, <1>7, <1>8, <1>9, OthersSteady

LEMMA SessionKept ==
  ASSUME SessionInv, [TelegramNext]_telegramVars PROVE SessionInv'
  BY TokensKept, PendingKept, ForwardKept DEF SessionInv

LEMMA SessionStarts ==
  ASSUME TelegramInit PROVE SessionInv
  <1>1. /\ acts = 0 /\ minted = 0 /\ token = 0 /\ counter = 0 /\ savedToken = 0
        /\ botIs = "up" /\ tgFaults = {} /\ MaxActs \in Nat
    BY TelegramAssumption DEF TelegramInit
  <1>2. journaled = <<>> /\ toReplay = <<>> /\ ranIn = {}
    BY DEF TelegramInit
  <1>3. TokensKnown
    BY <1>1 DEF TokensKnown
  <1>4. Len(journaled) = 0 /\ Len(toReplay) = 0 /\ journaled \in Seq(Nat) /\ toReplay \in Seq(Nat)
    BY <1>2
  <1>5. Pending
    BY <1>2, <1>4 DEF Pending
  <1>6. KeptForward
    BY <1>1, <1>2, <1>4 DEF KeptForward, InOrder, NoLater, RanForward
  <1>7. QED
    BY <1>3, <1>5, <1>6 DEF SessionInv, Forward

LEMMA SessionIsKept ==
  ASSUME SessionInv PROVE StaysInSession
  <1>1. "unsaved" \notin tgFaults /\ botIs = "up" => token = minted /\ counter = minted
    BY DEF SessionInv, TokensKnown
  <1>2. "lapsed" \notin tgFaults => \A r \in ranIn : r[1] <= r[2]
    BY DEF SessionInv, Forward, KeptForward, RanForward
  <1>3. QED
    BY <1>1, <1>2 DEF StaysInSession

-----------------------------------------------------------------------------
(* Telegram: albums.                                                       *)

Disjoint(a, b) == a \cap b = {}

\* A file is in the open group, in one flush, or in one message.
AlbumInv ==
    /\ album \subseteq 1..MaxFiles
    /\ flushes \subseteq [all : SUBSET (1..MaxFiles), saved : Nat]
    /\ \A f \in flushes : Disjoint(f.all, album)
    /\ \A f, g \in flushes : f # g => Disjoint(f.all, g.all)
    /\ \A h \in handedOver : Disjoint(h, album)
    /\ \A h \in handedOver, f \in flushes : Disjoint(h, f.all)
    /\ AlbumsAreWhole

\* Everything but files, flushes and a kill leaves the albums alone.
LEMMA OthersLeaveAlbums ==
  ASSUME [TelegramNext]_telegramVars
  PROVE  \/ UNCHANGED albumVars
         \/ \E b \in BOOLEAN : Killed(b)
         \/ \E f \in 1..MaxFiles : AlbumFile(f)
         \/ FlushBegins
         \/ \E f \in flushes : FlushHandsOver(f) \/ \E b \in BOOLEAN : FlushSaves(f, b)
  <1>1. CASE UNCHANGED telegramVars
    BY <1>1 DEF telegramVars, albumVars
  <1>2. CASE TextArrives \/ TurnRuns \/ Restarted \/ Replays \/ StartsPolling \/ PressSends
    BY <1>2 DEF TextArrives, TurnRuns, Restarted, Replays, StartsPolling, PressSends
  <1>3. CASE AsksOnCard \/ CardPosted \/ CardForsaken
    BY <1>3 DEF AsksOnCard, CardPosted, CardForsaken, CardOnly
  <1>4. ASSUME NEW b \in BOOLEAN, NEW w \in BOOLEAN,
               PressAnswered(b) \/ New(b, w) \/ CardWakes(b) \/ CardStamped(b, w)
        PROVE  UNCHANGED albumVars
    BY <1>4 DEF PressAnswered, New, CardWakes, CardStamped, CardOnly
  <1>5. ASSUME NEW c \in TgChats, PostsMenu(c) PROVE UNCHANGED albumVars
    BY <1>5 DEF PostsMenu
  <1>6. ASSUME NEW m \in menus, KeepsLabels(m) \/ Press(m) PROVE UNCHANGED albumVars
    BY <1>6 DEF KeepsLabels, Press
  <1>7. ASSUME NEW who \in {"operator", "other"}, NEW v \in {"grant", "deny"},
               CardTapped(who, v)
        PROVE  UNCHANGED albumVars
    BY <1>7 DEF CardTapped, CardOnly
  <1>8. QED
    BY <1>1, <1>2, <1>3, <1>4, <1>5, <1>6, <1>7 DEF TelegramNext

LEMMA AlbumsKept ==
  ASSUME AlbumInv, [TelegramNext]_telegramVars PROVE AlbumInv'
  <1>1. CASE UNCHANGED albumVars
    BY <1>1 DEF AlbumInv, AlbumsAreWhole, albumVars
  <1>2. ASSUME NEW b \in BOOLEAN, Killed(b) PROVE AlbumInv'
    <2>1. album' = {} /\ flushes' = {} /\ handedOver' = handedOver
      BY <1>2 DEF Killed
    <2>2. QED
      BY <2>1 DEF AlbumInv, AlbumsAreWhole, Disjoint
  <1>3. ASSUME NEW x \in 1..MaxFiles, AlbumFile(x) PROVE AlbumInv'
    <2>1. album' = album \union {x} /\ flushes' = flushes /\ handedOver' = handedOver
      BY <1>3 DEF AlbumFile, sessionVars
    <2>2. (\A f \in flushes : x \notin f.all) /\ (\A h \in handedOver : x \notin h)
      <3>1. x \notin UNION {f.all : f \in flushes} /\ x \notin UNION handedOver
        BY <1>3 DEF AlbumFile, Arrived
      <3>2. ASSUME NEW f \in flushes PROVE x \notin f.all
        <4>1. f.all \in {g.all : g \in flushes}
          OBVIOUS
        <4>2. QED
          BY <3>1, <4>1
      <3>3. \A h \in handedOver : x \notin h
        BY <3>1
      <3>4. QED
        BY <3>2, <3>3
    <2>3. QED
      BY <2>1, <2>2 DEF AlbumInv, AlbumsAreWhole, Disjoint
  <1>4. CASE FlushBegins
    <2> DEFINE new == [all |-> album, saved |-> 0]
    <2>1. album' = {} /\ flushes' = flushes \union {new} /\ handedOver' = handedOver
      BY <1>4 DEF FlushBegins, GroupLeft
    <2>2. new \in [all : SUBSET (1..MaxFiles), saved : Nat] /\ new.all = album
      BY DEF AlbumInv
    <2> HIDE DEF new
    <2>3. \A f \in flushes : Disjoint(f.all, album) /\ Disjoint(album, f.all)
      BY DEF AlbumInv, Disjoint
    <2>4. \A f, g \in flushes' : f # g => Disjoint(f.all, g.all)
      BY <2>1, <2>2, <2>3 DEF AlbumInv
    <2>5. \A h \in handedOver', f \in flushes' : Disjoint(h, f.all)
      BY <2>1, <2>2 DEF AlbumInv
    <2>6. \A f : Disjoint(f, {})
      BY DEF Disjoint
    <2>7. QED
      BY <2>1, <2>2, <2>4, <2>5, <2>6 DEF AlbumInv, AlbumsAreWhole
  <1>5. ASSUME NEW f \in flushes, FlushHandsOver(f) PROVE AlbumInv'
    <2>1. /\ album' = album /\ flushes' = flushes \ {f}
          /\ handedOver' = handedOver \union {f.all}
      BY <1>5 DEF FlushHandsOver
    <2>2. \A g \in flushes \ {f} : Disjoint(f.all, g.all)
      BY DEF AlbumInv
    <2>3. \A a, b \in handedOver' : a = b \/ Disjoint(a, b)
      <3>1. \A h \in handedOver : Disjoint(h, f.all) /\ Disjoint(f.all, h)
        BY DEF AlbumInv, Disjoint
      <3>2. QED
        BY <2>1, <3>1 DEF AlbumInv, AlbumsAreWhole, Disjoint
    <2>4. \A h \in handedOver', g \in flushes' : Disjoint(h, g.all)
      BY <2>1, <2>2 DEF AlbumInv
    <2>5. \A h \in handedOver' : Disjoint(h, album')
      BY <2>1 DEF AlbumInv
    <2>6. QED
      BY <2>1, <2>3, <2>4, <2>5 DEF AlbumInv, AlbumsAreWhole, Disjoint
  <1>6. ASSUME NEW f \in flushes, NEW b \in BOOLEAN, FlushSaves(f, b) PROVE AlbumInv'
    <2> DEFINE on == [f EXCEPT !.saved = @ + 1]
    <2>1. /\ album' = album /\ handedOver' = handedOver
          /\ flushes' = (flushes \ {f}) \union (IF b THEN {on} ELSE {})
      BY <1>6 DEF FlushSaves
    <2>2. on \in [all : SUBSET (1..MaxFiles), saved : Nat] /\ on.all = f.all
      BY DEF AlbumInv
    <2> HIDE DEF on
    <2>3. \A g \in flushes' : g = on \/ (g \in flushes /\ g # f)
      BY <2>1
    <2>4. \A g \in flushes' : Disjoint(g.all, album)
      BY <2>2, <2>3 DEF AlbumInv
    <2>5. \A g \in flushes : g # f => Disjoint(f.all, g.all) /\ Disjoint(g.all, f.all)
      BY DEF AlbumInv
    <2>6. \A g, h \in flushes' : g # h => Disjoint(g.all, h.all)
      BY <2>2, <2>3, <2>5 DEF AlbumInv
    <2>7. \A h \in handedOver, g \in flushes' : Disjoint(h, g.all)
      BY <2>2, <2>3 DEF AlbumInv
    <2>8. flushes' \subseteq [all : SUBSET (1..MaxFiles), saved : Nat]
      BY <2>2, <2>3 DEF AlbumInv
    <2>9. QED
      BY <2>1, <2>4, <2>6, <2>7, <2>8 DEF AlbumInv, AlbumsAreWhole
  <1>7. QED
    BY <1>1, <1>2, <1>3, <1>4, <1>5, <1>6, OthersLeaveAlbums

LEMMA AlbumsStart ==
  ASSUME TelegramInit PROVE AlbumInv
  BY DEF TelegramInit, AlbumInv, AlbumsAreWhole

-----------------------------------------------------------------------------
(* Telegram: the approval card.                                            *)

Cards == [at : {"none", "posting", "waiting", "settled", "retiring", "over"},
          shows : {"none", "buttons", "APPROVED", "DENIED"},
          tapped : {"nobody", "operator", "other"} \X {"none", "grant", "deny"},
          answer : {"none", "yes", "no"}]

Excused == tgFaults \cap {"cutEdit", "cutPost"} # {}

\* A card that is asking has not been answered; one that is settled was settled by the
\* operator; and what it says and what its caller is told is the operator's.
CardInv ==
    /\ tgCard \in Cards
    /\ tgCard.at = "posting" => tgCard.shows = "none" /\ tgCard.answer = "none"
    /\ tgCard.at = "waiting" => tgCard.shows = "buttons" /\ tgCard.answer = "none"
    /\ tgCard.at = "settled" =>
         tgCard.shows = "buttons" /\ tgCard.answer = "none" /\ tgCard.tapped[1] = "operator"
    /\ tgCard.answer = "yes" \/ tgCard.shows = "APPROVED" =>
         tgCard.tapped = <<"operator", "grant">>
    /\ tgCard.at = "over" /\ ~Excused => tgCard.shows # "buttons"

CardSteady == tgCard' = tgCard /\ (Excused => Excused')

LEMMA OthersLeaveTheCard ==
  ASSUME [TelegramNext]_telegramVars
  PROVE  \/ CardSteady \/ AsksOnCard \/ CardPosted \/ CardForsaken
         \/ \E b \in BOOLEAN : Killed(b) \/ CardWakes(b) \/ \E w \in BOOLEAN : CardStamped(b, w)
         \/ \E who \in {"operator", "other"}, v \in {"grant", "deny"} : CardTapped(who, v)
  <1>0. tgFaults \cap {"cutEdit", "cutPost"} = tgFaults' \cap {"cutEdit", "cutPost"} =>
          (Excused => Excused')
    BY DEF Excused
  <1>1. CASE UNCHANGED telegramVars
    BY <1>0, <1>1 DEF telegramVars, CardSteady
  <1>2. CASE TextArrives \/ TurnRuns \/ Restarted \/ Replays \/ StartsPolling \/ FlushBegins
    BY <1>0, <1>2
       DEF TextArrives, TurnRuns, Restarted, Replays, StartsPolling, FlushBegins, CardSteady
  <1>3. CASE PressSends
    BY <1>0, <1>3 DEF PressSends, CardSteady
  <1>4. ASSUME NEW b \in BOOLEAN, PressAnswered(b) PROVE CardSteady
    BY <1>4 DEF PressAnswered, CardSteady, Excused
  <1>5. ASSUME NEW b \in BOOLEAN, NEW w \in BOOLEAN, New(b, w) PROVE CardSteady
    BY <1>5 DEF New, CardSteady, Excused, Unsaved
  <1>6. ASSUME NEW x, AlbumFile(x) PROVE CardSteady
    BY <1>0, <1>6 DEF AlbumFile, CardSteady
  <1>7. ASSUME NEW f \in flushes, NEW b \in BOOLEAN, FlushSaves(f, b) \/ FlushHandsOver(f)
        PROVE  CardSteady
    BY <1>0, <1>7 DEF FlushSaves, FlushHandsOver, CardSteady
  <1>8. ASSUME NEW c \in TgChats, PostsMenu(c) PROVE CardSteady
    BY <1>0, <1>8 DEF PostsMenu, CardSteady
  <1>9. ASSUME NEW m \in menus, KeepsLabels(m) \/ Press(m) PROVE CardSteady
    BY <1>0, <1>9 DEF KeepsLabels, Press, CardSteady
  <1>10. QED
    BY <1>1, <1>2, <1>3, <1>4, <1>5, <1>6, <1>7, <1>8, <1>9 DEF TelegramNext

LEMMA CardKept ==
  ASSUME CardInv, [TelegramNext]_telegramVars PROVE CardInv'
  <1>1. CASE CardSteady
    BY <1>1 DEF CardInv, CardSteady
  <1>2. CASE AsksOnCard
    <2>1. tgCard' = [NoCard EXCEPT !.at = "posting"]
      BY <1>2 DEF AsksOnCard
    <2>2. tgCard' = [at |-> "posting", shows |-> "none", tapped |-> <<"nobody", "none">>,
                     answer |-> "none"]
      BY <2>1 DEF NoCard
    <2>3. QED
      BY <2>2 DEF CardInv, Cards
  <1>3. CASE CardPosted
    BY <1>3 DEF CardPosted, CardInv, Cards
  <1>4. CASE CardForsaken
    <2>1. Excused'
      BY <1>4 DEF CardForsaken, Excused
    <2>2. QED
      BY <1>4, <2>1 DEF CardForsaken, CardInv, Cards
  <1>5. ASSUME NEW b \in BOOLEAN, Killed(b) PROVE CardInv'
    <2>1. Excused => Excused'
      BY <1>5 DEF Killed, Excused
    <2>2. tgCard' = IF tgCard.at = "none" THEN tgCard
                    ELSE [tgCard EXCEPT !.at = "none", !.answer = "none"]
      BY <1>5 DEF Killed
    <2>3. QED
      BY <2>1, <2>2 DEF CardInv, Cards
  <1>6. ASSUME NEW b \in BOOLEAN, CardWakes(b) PROVE CardInv'
    <2>1. tgFaults' = tgFaults
      BY <1>6 DEF CardWakes
    <2>2. CASE tgCard.at = "posting"
      <3>1. tgCard' = [tgCard EXCEPT !.at = "over", !.answer = "no"]
        BY <1>6, <2>2 DEF CardWakes
      <3>2. QED
        BY <2>2, <3>1 DEF CardInv, Cards
    <2>3. CASE tgCard.at # "posting"
      <3>1. /\ tgCard.at \in {"settled", "waiting"} /\ (b => tgCard.at = "settled")
            /\ tgCard' = [tgCard EXCEPT !.at = "retiring",
                                        !.answer = IF b /\ Granted THEN "yes" ELSE "no"]
        BY <1>6, <2>3 DEF CardWakes
      <3>2. b /\ Granted => tgCard.tapped = <<"operator", "grant">>
        BY <3>1 DEF CardInv, Cards, Granted
      <3>3. tgCard'.shows = "buttons" /\ tgCard'.at = "retiring" /\ tgCard'.tapped = tgCard.tapped
        BY <3>1 DEF CardInv, Cards
      <3>4. tgCard'.answer = "yes" => b /\ Granted
        BY <3>1 DEF CardInv, Cards
      <3>5. tgCard' \in Cards
        BY <3>1 DEF CardInv, Cards
      <3>6. QED
        BY <3>2, <3>3, <3>4, <3>5 DEF CardInv, Cards
    <2>4. QED
      BY <2>2, <2>3
  <1>7. ASSUME NEW b \in BOOLEAN, NEW w \in BOOLEAN, CardStamped(b, w) PROVE CardInv'
    <2>1. /\ tgCard.at = "retiring"
          /\ tgCard' = [tgCard EXCEPT !.at = "over", !.shows = IF b THEN Verdict ELSE @,
                                      !.answer = IF w THEN @ ELSE "no"]
      BY <1>7 DEF CardStamped
    <2>2. ~b => Excused'
      BY <1>7 DEF CardStamped, Excused
    <2>3. Verdict \in {"APPROVED", "DENIED"} /\ (Verdict = "APPROVED" => tgCard.answer = "yes")
      BY DEF Verdict
    <2>4. /\ tgCard'.at = "over" /\ tgCard'.tapped = tgCard.tapped
          /\ (tgCard'.answer = "yes" => tgCard.answer = "yes")
          /\ b => tgCard'.shows = Verdict
          /\ ~b => tgCard'.shows = tgCard.shows
      BY <2>1 DEF CardInv, Cards
    <2>5. tgCard' \in Cards
      BY <2>1, <2>3 DEF CardInv, Cards
    <2>6. QED
      BY <2>2, <2>3, <2>4, <2>5 DEF CardInv, Cards
  <1>8. ASSUME NEW who \in {"operator", "other"}, NEW v \in {"grant", "deny"},
               CardTapped(who, v)
        PROVE  CardInv'
    <2>1. /\ tgFaults' = tgFaults
          /\ tgCard' = IF TapCounts(who) /\ tgCard.at = "waiting"
                       THEN [tgCard EXCEPT !.at = "settled", !.tapped = <<who, v>>]
                       ELSE tgCard
      BY <1>8 DEF CardTapped
    <2>2. CASE TapCounts(who) /\ tgCard.at = "waiting"
      <3>1. tgCard' = [tgCard EXCEPT !.at = "settled", !.tapped = <<who, v>>] /\ who = "operator"
        BY <2>1, <2>2 DEF TapCounts
      <3>2. tgCard.answer = "none" /\ tgCard.shows = "buttons"
        BY <2>2 DEF CardInv, Cards
      <3>3. /\ tgCard'.at = "settled" /\ tgCard'.tapped = <<"operator", v>>
            /\ tgCard'.answer = "none" /\ tgCard'.shows = "buttons"
        BY <3>1, <3>2 DEF CardInv, Cards
      <3>4. tgCard' \in Cards
        <4>1. <<who, v>> \in {"nobody", "operator", "other"} \X {"none", "grant", "deny"}
          OBVIOUS
        <4>2. QED
          BY <3>1, <4>1 DEF CardInv, Cards
      <3>5. QED
        BY <3>3, <3>4 DEF CardInv, Cards
    <2>3. CASE ~(TapCounts(who) /\ tgCard.at = "waiting")
      BY <2>1, <2>3 DEF CardInv, Cards, Excused
    <2>4. QED
      BY <2>2, <2>3
  <1>9. QED
    BY <1>1, <1>2, <1>3, <1>4, <1>5, <1>6, <1>7, <1>8, OthersLeaveTheCard

LEMMA CardStarts ==
  ASSUME TelegramInit PROVE CardInv
  BY DEF TelegramInit, CardInv, Cards, NoCard, Excused

-----------------------------------------------------------------------------
(* Telegram: menus.                                                        *)

NoTwice(s) == \A i, j \in 1..Len(s) : i # j => s[i] # s[j]

\* A sequence with one more element, which it did not hold.
LEMMA AppendNoTwice ==
  ASSUME NEW S, NEW s \in Seq(S), NEW m \in S, NoTwice(s), ~Contains(s, m)
  PROVE  /\ Append(s, m) \in Seq(S) /\ NoTwice(Append(s, m))
         /\ \A x : Contains(Append(s, m), x) <=> Contains(s, x) \/ x = m
  <1> DEFINE a == Append(s, m)
  <1>1. /\ a \in Seq(S) /\ Len(s) \in Nat /\ Len(a) = Len(s) + 1 /\ a[Len(s) + 1] = m
        /\ \A i \in 1..Len(s) : a[i] = s[i]
    OBVIOUS
  <1> HIDE DEF a
  <1>2. \A i \in 1..Len(a) : i \in 1..Len(s) \/ i = Len(s) + 1
    BY <1>1
  <1>3. NoTwice(a)
    BY <1>1, <1>2 DEF NoTwice, Contains
  <1>4. ASSUME NEW x PROVE Contains(a, x) <=> Contains(s, x) \/ x = m
    <2>1. ASSUME Contains(a, x) PROVE Contains(s, x) \/ x = m
      BY <1>1, <1>2, <2>1 DEF Contains
    <2>2. ASSUME Contains(s, x) \/ x = m PROVE Contains(a, x)
      <3>1. Len(s) + 1 \in 1..Len(a) /\ \A i \in 1..Len(s) : i \in 1..Len(a)
        BY <1>1
      <3>2. QED
        BY <1>1, <2>2, <3>1 DEF Contains
    <2>3. QED
      BY <2>1, <2>2
  <1>5. QED
    BY <1>1, <1>3, <1>4 DEF a

\* What is left of a sequence without its first element.
LEMMA TailNoTwice ==
  ASSUME NEW S, NEW s \in Seq(S), s # <<>>, NoTwice(s)
  PROVE  Tail(s) \in Seq(S) /\ NoTwice(Tail(s)) /\ \A x : Contains(Tail(s), x) => Contains(s, x)
  <1> DEFINE t == Tail(s)
  <1>1. /\ t \in Seq(S) /\ Len(s) \in Nat \ {0} /\ Len(t) = Len(s) - 1
        /\ \A i \in 1..Len(t) : t[i] = s[i + 1]
    OBVIOUS
  <1> HIDE DEF t
  <1>2. \A i \in 1..Len(t) : i + 1 \in 1..Len(s)
    BY <1>1
  <1>3. ASSUME NEW i \in 1..Len(t), NEW j \in 1..Len(t), i # j PROVE t[i] # t[j]
    <2>1. i + 1 # j + 1
      BY <1>3
    <2>2. QED
      BY <1>1, <1>2, <2>1 DEF NoTwice
  <1>4. ASSUME NEW x, Contains(t, x) PROVE Contains(s, x)
    BY <1>1, <1>2, <1>4 DEF Contains
  <1>5. QED
    BY <1>1, <1>3, <1>4 DEF NoTwice, t

\* What the caps leave.
LEMMA NewestNoTwice ==
  ASSUME NEW S, NEW s \in Seq(S), NEW cap \in Nat, NoTwice(s)
  PROVE  /\ NewestOf(s, cap) \in Seq(S) /\ NoTwice(NewestOf(s, cap))
         /\ \A x : Contains(NewestOf(s, cap), x) => Contains(s, x)
  <1>1. CASE Len(s) > cap
    <2>1. s # <<>> /\ NewestOf(s, cap) = Tail(s)
      BY <1>1 DEF NewestOf
    <2>2. QED
      BY <2>1, TailNoTwice
  <1>2. CASE ~(Len(s) > cap)
    BY <1>2 DEF NewestOf
  <1>3. QED
    BY <1>1, <1>2

LEMMA Concatenated ==
  ASSUME NEW S, NEW u \in Seq(S), NEW v \in Seq(S)
  PROVE  /\ u \o v \in Seq(S) /\ Len(u) \in Nat /\ Len(v) \in Nat
         /\ Len(u \o v) = Len(u) + Len(v)
         /\ \A i \in 1..Len(u) : (u \o v)[i] = u[i]
         /\ \A i \in 1..Len(v) : (u \o v)[Len(u) + i] = v[i]
  OBVIOUS

\* A menu whose label is sent has none left, and no other menu loses its own.
LEMMA WithoutMenuNoTwice ==
  ASSUME NEW S, NEW s \in Seq(S), NEW m, NoTwice(s)
  PROVE  /\ WithoutMenu(s, m) \in Seq(S) /\ NoTwice(WithoutMenu(s, m))
         /\ ~Contains(WithoutMenu(s, m), m)
         /\ \A x : Contains(WithoutMenu(s, m), x) => Contains(s, x)
  <1>1. CASE ~Contains(s, m)
    <2>1. WithoutMenu(s, m) = s
      BY <1>1 DEF WithoutMenu
    <2>2. QED
      BY <1>1, <2>1
  <1>2. CASE Contains(s, m)
    <2> DEFINE k == CHOOSE i \in 1..Len(s) : s[i] = m
               r == RemoveAt(s, k)
    <2>1. k \in 1..Len(s) /\ s[k] = m
      BY <1>2 DEF Contains
    <2>2. WithoutMenu(s, m) = r
      BY <1>2 DEF WithoutMenu, r
    <2> HIDE DEF k, r
    <2> DEFINE u == SubSeq(s, 1, k - 1)
               v == SubSeq(s, k + 1, Len(s))
    <2>3. r = u \o v
      BY DEF RemoveAt, r
    <2>4. Len(s) \in Nat /\ k \in Nat /\ 1 <= k /\ k <= Len(s)
      BY <2>1
    <2>5. u \in Seq(S) /\ Len(u) = k - 1 /\ \A i \in 1..(k - 1) : u[i] = s[i]
      BY <2>4
    <2>6. v \in Seq(S) /\ Len(v) = Len(s) - k /\ \A i \in 1..(Len(s) - k) : v[i] = s[k + i]
      BY <2>4
    <2> HIDE DEF r, u, v
    <2>7. r \in Seq(S) /\ Len(r) = Len(s) - 1
      BY <2>3, <2>4, <2>5, <2>6, Concatenated
    <2>8. \A i \in 1..Len(r) : r[i] = IF i < k THEN s[i] ELSE s[i + 1]
      <3>1. ASSUME NEW i \in 1..Len(r), i < k PROVE r[i] = s[i]
        <4>1. i \in 1..Len(u)
          BY <2>4, <2>5, <3>1
        <4>2. QED
          BY <2>3, <2>5, <2>6, <4>1, Concatenated
      <3>2. ASSUME NEW i \in 1..Len(r), ~(i < k) PROVE r[i] = s[i + 1]
        <4> DEFINE j == i - (k - 1)
        <4>1. j \in 1..(Len(s) - k) /\ (k - 1) + j = i /\ k + j = i + 1
          BY <2>4, <2>7, <3>2
        <4> HIDE DEF j
        <4>2. (u \o v)[Len(u) + j] = v[j]
          BY <2>5, <2>6, <4>1, Concatenated
        <4>3. QED
          BY <2>3, <2>5, <2>6, <4>1, <4>2
      <3>3. QED
        BY <3>1, <3>2
    <2>9. \A i \in 1..Len(r) :
            \E j \in 1..Len(s) : j = (IF i < k THEN i ELSE i + 1) /\ r[i] = s[j] /\ j # k
      BY <2>4, <2>7, <2>8
    <2>10. NoTwice(r)
      BY <2>9, <2>4, <2>7 DEF NoTwice
    <2>11. ~Contains(r, m)
      BY <2>1, <2>9 DEF Contains, NoTwice
    <2>12. \A x : Contains(r, x) => Contains(s, x)
      BY <2>9 DEF Contains
    <2>13. QED
      BY <2>2, <2>7, <2>10, <2>11, <2>12
  <1>3. QED
    BY <1>1, <1>2

MenuIds == TgChats \X Nat
MenusIn(s, c) == {m \in s : m[1] = c}
Sent(m) == \E i \in 1..Len(sentBy) : sentBy[i][1] = m
\* A menu whose buttons can still send something.
Ready(m) == m \in menus /\ m \notin unkept /\ ~Sent(m)

\* The menus of a chat are numbered from 1.
MenusNumbered ==
    /\ menus \subseteq MenuIds /\ IsFiniteSet(menus)
    /\ \A m \in menus : m[2] <= Cardinality(MenusIn(menus, m[1]))

LabelsKnown ==
    /\ labels \in Seq(MenuIds) /\ NoTwice(labels)
    /\ \A m : Contains(labels, m) => Ready(m)

Pressed ==
    \/ press = NoPress
    \/ /\ press \in [at : {"answering", "retiring"}, menu : MenuIds, label : MenuIds]
       /\ press.label = press.menu /\ Ready(press.menu)

SentOnce ==
    /\ sentBy \in Seq(MenuIds \X MenuIds)
    /\ \A m : Sent(m) => m \in menus /\ m \notin unkept
    /\ OneMessagePerMenu

\* The labels of a menu, and the tap that has taken them, are gone before it can send again.
MenuInv == MenusNumbered /\ unkept \subseteq menus /\ LabelsKnown /\ Pressed /\ SentOnce

LEMMA OthersLeaveMenus ==
  ASSUME [TelegramNext]_telegramVars
  PROVE  \/ UNCHANGED menuVars \/ PressSends
         \/ \E b \in BOOLEAN : Killed(b) \/ PressAnswered(b)
         \/ \E c \in TgChats : PostsMenu(c)
         \/ \E m \in menus : KeepsLabels(m) \/ Press(m)
  <1>1. CASE UNCHANGED telegramVars
    BY <1>1 DEF telegramVars, menuVars
  <1>2. CASE TextArrives \/ TurnRuns \/ Restarted \/ Replays \/ StartsPolling \/ FlushBegins
    BY <1>2 DEF TextArrives, TurnRuns, Restarted, Replays, StartsPolling, FlushBegins
  <1>3. CASE AsksOnCard \/ CardPosted \/ CardForsaken
    BY <1>3 DEF AsksOnCard, CardPosted, CardForsaken, CardOnly
  <1>4. ASSUME NEW b \in BOOLEAN, NEW w \in BOOLEAN,
               New(b, w) \/ CardWakes(b) \/ CardStamped(b, w)
        PROVE  UNCHANGED menuVars
    BY <1>4 DEF New, CardWakes, CardStamped, CardOnly
  <1>5. ASSUME NEW x, AlbumFile(x) PROVE UNCHANGED menuVars
    BY <1>5 DEF AlbumFile
  <1>6. ASSUME NEW f \in flushes, NEW b \in BOOLEAN, FlushSaves(f, b) \/ FlushHandsOver(f)
        PROVE  UNCHANGED menuVars
    BY <1>6 DEF FlushSaves, FlushHandsOver
  <1>7. ASSUME NEW who \in {"operator", "other"}, NEW v \in {"grant", "deny"},
               CardTapped(who, v)
        PROVE  UNCHANGED menuVars
    BY <1>7 DEF CardTapped, CardOnly
  <1>8. QED
    BY <1>1, <1>2, <1>3, <1>4, <1>5, <1>6, <1>7 DEF TelegramNext

\* The next message of a chat is not one of its menus.
LEMMA MenuIsNew ==
  ASSUME MenusNumbered, NEW c \in TgChats
  PROVE  /\ <<c, NextId(c)>> \in MenuIds /\ <<c, NextId(c)>> \notin menus
         /\ NextId(c) = 1 + Cardinality(MenusIn(menus, c))
         /\ Cardinality(MenusIn(menus, c)) \in Nat /\ IsFiniteSet(MenusIn(menus, c))
  <1>1. IsFiniteSet(MenusIn(menus, c))
    BY FS_Subset DEF MenusNumbered, MenusIn
  <1>2. Cardinality(MenusIn(menus, c)) \in Nat
    BY <1>1, FS_CardinalityType
  <1>3. NextId(c) = 1 + Cardinality(MenusIn(menus, c))
    BY DEF NextId, MenusIn
  <1>4. NextId(c) \in Nat /\ ~(NextId(c) <= Cardinality(MenusIn(menus, c)))
    BY <1>2, <1>3
  <1>5. <<c, NextId(c)>> \notin menus
    BY <1>4 DEF MenusNumbered
  <1>6. QED
    BY <1>1, <1>2, <1>3, <1>4, <1>5 DEF MenuIds

LEMMA NumberedOn ==
  ASSUME MenusNumbered, NEW c \in TgChats, menus' = menus \union {<<c, NextId(c)>>}
  PROVE  MenusNumbered'
  <1> DEFINE x == <<c, NextId(c)>>
             n == Cardinality(MenusIn(menus, c))
  <1>1. x \in MenuIds /\ x \notin menus /\ x[1] = c /\ x[2] = 1 + n /\ n \in Nat
    BY MenuIsNew
  <1>2. IsFiniteSet(MenusIn(menus, c)) /\ x \notin MenusIn(menus, c)
    BY <1>1, MenuIsNew DEF MenusIn
  <1>3. menus' = menus \union {x}
    OBVIOUS
  <1> HIDE DEF x
  <1>4. MenusIn(menus', c) = MenusIn(menus, c) \union {x}
    BY <1>1, <1>3 DEF MenusIn
  <1>5. Cardinality(MenusIn(menus', c)) = n + 1
    BY <1>2, <1>4, FS_AddElement
  <1>6. \A d : d # c => MenusIn(menus', d) = MenusIn(menus, d)
    BY <1>1, <1>3 DEF MenusIn
  <1>7. menus' \subseteq MenuIds /\ IsFiniteSet(menus')
    BY <1>1, <1>3, FS_AddElement DEF MenusNumbered
  <1> HIDE DEF n
  <1>8. ASSUME NEW m \in menus' PROVE m[2] <= Cardinality(MenusIn(menus', m[1]))
    <2>1. CASE m = x
      BY <1>1, <1>5, <2>1
    <2>2. CASE m # x /\ m[1] = c
      <3>1. m[2] <= n /\ m[2] \in Nat
        BY <1>3, <2>2 DEF MenusNumbered, n, MenuIds
      <3>2. QED
        BY <1>1, <1>5, <2>2, <3>1
    <2>3. CASE m # x /\ m[1] # c
      BY <1>3, <1>6, <2>3 DEF MenusNumbered
    <2>4. QED
      BY <2>1, <2>2, <2>3
  <1>9. QED
    BY <1>7, <1>8 DEF MenusNumbered

LEMMA MenusKept ==
  ASSUME MenuInv, [TelegramNext]_telegramVars PROVE MenuInv'
  <1>0. /\ MenusNumbered /\ unkept \subseteq menus /\ LabelsKnown /\ Pressed /\ SentOnce
        /\ LabelCap \in Nat
    BY TelegramAssumption DEF MenuInv
  <1>1. CASE UNCHANGED menuVars
    BY <1>0, <1>1 DEF menuVars, MenuInv, MenusNumbered, LabelsKnown, Pressed, SentOnce,
                      OneMessagePerMenu, Ready, Sent
  <1>2. ASSUME NEW b \in BOOLEAN, Killed(b) PROVE MenuInv'
    <2>1. /\ menus' = menus /\ sentBy' = sentBy /\ unkept' = {} /\ labels' = <<>>
          /\ press' = NoPress
      BY <1>2 DEF Killed
    <2>2. LabelsKnown'
      BY <2>1 DEF LabelsKnown, Contains, NoTwice
    <2>3. MenusNumbered' /\ Pressed'
      BY <1>0, <2>1 DEF MenusNumbered, Pressed
    <2>4. SentOnce'
      BY <1>0, <2>1 DEF SentOnce, Sent, OneMessagePerMenu
    <2>5. QED
      BY <2>1, <2>2, <2>3, <2>4 DEF MenuInv
  <1>3. ASSUME NEW c \in TgChats, PostsMenu(c) PROVE MenuInv'
    <2> DEFINE x == <<c, NextId(c)>>
    <2>1. /\ menus' = menus \union {x} /\ unkept' = unkept \union {x}
          /\ labels' = labels /\ press' = press /\ sentBy' = sentBy
      BY <1>3 DEF PostsMenu
    <2>2. x \notin menus
      BY <1>0, MenuIsNew
    <2>3. MenusNumbered'
      BY <1>0, <2>1, NumberedOn
    <2> HIDE DEF x
    <2>4. \A m : Sent(m)' <=> Sent(m)
      BY <2>1 DEF Sent
    <2>5. \A m : Ready(m) => Ready(m)'
      BY <2>1, <2>2, <2>4 DEF Ready
    <2>6. LabelsKnown' /\ Pressed'
      BY <1>0, <2>1, <2>5 DEF LabelsKnown, Pressed
    <2>7. SentOnce'
      BY <1>0, <2>1, <2>2, <2>4 DEF SentOnce, OneMessagePerMenu
    <2>8. QED
      BY <1>0, <2>1, <2>3, <2>6, <2>7 DEF MenuInv
  <1>4. ASSUME NEW m \in menus, KeepsLabels(m) PROVE MenuInv'
    <2>1. /\ m \in unkept /\ unkept' = unkept \ {m}
          /\ labels' = NewestOf(Append(labels, m), LabelCap)
          /\ menus' = menus /\ press' = press /\ sentBy' = sentBy
      BY <1>4 DEF KeepsLabels
    <2>2. m \in MenuIds /\ ~Contains(labels, m) /\ ~Sent(m)
      BY <1>0, <2>1 DEF MenusNumbered, LabelsKnown, Ready, SentOnce
    <2>3. \A x : Sent(x)' <=> Sent(x)
      BY <2>1 DEF Sent
    <2>4. Ready(m)' /\ \A x : Ready(x) => Ready(x)'
      BY <2>1, <2>2, <2>3 DEF Ready
    <2>5. /\ Append(labels, m) \in Seq(MenuIds) /\ NoTwice(Append(labels, m))
          /\ \A x : Contains(Append(labels, m), x) => Contains(labels, x) \/ x = m
      BY <1>0, <2>2, AppendNoTwice DEF LabelsKnown
    <2>6. /\ labels' \in Seq(MenuIds) /\ NoTwice(labels')
          /\ \A x : Contains(labels', x) => Contains(labels, x) \/ x = m
      BY <1>0, <2>1, <2>5, NewestNoTwice
    <2>7. LabelsKnown' /\ Pressed'
      BY <1>0, <2>1, <2>4, <2>6 DEF LabelsKnown, Pressed
    <2>8. SentOnce' /\ MenusNumbered'
      BY <1>0, <2>1, <2>3 DEF SentOnce, OneMessagePerMenu, MenusNumbered
    <2>9. QED
      BY <1>0, <2>1, <2>7, <2>8 DEF MenuInv
  <1>5. ASSUME NEW m \in menus, Press(m) PROVE MenuInv'
    <2>1. /\ menus' = menus /\ unkept' = unkept /\ labels' = labels /\ sentBy' = sentBy
          /\ \E l \in LabelsOf(m) : press' = [at |-> "answering", menu |-> m, label |-> l]
      BY <1>5 DEF Press
    <2>2. Contains(labels, m) /\ press' = [at |-> "answering", menu |-> m, label |-> m]
      <3>1. PICK l \in LabelsOf(m) : press' = [at |-> "answering", menu |-> m, label |-> l]
        BY <2>1
      <3>2. l = m /\ m \in ToSet(labels)
        BY <3>1 DEF LabelsOf
      <3>3. labels \in Seq(MenuIds)
        BY <1>0 DEF LabelsKnown
      <3>4. Contains(labels, m)
        BY <3>2, <3>3 DEF ToSet, Contains
      <3>5. QED
        BY <3>1, <3>2, <3>4
    <2>3. Ready(m) /\ m \in MenuIds
      BY <1>0, <2>2 DEF LabelsKnown, MenusNumbered
    <2>4. \A x : Sent(x)' <=> Sent(x)
      BY <2>1 DEF Sent
    <2>5. \A x : Ready(x) <=> Ready(x)'
      BY <2>1, <2>4 DEF Ready
    <2>6. Pressed'
      BY <2>2, <2>3, <2>5 DEF Pressed
    <2>7. LabelsKnown' /\ SentOnce' /\ MenusNumbered'
      BY <1>0, <2>1, <2>4, <2>5 DEF LabelsKnown, SentOnce, OneMessagePerMenu, MenusNumbered
    <2>8. QED
      BY <1>0, <2>1, <2>6, <2>7 DEF MenuInv
  <1>6. ASSUME NEW b \in BOOLEAN, PressAnswered(b) PROVE MenuInv'
    <2>1. /\ menus' = menus /\ unkept' = unkept /\ labels' = labels /\ sentBy' = sentBy
          /\ press.at = "answering"
          /\ press' = IF b THEN [press EXCEPT !.at = "retiring"] ELSE NoPress
      BY <1>6 DEF PressAnswered
    <2>2. \A x : Sent(x)' <=> Sent(x)
      BY <2>1 DEF Sent
    <2>3. \A x : Ready(x) <=> Ready(x)'
      BY <2>1, <2>2 DEF Ready
    <2>4. Pressed'
      <3>1. CASE b
        <4>1. /\ press \in [at : {"answering", "retiring"}, menu : MenuIds, label : MenuIds]
              /\ press.label = press.menu /\ Ready(press.menu)
          BY <1>0, <2>1 DEF Pressed, NoPress
        <4>2. press' = [press EXCEPT !.at = "retiring"]
          BY <2>1, <3>1
        <4>3. press' \in [at : {"answering", "retiring"}, menu : MenuIds, label : MenuIds]
              /\ press'.menu = press.menu /\ press'.label = press.label
          BY <4>1, <4>2
        <4>4. QED
          BY <2>3, <4>1, <4>3 DEF Pressed
      <3>2. CASE ~b
        BY <2>1, <3>2 DEF Pressed
      <3>3. QED
        BY <3>1, <3>2
    <2>5. LabelsKnown' /\ SentOnce' /\ MenusNumbered'
      BY <1>0, <2>1, <2>2, <2>3 DEF LabelsKnown, SentOnce, OneMessagePerMenu, MenusNumbered
    <2>6. QED
      BY <1>0, <2>1, <2>4, <2>5 DEF MenuInv
  <1>7. CASE PressSends
    <2> DEFINE k == press.menu
    <2>1. /\ menus' = menus /\ unkept' = unkept /\ labels' = WithoutMenu(labels, k)
          /\ sentBy' = Append(sentBy, <<k, press.label>>)
          /\ press.at = "retiring" /\ press' = NoPress
      BY <1>7 DEF PressSends
    <2>2. k \in MenuIds /\ press.label = k /\ Ready(k)
      BY <1>0, <2>1 DEF Pressed, NoPress
    <2> HIDE DEF k
    <2>3. /\ labels' \in Seq(MenuIds) /\ NoTwice(labels') /\ ~Contains(labels', k)
          /\ \A x : Contains(labels', x) => Contains(labels, x)
      BY <1>0, <2>1, WithoutMenuNoTwice DEF LabelsKnown
    <2>4. /\ sentBy \in Seq(MenuIds \X MenuIds) /\ <<k, k>> \in MenuIds \X MenuIds
          /\ sentBy' = Append(sentBy, <<k, k>>)
      BY <1>0, <2>1, <2>2 DEF SentOnce
    <2>5. /\ sentBy' \in Seq(MenuIds \X MenuIds) /\ Len(sentBy) \in Nat
          /\ Len(sentBy') = Len(sentBy) + 1 /\ sentBy'[Len(sentBy) + 1] = <<k, k>>
          /\ \A i \in 1..Len(sentBy) : sentBy'[i] = sentBy[i]
      BY <2>4
    <2>6. \A i \in 1..Len(sentBy') : i \in 1..Len(sentBy) \/ i = Len(sentBy) + 1
      BY <2>5
    <2>7. \A x : Sent(x)' => Sent(x) \/ x = k
      BY <2>5, <2>6 DEF Sent
    <2>8. \A x : Ready(x) /\ x # k => Ready(x)'
      BY <2>1, <2>7 DEF Ready
    <2>9. LabelsKnown'
      BY <1>0, <2>3, <2>8 DEF LabelsKnown
    <2>10. DOMAIN sentBy' = 1..Len(sentBy') /\ DOMAIN sentBy = 1..Len(sentBy)
      BY <2>4, <2>5
    <2>11. \A i \in 1..Len(sentBy) : sentBy[i][1] # k
      BY <2>2 DEF Ready, Sent
    <2>12. OneMessagePerMenu'
      <3>0. /\ \A i \in 1..Len(sentBy) : sentBy[i][1] = sentBy[i][2]
            /\ \A i, j \in 1..Len(sentBy) : i # j => sentBy[i][1] # sentBy[j][1]
        BY <1>0, <2>10 DEF SentOnce, OneMessagePerMenu
      <3>1. ASSUME NEW i \in 1..Len(sentBy') PROVE sentBy'[i][1] = sentBy'[i][2]
        <4>1. CASE i = Len(sentBy) + 1
          BY <2>5, <4>1
        <4>2. CASE i \in 1..Len(sentBy)
          BY <2>5, <3>0, <4>2
        <4>3. QED
          BY <2>6, <4>1, <4>2
      <3>2. ASSUME NEW i \in 1..Len(sentBy'), NEW j \in 1..Len(sentBy'), i # j
            PROVE  sentBy'[i][1] # sentBy'[j][1]
        <4> DEFINE n == Len(sentBy) + 1
        <4>1. sentBy'[n][1] = k /\ \A l \in 1..Len(sentBy) : sentBy'[l][1] = sentBy[l][1]
          BY <2>5
        <4>2. (i \in 1..Len(sentBy) \/ i = n) /\ (j \in 1..Len(sentBy) \/ j = n)
          BY <2>6
        <4> HIDE DEF n
        <4>3. CASE i = n
          BY <2>11, <3>2, <4>1, <4>2, <4>3
        <4>4. CASE j = n
          BY <2>11, <3>2, <4>1, <4>2, <4>4
        <4>5. CASE i \in 1..Len(sentBy) /\ j \in 1..Len(sentBy)
          BY <3>0, <3>2, <4>1, <4>5
        <4>6. QED
          BY <4>2, <4>3, <4>4, <4>5
      <3>3. QED
        BY <2>10, <3>1, <3>2 DEF OneMessagePerMenu
    <2>13. SentOnce'
      BY <1>0, <2>1, <2>2, <2>5, <2>7, <2>12 DEF SentOnce, Ready
    <2>14. QED
      BY <1>0, <2>1, <2>9, <2>13 DEF MenuInv, MenusNumbered, Pressed
  <1>8. QED
    BY <1>1, <1>2, <1>3, <1>4, <1>5, <1>6, <1>7, OthersLeaveMenus

LEMMA MenusStart ==
  ASSUME TelegramInit PROVE MenuInv
  <1>1. /\ menus = {} /\ unkept = {} /\ labels = <<>> /\ press = NoPress /\ sentBy = <<>>
    BY DEF TelegramInit
  <1>2. MenusNumbered
    BY <1>1, FS_EmptySet DEF MenusNumbered
  <1>3. LabelsKnown
    BY <1>1 DEF LabelsKnown, NoTwice, Contains
  <1>4. SentOnce
    BY <1>1 DEF SentOnce, Sent, OneMessagePerMenu
  <1>5. QED
    BY <1>1, <1>2, <1>3, <1>4 DEF MenuInv, Pressed

-----------------------------------------------------------------------------
\* The session a chat is in is that of its last /new, also when turns of earlier ones are
\* replayed; no turn runs in an earlier session than it was asked in; a file of an album is in
\* one message; a menu sends one message, of its own labels; and a card says, and its caller is
\* told, what the operator answered.
THEOREM TelegramIsAsTold == TelegramSpec => []TelegramKeeps
  <1> DEFINE Inv == SessionInv /\ AlbumInv /\ CardInv /\ MenuInv
  <1>1. TelegramInit => Inv
    BY SessionStarts, AlbumsStart, CardStarts, MenusStart
  <1>2. Inv /\ [TelegramNext]_telegramVars => Inv'
    BY SessionKept, AlbumsKept, CardKept, MenusKept
  <1>3. Inv => TelegramKeeps
    <2>1. CardInv => CardsAreHonest
      BY DEF CardInv, CardsAreHonest, Excused
    <2>2. AlbumInv => AlbumsAreWhole
      BY DEF AlbumInv
    <2>3. MenuInv => OneMessagePerMenu
      BY DEF MenuInv, SentOnce
    <2>4. QED
      BY <2>1, <2>2, <2>3, SessionIsKept DEF TelegramKeeps
  <1>4. QED
    BY <1>1, <1>2, <1>3, PTL DEF TelegramSpec

-----------------------------------------------------------------------------
(* Approvals: what the invariant says of a call, of a key and of two calls. *)

SameKey(c, d) == wants[c] = wants[d]
Tapped(c) == click[c] # "none"

\* A call asks at one time, is clicked on after it, and is answered within its limit.
Timely(c) ==
    /\ asks[c] = 0 => nonce[c] = "none" /\ ~Tapped(c)
    /\ asks[c] <= time
    /\ Tapped(c) => asks[c] <= clickedAt[c] /\ clickedAt[c] <= time
    /\ callAt[c] \in {"posting", "waiting", "retiring"} =>
         time <= asks[c] + AnswerTime

\* What a call knows at each point of its way.
Stands(c) ==
    /\ callAt[c] \in {"new", "joined"} => asks[c] = 0
    /\ callAt[c] \in Asking => asks[c] > 0 /\ inFlight[wants[c]] = c
    /\ callAt[c] = "joined" => inFlight[wants[c]] # NoCall
    /\ callAt[c] \in {"retiring", "closing"} => nonce[c] = "none"
    /\ callAt[c] = "retiring" => Tapped(c)
    /\ callAt[c] = "closing" /\ Tapped(c) => c \in cutOff
    /\ callAt[c] \notin {"closing", "done"} => c \notin cutOff
    /\ nonce[c] = "pending" => ~Tapped(c)
    /\ nonce[c] \in {"yes", "no"} => Tapped(c)

\* A "no" that was returned is remembered.
Cools(c) ==
    callAt[c] = "done" /\ click[c] = "no" /\ c \notin cutOff =>
        deniedTill[wants[c]] >= clickedAt[c] + Cooldown

\* A card that was approved, whose call has returned.
Approved(d, k) ==
    /\ wants[d] = k /\ click[d] = "yes" /\ d \notin cutOff
    /\ callAt[d] = "done" /\ nonce[d] = "none"

\* A key is in question with a call that asks, and a grant is of an approved card.
KeyStands(k) ==
    /\ inFlight[k] # NoCall => callAt[inFlight[k]] \in Asking /\ wants[inFlight[k]] = k
    /\ grantedTill[k] > 0 =>
         \E d \in Calls : Approved(d, k) /\ grantedTill[k] <= clickedAt[d] + AnswerTime + GrantTtl

\* Whoever asks is the last to have asked.
AsksLast == \A c, d \in Calls : callAt[c] \in Asking /\ SameKey(c, d) => asks[d] <= asks[c]

CallsStand == \A c \in Calls : Timely(c) /\ Stands(c) /\ Cools(c)
KeysStand == \A k \in GrantKeys : KeyStands(k)

ApprovalsInv ==
    /\ ApprovalsTypeOK /\ CallsStand /\ KeysStand /\ AsksLast
    /\ NoIsRemembered /\ OnlyApprovedGoAhead

\* The types, with the sums of times they are used for.
LEMMA ApprovalFacts ==
  ASSUME ApprovalsTypeOK
  PROVE  /\ "none" \notin Calls /\ MaxTime \in Nat \ {0}
         /\ Cooldown \in Nat /\ GrantTtl \in Nat /\ AnswerTime \in Nat
         /\ time \in Nat /\ 1 <= time /\ time <= MaxTime
         /\ \A c \in Calls : asks[c] \in Nat /\ clickedAt[c] \in Nat /\ wants[c] \in GrantKeys
         /\ \A k \in GrantKeys : grantedTill[k] \in Nat /\ deniedTill[k] \in Nat
  <1>1. "none" \notin Calls /\ MaxTime \in Nat \ {0}
        /\ Cooldown \in Nat /\ GrantTtl \in Nat /\ AnswerTime \in Nat
    BY ApprovalsAssumption
  <1>2. time \in Nat /\ 1 <= time /\ time <= MaxTime
    BY <1>1 DEF ApprovalsTypeOK
  <1>3. \A c \in Calls : asks[c] \in 0..MaxTime /\ clickedAt[c] \in 0..MaxTime
    BY DEF ApprovalsTypeOK
  <1>4. \A k \in GrantKeys :
          grantedTill[k] \in 0..(MaxTime + GrantTtl) /\ deniedTill[k] \in 0..(MaxTime + Cooldown)
    BY DEF ApprovalsTypeOK
  <1>5. \A c \in Calls : wants[c] \in GrantKeys
    BY DEF ApprovalsTypeOK
  <1>6. QED
    BY <1>1, <1>2, <1>3, <1>4, <1>5

\* A step that lets time and the key's standing be, and moves only call c.
MovesOnly(c) ==
    /\ UNCHANGED <<time, grantedTill, deniedTill, asks, wants, inFlight>>
    /\ \A d \in Calls \ {c} : /\ callAt'[d] = callAt[d] /\ nonce'[d] = nonce[d]
                              /\ click'[d] = click[d] /\ clickedAt'[d] = clickedAt[d]
                              /\ (d \in cutOff' <=> d \in cutOff)
                              /\ verdict'[d] = verdict[d]

\* The invariant is about calls of which one moves at a time: what it has to show for it.
LEMMA OneMoves ==
  ASSUME ApprovalsInv, ApprovalsTypeOK', NEW c \in Calls, MovesOnly(c),
         Timely(c)', Stands(c)', Cools(c)',
         callAt'[c] \in Asking <=> callAt[c] \in Asking,
         click'[c] = click[c] \/ click[c] = "none",
         c \in cutOff => c \in cutOff',
         callAt[c] = "done" => callAt'[c] = "done",
         click'[c] = "no" /\ callAt'[c] = "done" /\ c \notin cutOff' =>
             click[c] = "no" /\ callAt[c] = "done" /\ clickedAt'[c] = clickedAt[c],
         \A k \in GrantKeys : Approved(c, k) =>
             callAt'[c] = "done" /\ nonce'[c] = "none" /\ click'[c] = "yes" /\ c \notin cutOff'
               /\ clickedAt'[c] = clickedAt[c],
         callAt'[c] # "done" \/ verdict'[c] # "allowed"
             \/ (callAt[c] = "done" /\ verdict[c] = "allowed")
             \/ \E d \in Calls : SameKey(c, d) /\ click[d] = "yes"
  PROVE  ApprovalsInv'
  <1>0. /\ CallsStand /\ KeysStand /\ AsksLast /\ NoIsRemembered /\ OnlyApprovedGoAhead
        /\ ApprovalsTypeOK
    BY DEF ApprovalsInv
  <1>1. /\ time' = time /\ grantedTill' = grantedTill /\ deniedTill' = deniedTill
        /\ asks' = asks /\ wants' = wants /\ inFlight' = inFlight
    BY DEF MovesOnly
  <1>2. ASSUME NEW d \in Calls, d # c PROVE Timely(d)' /\ Stands(d)' /\ Cools(d)'
    <2>1. /\ callAt'[d] = callAt[d] /\ nonce'[d] = nonce[d] /\ click'[d] = click[d]
          /\ clickedAt'[d] = clickedAt[d] /\ (d \in cutOff' <=> d \in cutOff)
      BY <1>2 DEF MovesOnly
    <2>2. Timely(d) /\ Stands(d) /\ Cools(d)
      BY <1>0 DEF CallsStand
    <2>3. Timely(d)'
      BY <1>1, <2>1, <2>2 DEF Timely, Tapped
    <2>4. Stands(d)'
      BY <1>1, <2>1, <2>2 DEF Stands, Tapped
    <2>5. Cools(d)'
      BY <1>1, <2>1, <2>2 DEF Cools
    <2>6. QED
      BY <2>3, <2>4, <2>5
  <1>3. CallsStand'
    BY <1>2 DEF CallsStand
  <1>4. \A d \in Calls : callAt'[d] \in Asking <=> callAt[d] \in Asking
    BY DEF MovesOnly
  <1>5. \A d \in Calls, k \in GrantKeys :
          Approved(d, k) => Approved(d, k)' /\ clickedAt'[d] = clickedAt[d]
    <2>1. ASSUME NEW d \in Calls, NEW k \in GrantKeys, Approved(d, k), d # c
          PROVE  Approved(d, k)' /\ clickedAt'[d] = clickedAt[d]
      BY <1>1, <2>1 DEF MovesOnly, Approved
    <2>2. ASSUME NEW k \in GrantKeys, Approved(c, k)
          PROVE  Approved(c, k)' /\ clickedAt'[c] = clickedAt[c]
      BY <1>1, <2>2 DEF Approved
    <2>3. QED
      BY <2>1, <2>2
  <1>6. KeysStand'
    <2>1. ASSUME NEW k \in GrantKeys PROVE KeyStands(k)'
      <3>1. KeyStands(k)
        BY <1>0 DEF KeysStand
      <3>2. inFlight[k] \in Calls \union {"none"}
        BY <1>0 DEF ApprovalsTypeOK, NoCall
      <3>3. inFlight'[k] # NoCall =>
              callAt'[inFlight'[k]] \in Asking /\ wants'[inFlight'[k]] = k
        BY <1>1, <1>4, <3>1, <3>2 DEF KeyStands, NoCall
      <3>4. grantedTill'[k] > 0 =>
              \E d \in Calls : Approved(d, k)'
                               /\ grantedTill'[k] <= clickedAt'[d] + AnswerTime + GrantTtl
        <4>1. SUFFICES ASSUME grantedTill[k] > 0
                       PROVE  \E d \in Calls :
                                Approved(d, k)'
                                /\ grantedTill'[k] <= clickedAt'[d] + AnswerTime + GrantTtl
          BY <1>1
        <4>2. PICK d \in Calls :
                Approved(d, k) /\ grantedTill[k] <= clickedAt[d] + AnswerTime + GrantTtl
          BY <3>1, <4>1 DEF KeyStands
        <4>3. Approved(d, k)' /\ clickedAt'[d] = clickedAt[d]
          BY <1>5, <4>2
        <4>4. QED
          BY <1>1, <4>2, <4>3
      <3>5. QED
        BY <3>3, <3>4 DEF KeyStands
    <2>2. QED
      BY <2>1 DEF KeysStand
  <1>7. AsksLast'
    BY <1>0, <1>1, <1>4 DEF AsksLast, SameKey
  <1>8. NoIsRemembered'
    <2>1. ASSUME NEW d \in Calls, click'[d] = "no", callAt'[d] = "done", d \notin cutOff'
          PROVE  /\ click[d] = "no" /\ callAt[d] = "done" /\ clickedAt'[d] = clickedAt[d]
                 /\ d \notin cutOff
      BY <2>1 DEF MovesOnly
    <2>2. \A d \in Calls : d \notin cutOff' => d \notin cutOff
      BY DEF MovesOnly
    <2>3. QED
      BY <1>0, <1>1, <2>1, <2>2 DEF NoIsRemembered
  <1>9. OnlyApprovedGoAhead'
    <2>1. \A d \in Calls : click[d] = "yes" => click'[d] = "yes"
      BY DEF MovesOnly
    <2>2. ASSUME NEW d \in Calls, callAt'[d] = "done", verdict'[d] = "allowed"
          PROVE  \E e \in Calls : wants[e] = wants[d] /\ click[e] = "yes"
      <3>1. CASE d = c
        BY <1>0, <2>2, <3>1 DEF OnlyApprovedGoAhead, SameKey
      <3>2. CASE d # c
        <4>1. callAt[d] = "done" /\ verdict[d] = "allowed"
          BY <2>2, <3>2 DEF MovesOnly
        <4>2. QED
          BY <1>0, <4>1 DEF OnlyApprovedGoAhead
      <3>3. QED
        BY <3>1, <3>2
    <2>3. QED
      BY <1>1, <2>1, <2>2 DEF OnlyApprovedGoAhead
  <1>10. QED
    BY <1>3, <1>6, <1>7, <1>8, <1>9 DEF ApprovalsInv

\* Settling a question keeps the types of what it assigns.
LEMMA SettleTypes ==
  ASSUME ApprovalsTypeOK, NEW c \in Calls, NEW granted \in BOOLEAN, NEW answered \in BOOLEAN,
         Settle(c, granted, answered)
  PROVE  /\ callAt' \in [Calls -> Asking \cup {"new", "joined", "done"}]
         /\ verdict' \in [Calls -> {"none", "allowed", "denied"}]
         /\ inFlight' \in [GrantKeys -> Calls \cup {NoCall}]
  BY DEF ApprovalsTypeOK, Settle

LEMMA ApprovalTypesKept ==
  ASSUME ApprovalsTypeOK, ApprovalsNext
  PROVE  ApprovalsTypeOK'
  <1> USE DEF ApprovalsTypeOK
  <1>0. /\ "none" \notin Calls /\ MaxTime \in Nat \ {0}
        /\ Cooldown \in Nat /\ GrantTtl \in Nat /\ AnswerTime \in Nat
    BY ApprovalsAssumption
  <1>1. ASSUME NEW c \in Calls, AnswerAtOnce(c) PROVE ApprovalsTypeOK'
    BY <1>1 DEF AnswerAtOnce
  <1>2. ASSUME NEW c \in Calls, Join(c) PROVE ApprovalsTypeOK'
    BY <1>2 DEF Join
  <1>3. ASSUME NEW c \in Calls, Ask(c) PROVE ApprovalsTypeOK'
    <2>1. time \in 0..MaxTime
      BY <1>0
    <2>2. asks' \in [Calls -> 0..MaxTime]
      BY <1>3, <2>1 DEF Ask
    <2>3. QED
      BY <1>3, <2>2 DEF Ask, Asking
  <1>4. ASSUME NEW c \in Calls, CardShown(c) PROVE ApprovalsTypeOK'
    BY <1>4 DEF CardShown
  <1>5. ASSUME NEW c \in Calls, PostReturns(c) PROVE ApprovalsTypeOK'
    BY <1>5 DEF PostReturns, Asking
  <1>6. ASSUME NEW c \in Calls, NEW yes \in BOOLEAN, Click(c, yes) PROVE ApprovalsTypeOK'
    <2>1. time \in 0..MaxTime
      BY <1>0
    <2>2. clickedAt' \in [Calls -> 0..MaxTime]
      BY <1>6, <2>1 DEF Click
    <2>3. /\ nonce' \in [Calls -> {"none", "pending", "yes", "no"}]
          /\ click' \in [Calls -> {"none", "yes", "no"}] /\ cutOff' \subseteq Calls
      BY <1>6 DEF Click
    <2>4. QED
      BY <1>6, <2>2, <2>3 DEF Click
  <1>7. ASSUME NEW c \in Calls, Answered(c) PROVE ApprovalsTypeOK'
    BY <1>7 DEF Answered, Asking
  <1>8. ASSUME NEW c \in Calls, CardRetired(c) PROVE ApprovalsTypeOK'
    BY <1>8 DEF CardRetired
  <1>9. ASSUME NEW c \in Calls, Returns(c) PROVE ApprovalsTypeOK'
    <2>1. /\ callAt' \in [Calls -> Asking \cup {"new", "joined", "done"}]
          /\ verdict' \in [Calls -> {"none", "allowed", "denied"}]
          /\ inFlight' \in [GrantKeys -> Calls \cup {NoCall}]
      BY <1>9, SettleTypes DEF Returns
    <2>2. /\ time + GrantTtl \in 0..(MaxTime + GrantTtl)
          /\ time + Cooldown \in 0..(MaxTime + Cooldown)
      BY <1>0
    <2>3. /\ grantedTill' \in [GrantKeys -> 0..(MaxTime + GrantTtl)]
          /\ deniedTill' \in [GrantKeys -> 0..(MaxTime + Cooldown)]
      BY <1>9, <2>2 DEF Returns
    <2>4. QED
      BY <1>9, <2>1, <2>3 DEF Returns
  <1>10. ASSUME NEW c \in Calls, PostRaises(c) PROVE ApprovalsTypeOK'
    <2>1. /\ callAt' \in [Calls -> Asking \cup {"new", "joined", "done"}]
          /\ verdict' \in [Calls -> {"none", "allowed", "denied"}]
          /\ inFlight' \in [GrantKeys -> Calls \cup {NoCall}]
      BY <1>10, SettleTypes DEF PostRaises
    <2>2. cutOff' \subseteq Calls /\ nonce' \in [Calls -> {"none", "pending", "yes", "no"}]
      BY <1>10 DEF PostRaises
    <2>3. QED
      BY <1>10, <2>1, <2>2 DEF PostRaises
  <1>11. ASSUME NEW c \in Calls, Cut(c) PROVE ApprovalsTypeOK'
    <2>1. cutOff' \subseteq Calls
      BY <1>11 DEF Cut
    <2>2. CASE callAt[c] = "waiting"
      BY <1>11, <2>1, <2>2 DEF Cut, Asking
    <2>3. CASE callAt[c] # "waiting"
      <3>1. Settle(c, FALSE, FALSE) /\ nonce' = nonce
        BY <1>11, <2>3 DEF Cut
      <3>2. QED
        BY <1>11, <2>1, <3>1, SettleTypes DEF Cut
    <2>4. QED
      BY <2>2, <2>3
  <1>12. ASSUME NEW c \in Calls, Closed(c) PROVE ApprovalsTypeOK'
    <2>1. /\ callAt' \in [Calls -> Asking \cup {"new", "joined", "done"}]
          /\ verdict' \in [Calls -> {"none", "allowed", "denied"}]
          /\ inFlight' \in [GrantKeys -> Calls \cup {NoCall}]
      BY <1>12, SettleTypes DEF Closed
    <2>2. card' \in [Calls -> {"none", "live", "approved", "denied"}]
      BY <1>12 DEF Closed
    <2>3. QED
      BY <1>12, <2>1, <2>2 DEF Closed
  <1>13. ASSUME NEW c \in Calls, AbortJoined(c) PROVE ApprovalsTypeOK'
    BY <1>13 DEF AbortJoined
  <1>14. ASSUME TimeGoes PROVE ApprovalsTypeOK'
    <2>1. time' \in 1..MaxTime
      BY <1>0, <1>14 DEF TimeGoes
    <2>2. QED
      BY <1>14, <2>1 DEF TimeGoes
  <1>15. QED
    BY <1>1, <1>2, <1>3, <1>4, <1>5, <1>6, <1>7, <1>8, <1>9, <1>10, <1>11, <1>12, <1>13,
       <1>14 DEF ApprovalsNext, TimeOut, Abort

\* What the invariant says of one call, with its types.
LEMMA CallFacts ==
  ASSUME ApprovalsInv, NEW c \in Calls
  PROVE  /\ ApprovalsTypeOK /\ Timely(c) /\ Stands(c) /\ Cools(c)
         /\ KeyStands(wants[c]) /\ wants[c] \in GrantKeys
         /\ callAt[c] \in Asking \cup {"new", "joined", "done"}
         /\ verdict[c] \in {"none", "allowed", "denied"}
         /\ nonce[c] \in {"none", "pending", "yes", "no"} /\ click[c] \in {"none", "yes", "no"}
         /\ asks[c] \in Nat /\ clickedAt[c] \in Nat
  <1>1. ApprovalsTypeOK /\ CallsStand /\ KeysStand
    BY DEF ApprovalsInv
  <1>2. asks[c] \in Nat /\ clickedAt[c] \in Nat /\ wants[c] \in GrantKeys
    BY <1>1, ApprovalFacts
  <1>3. /\ callAt[c] \in Asking \cup {"new", "joined", "done"}
        /\ verdict[c] \in {"none", "allowed", "denied"}
        /\ nonce[c] \in {"none", "pending", "yes", "no"} /\ click[c] \in {"none", "yes", "no"}
    BY <1>1 DEF ApprovalsTypeOK
  <1>4. QED
    BY <1>1, <1>2, <1>3 DEF CallsStand, KeysStand

\* A call is answered without a question: by a grant, somebody approved a card for it.
LEMMA AnsweredAtOnceKept ==
  ASSUME ApprovalsInv, ApprovalsTypeOK', NEW c \in Calls, AnswerAtOnce(c)
  PROVE  ApprovalsInv'
  <1>1. /\ Timely(c) /\ Stands(c) /\ KeyStands(wants[c]) /\ ApprovalsTypeOK
        /\ wants[c] \in GrantKeys
    BY CallFacts
  <1>2. /\ callAt[c] = "new" /\ callAt'[c] = "done"
        /\ verdict'[c] = IF Allows(wants[c]) THEN "allowed" ELSE "denied"
    BY <1>1 DEF AnswerAtOnce, ApprovalsTypeOK
  <1>3. /\ time' = time /\ deniedTill' = deniedTill /\ asks' = asks /\ wants' = wants
        /\ inFlight' = inFlight /\ nonce' = nonce /\ click' = click
        /\ clickedAt' = clickedAt /\ cutOff' = cutOff
    BY DEF AnswerAtOnce
  <1>4. MovesOnly(c)
    BY <1>1 DEF MovesOnly, AnswerAtOnce, ApprovalsTypeOK
  <1>5. asks[c] = 0 /\ nonce[c] = "none" /\ click[c] = "none"
    BY <1>1, <1>2 DEF Timely, Stands, Tapped
  <1>6. Timely(c)' /\ Stands(c)' /\ Cools(c)'
    BY <1>1, <1>2, <1>3, <1>5 DEF Timely, Stands, Cools, Tapped, Asking
  <1>7. ASSUME verdict'[c] = "allowed"
        PROVE  \E d \in Calls : SameKey(c, d) /\ click[d] = "yes"
    <2>1. time < grantedTill[wants[c]]
      BY <1>2, <1>7 DEF Allows
    <2>2. time \in Nat /\ grantedTill[wants[c]] \in Nat
      BY <1>1, ApprovalFacts
    <2>3. grantedTill[wants[c]] > 0
      BY <2>1, <2>2
    <2>4. QED
      BY <1>1, <2>3 DEF KeyStands, Approved, SameKey
  <1>8. QED
    BY <1>2, <1>3, <1>4, <1>5, <1>6, <1>7, OneMoves DEF Approved, Asking

LEMMA JoinKept ==
  ASSUME ApprovalsInv, ApprovalsTypeOK', NEW c \in Calls, Join(c)
  PROVE  ApprovalsInv'
  <1>1. /\ Timely(c) /\ Stands(c) /\ ApprovalsTypeOK
    BY CallFacts
  <1>2. callAt[c] = "new" /\ callAt'[c] = "joined" /\ inFlight[wants[c]] # NoCall
    BY <1>1 DEF Join, MayAsk, ApprovalsTypeOK
  <1>3. /\ time' = time /\ deniedTill' = deniedTill /\ asks' = asks /\ wants' = wants
        /\ inFlight' = inFlight /\ nonce' = nonce /\ click' = click
        /\ clickedAt' = clickedAt /\ cutOff' = cutOff /\ verdict' = verdict
    BY DEF Join
  <1>4. MovesOnly(c)
    BY <1>1 DEF MovesOnly, Join, ApprovalsTypeOK
  <1>5. Timely(c)' /\ Stands(c)' /\ Cools(c)'
    BY <1>1, <1>2, <1>3 DEF Timely, Stands, Cools, Tapped, Asking
  <1>6. QED
    BY <1>2, <1>3, <1>4, <1>5, OneMoves DEF Approved, Asking

LEMMA PostReturnsKept ==
  ASSUME ApprovalsInv, ApprovalsTypeOK', NEW c \in Calls, PostReturns(c)
  PROVE  ApprovalsInv'
  <1>1. Timely(c) /\ Stands(c) /\ ApprovalsTypeOK
    BY CallFacts
  <1>2. callAt[c] = "posting" /\ callAt'[c] = "waiting"
    BY <1>1 DEF PostReturns, ApprovalsTypeOK
  <1>3. /\ time' = time /\ deniedTill' = deniedTill /\ asks' = asks /\ wants' = wants
        /\ inFlight' = inFlight /\ nonce' = nonce /\ click' = click
        /\ clickedAt' = clickedAt /\ cutOff' = cutOff /\ verdict' = verdict
    BY DEF PostReturns
  <1>4. MovesOnly(c)
    BY <1>1 DEF MovesOnly, PostReturns, ApprovalsTypeOK
  <1>5. Timely(c)' /\ Stands(c)' /\ Cools(c)'
    BY <1>1, <1>2, <1>3 DEF Timely, Stands, Cools, Tapped, Asking
  <1>6. QED
    BY <1>2, <1>3, <1>4, <1>5, OneMoves DEF Approved, Asking

LEMMA AnsweredKept ==
  ASSUME ApprovalsInv, ApprovalsTypeOK', NEW c \in Calls, Answered(c)
  PROVE  ApprovalsInv'
  <1>1. Timely(c) /\ Stands(c) /\ ApprovalsTypeOK
    BY CallFacts
  <1>2. /\ callAt[c] = "waiting" /\ callAt'[c] = "retiring"
        /\ nonce[c] \in {"yes", "no"} /\ nonce'[c] = "none"
    BY <1>1 DEF Answered, ApprovalsTypeOK
  <1>3. /\ time' = time /\ deniedTill' = deniedTill /\ asks' = asks /\ wants' = wants
        /\ inFlight' = inFlight /\ click' = click
        /\ clickedAt' = clickedAt /\ cutOff' = cutOff /\ verdict' = verdict
    BY DEF Answered
  <1>4. MovesOnly(c)
    BY <1>1 DEF MovesOnly, Answered, ApprovalsTypeOK
  <1>5. Timely(c)' /\ Stands(c)' /\ Cools(c)'
    BY <1>1, <1>2, <1>3 DEF Timely, Stands, Cools, Tapped, Asking
  <1>6. QED
    BY <1>2, <1>3, <1>4, <1>5, OneMoves DEF Approved, Asking

\* A click is the first on its card; a call that has returned already is cut off from it.
LEMMA ClickKept ==
  ASSUME ApprovalsInv, ApprovalsTypeOK', NEW c \in Calls, NEW yes \in BOOLEAN, Click(c, yes)
  PROVE  ApprovalsInv'
  <1>1. /\ Timely(c) /\ Stands(c) /\ ApprovalsTypeOK
        /\ callAt[c] \in Asking \cup {"new", "joined", "done"}
        /\ asks[c] \in Nat /\ asks[c] <= time
    BY CallFacts DEF Timely
  <1>2. /\ nonce[c] = "pending" /\ nonce'[c] = IF yes THEN "yes" ELSE "no"
        /\ click'[c] = IF yes THEN "yes" ELSE "no"
        /\ clickedAt'[c] = time
        /\ cutOff' = IF callAt[c] = "done" THEN cutOff \cup {c} ELSE cutOff
    BY <1>1 DEF Click, ApprovalsTypeOK
  <1>3. /\ time' = time /\ deniedTill' = deniedTill /\ asks' = asks /\ wants' = wants
        /\ inFlight' = inFlight /\ callAt' = callAt /\ verdict' = verdict
    BY DEF Click
  <1>4. MovesOnly(c)
    BY <1>1 DEF MovesOnly, Click, ApprovalsTypeOK
  <1>5. /\ click[c] = "none" /\ asks[c] # 0
        /\ callAt[c] \notin {"new", "joined", "retiring", "closing"}
    BY <1>1, <1>2 DEF Timely, Stands, Tapped
  <1>6. Timely(c)'
    <2>1. time \in Nat
      BY <1>1, ApprovalFacts
    <2>2. QED
      BY <1>1, <1>2, <1>3, <1>5, <2>1 DEF Timely, Tapped
  <1>7. Stands(c)'
    BY <1>1, <1>2, <1>3, <1>5 DEF Stands, Tapped
  <1>8. Cools(c)'
    BY <1>2, <1>3 DEF Cools
  <1>9. click'[c] = "no" /\ callAt'[c] = "done" => c \in cutOff'
    BY <1>2, <1>3
  <1>10. callAt'[c] # "done" \/ verdict'[c] # "allowed"
           \/ (callAt[c] = "done" /\ verdict[c] = "allowed")
    BY <1>3
  <1>11. \A k \in GrantKeys : ~Approved(c, k)
    BY <1>5 DEF Approved
  <1>12. c \in cutOff => c \in cutOff'
    BY <1>2
  <1>13. QED
    BY <1>3, <1>4, <1>5, <1>6, <1>7, <1>8, <1>9, <1>10, <1>11, <1>12, OneMoves

LEMMA AbortJoinedKept ==
  ASSUME ApprovalsInv, ApprovalsTypeOK', NEW c \in Calls, AbortJoined(c)
  PROVE  ApprovalsInv'
  <1>1. Timely(c) /\ Stands(c) /\ ApprovalsTypeOK
    BY CallFacts
  <1>2. callAt[c] = "joined" /\ callAt'[c] = "done" /\ verdict'[c] = "denied"
    BY <1>1 DEF AbortJoined, ApprovalsTypeOK
  <1>3. /\ time' = time /\ deniedTill' = deniedTill /\ asks' = asks /\ wants' = wants
        /\ inFlight' = inFlight /\ click' = click /\ nonce' = nonce
        /\ clickedAt' = clickedAt /\ cutOff' = cutOff
    BY DEF AbortJoined
  <1>4. MovesOnly(c)
    BY <1>1 DEF MovesOnly, AbortJoined, ApprovalsTypeOK
  <1>5. asks[c] = 0 /\ nonce[c] = "none" /\ click[c] = "none"
    BY <1>1, <1>2 DEF Timely, Stands, Tapped
  <1>6. Timely(c)' /\ Stands(c)' /\ Cools(c)'
    BY <1>1, <1>2, <1>3, <1>5 DEF Timely, Stands, Cools, Tapped, Asking
  <1>7. QED
    BY <1>2, <1>3, <1>4, <1>5, <1>6, OneMoves DEF Approved, Asking

\* The wait is cut: an answer that came in it is lost with it.
LEMMA CutWaitingKept ==
  ASSUME ApprovalsInv, ApprovalsTypeOK', NEW c \in Calls, Cut(c), callAt[c] = "waiting"
  PROVE  ApprovalsInv'
  <1>1. Timely(c) /\ Stands(c) /\ ApprovalsTypeOK
    BY CallFacts
  <1>2. /\ callAt'[c] = "closing" /\ nonce'[c] = "none"
        /\ cutOff' = IF click[c] = "none" THEN cutOff ELSE cutOff \cup {c}
    BY <1>1 DEF Cut, ApprovalsTypeOK
  <1>3. /\ time' = time /\ deniedTill' = deniedTill /\ asks' = asks /\ wants' = wants
        /\ inFlight' = inFlight /\ click' = click
        /\ clickedAt' = clickedAt /\ verdict' = verdict
    BY DEF Cut
  <1>4. MovesOnly(c)
    BY <1>1 DEF MovesOnly, Cut, ApprovalsTypeOK
  <1>5. Timely(c)' /\ Stands(c)' /\ Cools(c)'
    BY <1>1, <1>2, <1>3 DEF Timely, Stands, Cools, Tapped, Asking
  <1>6. c \in cutOff => c \in cutOff'
    BY <1>2
  <1>7. QED
    BY <1>2, <1>3, <1>4, <1>5, <1>6, OneMoves DEF Approved, Asking

\* What the thread shows of a card is nothing the answers rest on.
LEMMA ShownKept ==
  ASSUME ApprovalsInv, ApprovalsTypeOK', UNCHANGED <<time, grantedTill, deniedTill, asks, wants,
         callAt, verdict, inFlight, nonce, click, clickedAt, cutOff>>
  PROVE  ApprovalsInv'
  <1>1. CallsStand'
    BY DEF ApprovalsInv, CallsStand, Timely, Stands, Cools, Tapped
  <1>2. KeysStand' /\ AsksLast'
    BY DEF ApprovalsInv, KeysStand, KeyStands, Approved, AsksLast, SameKey
  <1>3. NoIsRemembered' /\ OnlyApprovedGoAhead'
    BY DEF ApprovalsInv, NoIsRemembered, OnlyApprovedGoAhead
  <1>4. QED
    BY <1>1, <1>2, <1>3 DEF ApprovalsInv

\* A call asks about a key that nobody asks about and that is not refused.
LEMMA AskKept ==
  ASSUME ApprovalsInv, ApprovalsTypeOK', NEW c \in Calls, Ask(c)
  PROVE  ApprovalsInv'
  <1>0. /\ CallsStand /\ KeysStand /\ AsksLast /\ NoIsRemembered /\ OnlyApprovedGoAhead
        /\ ApprovalsTypeOK
    BY DEF ApprovalsInv
  <1>1. /\ "none" \notin Calls /\ Cooldown \in Nat /\ AnswerTime \in Nat
        /\ time \in Nat /\ 1 <= time /\ wants[c] \in GrantKeys
        /\ \A d \in Calls : asks[d] \in Nat /\ clickedAt[d] \in Nat /\ wants[d] \in GrantKeys
        /\ \A k \in GrantKeys : grantedTill[k] \in Nat /\ deniedTill[k] \in Nat
    BY <1>0, ApprovalFacts
  <1>2. /\ callAt[c] = "new" /\ callAt'[c] = "posting" /\ asks'[c] = time
        /\ inFlight[wants[c]] = NoCall /\ inFlight'[wants[c]] = c /\ nonce'[c] = "pending"
        /\ ~(time < deniedTill[wants[c]])
    BY <1>0, <1>1 DEF Ask, MayAsk, InCooldown, ApprovalsTypeOK
  <1>3. /\ time' = time /\ deniedTill' = deniedTill /\ grantedTill' = grantedTill
        /\ wants' = wants /\ click' = click /\ clickedAt' = clickedAt
        /\ cutOff' = cutOff /\ verdict' = verdict
    BY DEF Ask
  <1>4. /\ \A d \in Calls \ {c} :
             callAt'[d] = callAt[d] /\ asks'[d] = asks[d] /\ nonce'[d] = nonce[d]
        /\ \A k \in GrantKeys \ {wants[c]} : inFlight'[k] = inFlight[k]
    BY <1>0 DEF Ask, ApprovalsTypeOK
  <1>5. Timely(c) /\ Stands(c)
    BY <1>0 DEF CallsStand
  <1>6. ~Tapped(c) /\ c \notin cutOff
    BY <1>2, <1>5 DEF Timely, Stands
  <1>7. \A d \in Calls : callAt[d] \in Asking => wants[d] # wants[c] /\ d # c
    <2>1. ASSUME NEW d \in Calls, callAt[d] \in Asking PROVE inFlight[wants[d]] = d
      BY <1>0, <2>1 DEF CallsStand, Stands
    <2>2. QED
      BY <1>1, <1>2, <2>1 DEF NoCall, Asking
  <1>8. CallsStand'
    <2>1. Timely(c)'
      BY <1>1, <1>2, <1>3, <1>6 DEF Timely, Tapped
    <2>2. Stands(c)' /\ Cools(c)'
      BY <1>1, <1>2, <1>3, <1>6 DEF Stands, Cools, Tapped, Asking
    <2>3. ASSUME NEW d \in Calls, d # c PROVE Timely(d)' /\ Stands(d)' /\ Cools(d)'
      <3>1. Timely(d) /\ Stands(d) /\ Cools(d)
        BY <1>0 DEF CallsStand
      <3>2. callAt'[d] = callAt[d] /\ asks'[d] = asks[d] /\ nonce'[d] = nonce[d]
        BY <1>4, <2>3
      <3>3. Timely(d)'
        BY <1>3, <3>1, <3>2 DEF Timely, Tapped
      <3>4. callAt[d] \in Asking => inFlight'[wants[d]] = inFlight[wants[d]]
        BY <1>1, <1>4, <1>7
      <3>5. inFlight'[wants[d]] = inFlight[wants[d]] \/ inFlight'[wants[d]] # NoCall
        BY <1>1, <1>2, <1>4 DEF NoCall
      <3>6. Stands(d)'
        BY <1>3, <3>1, <3>2, <3>4, <3>5 DEF Stands, Tapped
      <3>7. Cools(d)'
        BY <1>3, <3>1, <3>2 DEF Cools
      <3>8. QED
        BY <3>3, <3>6, <3>7
    <2>4. QED
      BY <2>1, <2>2, <2>3 DEF CallsStand
  <1>9. KeysStand'
    <2>1. ASSUME NEW k \in GrantKeys PROVE KeyStands(k)'
      <3>1. KeyStands(k) /\ inFlight[k] \in Calls \union {"none"}
        BY <1>0 DEF KeysStand, ApprovalsTypeOK, NoCall
      <3>2. inFlight'[k] # NoCall =>
              callAt'[inFlight'[k]] \in Asking /\ wants'[inFlight'[k]] = k
        <4>1. CASE k = wants[c]
          BY <1>2, <1>3, <4>1 DEF Asking
        <4>2. CASE k # wants[c]
          <5>1. SUFFICES ASSUME inFlight[k] # NoCall
                         PROVE  callAt'[inFlight[k]] \in Asking /\ wants[inFlight[k]] = k
            BY <1>3, <1>4, <4>2
          <5>2. /\ callAt[inFlight[k]] \in Asking /\ wants[inFlight[k]] = k
                /\ inFlight[k] \in Calls
            BY <3>1, <5>1 DEF KeyStands, NoCall
          <5>3. inFlight[k] # c
            BY <4>2, <5>2
          <5>4. QED
            BY <1>4, <5>2, <5>3
        <4>3. QED
          BY <4>1, <4>2
      <3>3. \A d \in Calls : Approved(d, k) => Approved(d, k)'
        BY <1>2, <1>3, <1>4 DEF Approved
      <3>4. QED
        BY <1>3, <3>1, <3>2, <3>3 DEF KeyStands
    <2>2. QED
      BY <2>1 DEF KeysStand
  <1>10. AsksLast'
    <2>1. ASSUME NEW a \in Calls, NEW b \in Calls, callAt'[a] \in Asking, wants[a] = wants[b]
          PROVE  asks'[b] <= asks'[a]
      <3>1. \A d \in Calls : asks[d] <= time
        BY <1>0 DEF CallsStand, Timely
      <3>2. CASE a = c
        BY <1>1, <1>2, <1>4, <3>1, <3>2
      <3>3. CASE a # c
        <4>1. callAt[a] \in Asking
          BY <1>4, <2>1, <3>3
        <4>2. b # c
          BY <1>7, <2>1, <4>1
        <4>3. QED
          BY <1>0, <1>4, <2>1, <3>3, <4>1, <4>2 DEF AsksLast, SameKey
      <3>4. QED
        BY <3>2, <3>3
    <2>2. QED
      BY <1>3, <2>1 DEF AsksLast, SameKey
  <1>11. NoIsRemembered'
    <2>1. SUFFICES ASSUME NEW a \in Calls \ cutOff, NEW b \in Calls \ cutOff,
                          wants[a] = wants[b], click[a] = "no", callAt'[a] = "done",
                          asks'[b] > clickedAt[a]
                   PROVE  asks'[b] >= clickedAt[a] + Cooldown
      BY <1>3 DEF NoIsRemembered
    <2>2. a # c /\ callAt[a] = "done"
      BY <1>2, <1>4, <2>1
    <2>3. CASE b = c
      <3>1. deniedTill[wants[c]] >= clickedAt[a] + Cooldown
        BY <1>0, <2>1, <2>2, <2>3 DEF CallsStand, Cools
      <3>2. QED
        BY <1>1, <1>2, <2>3, <3>1
    <2>4. CASE b # c
      BY <1>0, <1>4, <2>1, <2>2, <2>4 DEF NoIsRemembered
    <2>5. QED
      BY <2>3, <2>4
  <1>12. OnlyApprovedGoAhead'
    BY <1>0, <1>2, <1>3, <1>4 DEF OnlyApprovedGoAhead
  <1>13. QED
    BY <1>8, <1>9, <1>10, <1>11, <1>12 DEF ApprovalsInv

\* The clock goes on as long as no question would outlast its limit.
LEMMA TimeGoesKept ==
  ASSUME ApprovalsInv, ApprovalsTypeOK', TimeGoes
  PROVE  ApprovalsInv'
  <1>0. /\ CallsStand /\ KeysStand /\ AsksLast /\ NoIsRemembered /\ OnlyApprovedGoAhead
        /\ ApprovalsTypeOK
    BY DEF ApprovalsInv
  <1>1. /\ AnswerTime \in Nat /\ time \in Nat
        /\ \A d \in Calls : asks[d] \in Nat /\ clickedAt[d] \in Nat
    BY <1>0, ApprovalFacts
  <1>2. /\ UNCHANGED <<grantedTill, deniedTill, asks, wants, callAt, verdict, inFlight, nonce,
                       card, click, clickedAt, cutOff>>
        /\ time' = time + 1
        /\ \A c \in Calls : callAt[c] \in Asking \ {"closing"} => time < asks[c] + AnswerTime
    BY DEF TimeGoes
  <1>3. ASSUME NEW c \in Calls PROVE Timely(c)' /\ Stands(c)' /\ Cools(c)'
    <2>1. Timely(c) /\ Stands(c) /\ Cools(c)
      BY <1>0 DEF CallsStand
    <2>2. Timely(c)'
      BY <1>1, <1>2, <2>1 DEF Timely, Tapped, Asking
    <2>3. Stands(c)' /\ Cools(c)'
      BY <1>2, <2>1 DEF Stands, Cools, Tapped
    <2>4. QED
      BY <2>2, <2>3
  <1>4. CallsStand'
    BY <1>3 DEF CallsStand
  <1>5. KeysStand' /\ AsksLast'
    BY <1>0, <1>2 DEF KeysStand, KeyStands, Approved, AsksLast, SameKey
  <1>6. NoIsRemembered' /\ OnlyApprovedGoAhead'
    BY <1>0, <1>2 DEF NoIsRemembered, OnlyApprovedGoAhead
  <1>7. QED
    BY <1>4, <1>5, <1>6 DEF ApprovalsInv

\* The end of a question: the call that asks and the calls that joined it are told, and
\* a "no" or a grant is remembered only if it is what they are told.
LEMMA SettleKept ==
  ASSUME ApprovalsInv, ApprovalsTypeOK', NEW c \in Calls, callAt[c] \in Asking,
         NEW granted \in BOOLEAN, NEW answered \in BOOLEAN, Settle(c, granted, answered),
         UNCHANGED <<time, asks, wants, click, clickedAt>>,
         \A d \in Calls \ {c} : nonce'[d] = nonce[d] /\ (d \in cutOff' <=> d \in cutOff),
         nonce'[c] \in {nonce[c], "none"},
         granted => click[c] = "yes" /\ c \notin cutOff' /\ nonce'[c] = "none",
         \A k \in GrantKeys : deniedTill'[k] = deniedTill[k] \/ deniedTill'[k] = time + Cooldown,
         click[c] = "no" /\ c \notin cutOff' => deniedTill'[wants[c]] = time + Cooldown,
         \A k \in GrantKeys :
           \/ grantedTill'[k] = grantedTill[k]
           \/ /\ grantedTill'[k] = time + GrantTtl /\ k = wants[c] /\ granted
              /\ time <= asks[c] + AnswerTime,
         c \in cutOff => c \in cutOff'
  PROVE  ApprovalsInv'
  <1>0. /\ CallsStand /\ KeysStand /\ AsksLast /\ NoIsRemembered /\ OnlyApprovedGoAhead
        /\ ApprovalsTypeOK
    BY DEF ApprovalsInv
  <1>1. /\ "none" \notin Calls /\ Cooldown \in Nat /\ AnswerTime \in Nat /\ GrantTtl \in Nat
        /\ time \in Nat /\ 1 <= time /\ wants[c] \in GrantKeys
        /\ \A d \in Calls : asks[d] \in Nat /\ clickedAt[d] \in Nat /\ wants[d] \in GrantKeys
        /\ \A k \in GrantKeys : grantedTill[k] \in Nat /\ deniedTill[k] \in Nat
    BY <1>0, ApprovalFacts
  <1>2. /\ time' = time /\ asks' = asks /\ wants' = wants /\ click' = click
        /\ clickedAt' = clickedAt
    OBVIOUS
  <1>3. \A d \in Calls :
          callAt'[d] = IF d = c \/ (callAt[d] = "joined" /\ wants[d] = wants[c])
                       THEN "done" ELSE callAt[d]
    BY DEF Settle, JoinsAsk
  <1>4. /\ inFlight'[wants[c]] = NoCall
        /\ \A k \in GrantKeys \ {wants[c]} : inFlight'[k] = inFlight[k]
    BY <1>0, <1>1 DEF Settle, ApprovalsTypeOK
  <1>5. \A d \in Calls :
          callAt'[d] = "done" /\ verdict'[d] = "allowed" =>
            \/ callAt[d] = "done" /\ verdict[d] = "allowed"
            \/ granted /\ wants[d] = wants[c]
    BY DEF Settle, JoinsAsk
  <1>6. \A d \in Calls : Timely(d) /\ Stands(d) /\ Cools(d)
    BY <1>0 DEF CallsStand
  <1>7. \A d \in Calls : callAt[d] = "joined" => click[d] = "none"
    BY <1>6 DEF Timely, Stands, Tapped
  <1>8. inFlight[wants[c]] = c /\ callAt[c] # "joined" /\ callAt'[c] = "done"
    BY <1>3, <1>6 DEF Stands, Asking
  <1>9. CallsStand'
    <2>1. ASSUME NEW d \in Calls PROVE Timely(d)' /\ Stands(d)' /\ Cools(d)'
      <3>1. Timely(d) /\ Stands(d) /\ Cools(d)
        BY <1>6
      <3>2. Timely(d)'
        <4>1. nonce[d] = "none" => nonce'[d] = "none"
          OBVIOUS
        <4>2. callAt'[d] \in {"posting", "waiting", "retiring"} => callAt'[d] = callAt[d]
          BY <1>3
        <4>3. QED
          BY <1>2, <3>1, <4>1, <4>2 DEF Timely, Tapped
      <3>3. Stands(d)'
        <4>1. CASE callAt'[d] = "done"
          BY <1>2, <3>1, <4>1 DEF Stands, Tapped, Asking
        <4>2. CASE callAt'[d] # "done"
          <5>1. d # c /\ callAt'[d] = callAt[d]
                /\ (callAt[d] = "joined" => wants[d] # wants[c])
            BY <1>3, <4>2
          <5>2. callAt[d] \in Asking => wants[d] # wants[c]
            BY <1>8, <3>1, <5>1 DEF Stands
          <5>3. callAt[d] \in Asking \cup {"joined"} => inFlight'[wants[d]] = inFlight[wants[d]]
            BY <1>1, <1>4, <5>1, <5>2
          <5>4. nonce'[d] = nonce[d] /\ (d \in cutOff' <=> d \in cutOff)
            BY <5>1
          <5>5. QED
            BY <1>2, <3>1, <5>1, <5>3, <5>4 DEF Stands, Tapped
        <4>3. QED
          BY <4>1, <4>2
      <3>4. Cools(d)'
        <4>1. SUFFICES ASSUME callAt'[d] = "done", click[d] = "no", d \notin cutOff'
                       PROVE  deniedTill'[wants[d]] >= clickedAt[d] + Cooldown
          BY <1>2 DEF Cools
        <4>2. clickedAt[d] <= time
          BY <3>1, <4>1 DEF Timely, Tapped
        <4>3. CASE d = c
          BY <1>1, <4>1, <4>2, <4>3
        <4>4. CASE d # c
          <5>1. callAt[d] = "done"
            BY <1>3, <1>7, <4>1, <4>4
          <5>2. deniedTill[wants[d]] >= clickedAt[d] + Cooldown
            BY <3>1, <4>1, <4>4, <5>1 DEF Cools
          <5>3. wants[d] \in GrantKeys /\ clickedAt[d] \in Nat
            BY <1>1
          <5>4. QED
            BY <1>1, <4>2, <5>2, <5>3
        <4>5. QED
          BY <4>3, <4>4
      <3>5. QED
        BY <3>2, <3>3, <3>4
    <2>2. QED
      BY <2>1 DEF CallsStand
  <1>10. KeysStand'
    <2>1. ASSUME NEW k \in GrantKeys PROVE KeyStands(k)'
      <3>1. KeyStands(k) /\ inFlight[k] \in Calls \union {"none"}
        BY <1>0 DEF KeysStand, ApprovalsTypeOK, NoCall
      <3>2. inFlight'[k] # NoCall =>
              callAt'[inFlight'[k]] \in Asking /\ wants'[inFlight'[k]] = k
        <4>1. SUFFICES ASSUME inFlight'[k] # NoCall
                       PROVE  callAt'[inFlight'[k]] \in Asking /\ wants[inFlight'[k]] = k
          BY <1>2
        <4>2. k # wants[c] /\ inFlight'[k] = inFlight[k]
          BY <1>4, <4>1
        <4>3. /\ callAt[inFlight[k]] \in Asking /\ wants[inFlight[k]] = k
              /\ inFlight[k] \in Calls
          BY <3>1, <4>1, <4>2 DEF KeyStands, NoCall
        <4>4. callAt'[inFlight[k]] = callAt[inFlight[k]]
          BY <1>3, <4>2, <4>3
        <4>5. QED
          BY <4>2, <4>3, <4>4
      <3>3. \A d \in Calls : Approved(d, k) => Approved(d, k)'
        BY <1>2, <1>3 DEF Approved, Asking
      <3>4. grantedTill'[k] > 0 =>
              \E d \in Calls : Approved(d, k)'
                               /\ grantedTill'[k] <= clickedAt'[d] + AnswerTime + GrantTtl
        <4>1. CASE grantedTill'[k] = grantedTill[k]
          BY <1>2, <3>1, <3>3, <4>1 DEF KeyStands
        <4>2. CASE /\ grantedTill'[k] = time + GrantTtl /\ k = wants[c] /\ granted
                   /\ time <= asks[c] + AnswerTime
          <5>1. Approved(c, k)'
            BY <1>2, <1>8, <4>2 DEF Approved
          <5>2. asks[c] <= clickedAt[c]
            BY <1>6, <4>2 DEF Timely, Tapped
          <5>3. asks[c] \in Nat /\ clickedAt[c] \in Nat
            BY <1>1
          <5>4. grantedTill'[k] <= clickedAt'[c] + AnswerTime + GrantTtl
            BY <1>1, <1>2, <4>2, <5>2, <5>3
          <5>5. QED
            BY <5>1, <5>4
        <4>3. QED
          BY <4>1, <4>2
      <3>5. QED
        BY <3>2, <3>4 DEF KeyStands
    <2>2. QED
      BY <2>1 DEF KeysStand
  <1>11. AsksLast'
    <2>1. \A d \in Calls : callAt'[d] \in Asking => callAt[d] \in Asking
      BY <1>3 DEF Asking
    <2>2. QED
      BY <1>0, <1>2, <2>1 DEF AsksLast, SameKey
  <1>12. NoIsRemembered'
    <2>1. SUFFICES ASSUME NEW a \in Calls \ cutOff', NEW b \in Calls \ cutOff',
                          wants[a] = wants[b], click[a] = "no", callAt'[a] = "done",
                          asks[b] > clickedAt[a]
                   PROVE  asks[b] >= clickedAt[a] + Cooldown
      BY <1>2 DEF NoIsRemembered
    <2>2. CASE a = c
      <3>1. asks[b] <= asks[c]
        BY <1>0, <2>1, <2>2 DEF AsksLast, SameKey
      <3>2. asks[c] <= clickedAt[c]
        BY <1>6, <2>1, <2>2 DEF Timely, Tapped
      <3>3. asks[b] \in Nat /\ asks[c] \in Nat /\ clickedAt[c] \in Nat
        BY <1>1
      <3>4. QED
        BY <2>1, <2>2, <3>1, <3>2, <3>3
    <2>3. CASE a # c
      <3>1. callAt[a] = "done"
        BY <1>3, <1>7, <2>1, <2>3
      <3>2. a \notin cutOff /\ b \notin cutOff
        BY <2>1
      <3>3. QED
        BY <1>0, <2>1, <3>1, <3>2 DEF NoIsRemembered
    <2>4. QED
      BY <2>2, <2>3
  <1>13. OnlyApprovedGoAhead'
    <2>1. ASSUME NEW d \in Calls, callAt'[d] = "done", verdict'[d] = "allowed"
          PROVE  \E e \in Calls : wants[e] = wants[d] /\ click[e] = "yes"
      <3>1. CASE callAt[d] = "done" /\ verdict[d] = "allowed"
        BY <1>0, <3>1 DEF OnlyApprovedGoAhead
      <3>2. CASE granted /\ wants[d] = wants[c]
        BY <3>2
      <3>3. QED
        BY <1>5, <2>1, <3>1, <3>2
    <2>2. QED
      BY <1>2, <2>1 DEF OnlyApprovedGoAhead
  <1>14. QED
    BY <1>9, <1>10, <1>11, <1>12, <1>13 DEF ApprovalsInv

\* The edit returns: the answer is the operator's, and is remembered from now on.
LEMMA ReturnsKept ==
  ASSUME ApprovalsInv, ApprovalsTypeOK', NEW c \in Calls, Returns(c)
  PROVE  ApprovalsInv'
  <1>1. /\ Timely(c) /\ Stands(c) /\ ApprovalsTypeOK /\ wants[c] \in GrantKeys
        /\ click[c] \in {"none", "yes", "no"}
    BY CallFacts
  <1>2. callAt[c] = "retiring" /\ Settle(c, click[c] = "yes", TRUE)
    BY DEF Returns
  <1>3. UNCHANGED <<time, asks, wants, nonce, click, clickedAt, cutOff>>
    BY DEF Returns
  <1>4. /\ click[c] # "none" /\ nonce[c] = "none" /\ c \notin cutOff
        /\ time <= asks[c] + AnswerTime
    BY <1>1, <1>2 DEF Timely, Stands, Tapped
  <1>5. CASE click[c] = "yes"
    <2>1. /\ deniedTill' = deniedTill
          /\ grantedTill' = [grantedTill EXCEPT ![wants[c]] = time + GrantTtl]
      BY <1>5 DEF Returns
    <2>2. \A k \in GrantKeys :
             \/ grantedTill'[k] = grantedTill[k]
             \/ grantedTill'[k] = time + GrantTtl /\ k = wants[c]
      BY <1>1, <2>1 DEF ApprovalsTypeOK
    <2>3. Settle(c, TRUE, TRUE)
      BY <1>2, <1>5 DEF Settle
    <2>4. QED
      BY <1>2, <1>3, <1>4, <1>5, <2>1, <2>2, <2>3, SettleKept DEF Asking
  <1>6. CASE click[c] = "no"
    <2>1. /\ grantedTill' = grantedTill
          /\ deniedTill' = [deniedTill EXCEPT ![wants[c]] = time + Cooldown]
      BY <1>6 DEF Returns
    <2>2. /\ \A k \in GrantKeys :
               deniedTill'[k] = deniedTill[k] \/ deniedTill'[k] = time + Cooldown
          /\ deniedTill'[wants[c]] = time + Cooldown
      BY <1>1, <2>1 DEF ApprovalsTypeOK
    <2>3. Settle(c, FALSE, TRUE)
      BY <1>2, <1>6 DEF Settle
    <2>4. QED
      BY <1>2, <1>3, <1>4, <1>6, <2>1, <2>2, <2>3, SettleKept DEF Asking
  <1>7. QED
    BY <1>1, <1>4, <1>5, <1>6

\* The post raises: a click that came before it does is lost.
LEMMA PostRaisesKept ==
  ASSUME ApprovalsInv, ApprovalsTypeOK', NEW c \in Calls, PostRaises(c)
  PROVE  ApprovalsInv'
  <1>1. ApprovalsTypeOK
    BY DEF ApprovalsInv
  <1>2. callAt[c] = "posting" /\ Settle(c, FALSE, FALSE)
    BY DEF PostRaises
  <1>3. /\ UNCHANGED <<time, asks, wants, click, clickedAt>>
        /\ deniedTill' = deniedTill /\ grantedTill' = grantedTill
    BY DEF PostRaises
  <1>4. /\ \A d \in Calls \ {c} : nonce'[d] = nonce[d] /\ (d \in cutOff' <=> d \in cutOff)
        /\ nonce'[c] = "none" /\ (click[c] # "none" => c \in cutOff')
        /\ (c \in cutOff => c \in cutOff')
    BY <1>1 DEF PostRaises, ApprovalsTypeOK
  <1>5. QED
    BY <1>2, <1>3, <1>4, SettleKept DEF Asking

\* The post or the edit is cut: nothing is remembered of the answer, if there was one.
LEMMA CutKept ==
  ASSUME ApprovalsInv, ApprovalsTypeOK', NEW c \in Calls, Cut(c)
  PROVE  ApprovalsInv'
  <1>1. CASE callAt[c] = "waiting"
    BY <1>1, CutWaitingKept
  <1>2. CASE callAt[c] # "waiting"
    <2>1. /\ callAt[c] \in Asking /\ Settle(c, FALSE, FALSE)
          /\ UNCHANGED <<time, asks, wants, click, clickedAt>>
          /\ deniedTill' = deniedTill /\ grantedTill' = grantedTill /\ nonce' = nonce
          /\ cutOff' = IF click[c] = "none" THEN cutOff ELSE cutOff \cup {c}
      BY <1>2 DEF Cut, Asking
    <2>2. /\ \A d \in Calls \ {c} : d \in cutOff' <=> d \in cutOff
          /\ (click[c] # "none" => c \in cutOff') /\ (c \in cutOff => c \in cutOff')
      BY <2>1
    <2>3. QED
      BY <2>1, <2>2, SettleKept
  <1>3. QED
    BY <1>1, <1>2

\* The card of a question that was cut in its wait is retired.
LEMMA ClosedKept ==
  ASSUME ApprovalsInv, ApprovalsTypeOK', NEW c \in Calls, Closed(c)
  PROVE  ApprovalsInv'
  <1>1. Stands(c) /\ click[c] \in {"none", "yes", "no"}
    BY CallFacts
  <1>2. /\ callAt[c] = "closing" /\ Settle(c, FALSE, FALSE)
        /\ UNCHANGED <<time, grantedTill, deniedTill, asks, wants, nonce, click, clickedAt,
                       cutOff>>
    BY DEF Closed
  <1>3. click[c] = "no" => c \in cutOff
    BY <1>1, <1>2 DEF Stands, Tapped
  <1>4. QED
    BY <1>2, <1>3, SettleKept DEF Asking

LEMMA ApprovalsInvInitially == ApprovalsInit => ApprovalsInv
  <1>1. SUFFICES ASSUME ApprovalsInit PROVE ApprovalsInv
    OBVIOUS
  <1>2. /\ "none" \notin Calls /\ MaxTime \in Nat \ {0}
        /\ Cooldown \in Nat /\ GrantTtl \in Nat /\ AnswerTime \in Nat
    BY ApprovalsAssumption
  <1>3. ApprovalsTypeOK
    BY <1>1, <1>2 DEF ApprovalsInit, ApprovalsTypeOK
  <1>4. ASSUME NEW c \in Calls PROVE Timely(c) /\ Stands(c) /\ Cools(c)
    <2>1. /\ asks[c] = 0 /\ nonce[c] = "none" /\ click[c] = "none" /\ callAt[c] = "new"
          /\ time = 1 /\ cutOff = {}
      BY <1>1 DEF ApprovalsInit
    <2>2. QED
      BY <2>1 DEF Timely, Stands, Cools, Tapped, Asking
  <1>5. KeysStand
    BY <1>1 DEF ApprovalsInit, KeysStand, KeyStands
  <1>6. AsksLast /\ NoIsRemembered /\ OnlyApprovedGoAhead
    BY <1>1 DEF ApprovalsInit, AsksLast, Asking, NoIsRemembered, OnlyApprovedGoAhead
  <1>7. QED
    BY <1>3, <1>4, <1>5, <1>6 DEF ApprovalsInv, CallsStand

LEMMA ApprovalsInvKept == ApprovalsInv /\ [ApprovalsNext]_approvalVars => ApprovalsInv'
  <1>1. SUFFICES ASSUME ApprovalsInv, [ApprovalsNext]_approvalVars PROVE ApprovalsInv'
    OBVIOUS
  <1>2. CASE UNCHANGED approvalVars
    <2>1. ApprovalsTypeOK'
      BY <1>1, <1>2 DEF ApprovalsInv, ApprovalsTypeOK, approvalVars
    <2>2. QED
      BY <1>1, <1>2, <2>1, ShownKept DEF approvalVars
  <1>3. CASE ApprovalsNext
    <2>1. ApprovalsTypeOK'
      BY <1>1, <1>3, ApprovalTypesKept DEF ApprovalsInv
    <2>2. CASE TimeGoes
      BY <1>1, <2>1, <2>2, TimeGoesKept
    <2>3. ASSUME NEW c \in Calls, CardShown(c) \/ CardRetired(c) PROVE ApprovalsInv'
      BY <1>1, <2>1, <2>3, ShownKept DEF CardShown, CardRetired
    <2>4. ASSUME NEW c \in Calls, TimeOut(c) \/ Abort(c) PROVE ApprovalsInv'
      BY <1>1, <2>1, <2>4, CutKept DEF TimeOut, Abort
    <2>5. ASSUME NEW c \in Calls,
                 \/ AnswerAtOnce(c) \/ Join(c) \/ Ask(c) \/ PostReturns(c)
                 \/ \E yes \in BOOLEAN : Click(c, yes)
                 \/ Answered(c) \/ Returns(c) \/ PostRaises(c) \/ Closed(c) \/ AbortJoined(c)
          PROVE  ApprovalsInv'
      BY <1>1, <2>1, <2>5, AnsweredAtOnceKept, JoinKept, AskKept, PostReturnsKept, ClickKept,
         AnsweredKept, ReturnsKept, PostRaisesKept, ClosedKept, AbortJoinedKept
    <2>6. QED
      BY <1>3, <2>2, <2>3, <2>4, <2>5 DEF ApprovalsNext
  <1>4. QED
    BY <1>1, <1>2, <1>3

\* A grant stands for an approved card, and a question in flight for everybody who joined it.
LEMMA ApprovalsInvDecides == ApprovalsInv => AnswerDecides
  <1>1. SUFFICES ASSUME ApprovalsInv PROVE AnswerDecides
    OBVIOUS
  <1>2. /\ CallsStand /\ KeysStand /\ ApprovalsTypeOK /\ NoIsRemembered /\ OnlyApprovedGoAhead
    BY <1>1 DEF ApprovalsInv
  <1>3. /\ AnswerTime \in Nat /\ GrantTtl \in Nat /\ time \in Nat
        /\ \A d \in Calls : clickedAt[d] \in Nat /\ wants[d] \in GrantKeys
        /\ \A k \in GrantKeys : grantedTill[k] \in Nat
    BY <1>2, ApprovalFacts
  <1>4. AllowsOnlyFresh
    <2>1. ASSUME NEW k \in GrantKeys, Allows(k)
          PROVE  \E d \in Calls : /\ wants[d] = k /\ click[d] = "yes" /\ d \notin cutOff
                                  /\ time < clickedAt[d] + AnswerTime + GrantTtl
      <3>1. time < grantedTill[k] /\ grantedTill[k] \in Nat /\ grantedTill[k] > 0
        BY <1>3, <2>1 DEF Allows
      <3>2. PICK d \in Calls :
              Approved(d, k) /\ grantedTill[k] <= clickedAt[d] + AnswerTime + GrantTtl
        BY <1>2, <3>1 DEF KeysStand, KeyStands
      <3>3. clickedAt[d] \in Nat
        BY <1>3
      <3>4. time < clickedAt[d] + AnswerTime + GrantTtl
        BY <1>3, <3>1, <3>2, <3>3
      <3>5. QED
        BY <3>2, <3>4 DEF Approved
    <2>2. QED
      BY <2>1 DEF AllowsOnlyFresh
  <1>5. OneQuestion
    BY <1>2 DEF OneQuestion, CallsStand, Stands
  <1>6. JoinersHaveAnAsker
    <2>1. ASSUME NEW c \in Calls, callAt[c] = "joined"
          PROVE  \E d \in Calls : callAt[d] \in Asking /\ wants[d] = wants[c]
      <3>1. inFlight[wants[c]] # NoCall /\ wants[c] \in GrantKeys
        BY <1>2, <1>3, <2>1 DEF CallsStand, Stands
      <3>2. inFlight[wants[c]] \in Calls \cup {NoCall}
        BY <1>2, <3>1 DEF ApprovalsTypeOK
      <3>3. QED
        BY <1>2, <3>1, <3>2 DEF KeysStand, KeyStands, NoCall
    <2>2. QED
      BY <2>1 DEF JoinersHaveAnAsker
  <1>7. QED
    BY <1>2, <1>4, <1>5, <1>6 DEF AnswerDecides, ApprovedByTheOperator, AskedOnce

\* Only an operator's Approve, no longer ago than its time, lets a call go ahead; a key is
\* asked about once at a time, and after a "no" not before its cooldown
\* (ApprovalBroker.check, _ask_once and the cards of slack.py).
THEOREM AnswersDecide == ApprovalsSpec => []AnswerDecides
  <1>1. ApprovalsInit => ApprovalsInv
    BY ApprovalsInvInitially
  <1>2. ApprovalsInv /\ [ApprovalsNext]_approvalVars => ApprovalsInv'
    BY ApprovalsInvKept
  <1>3. ApprovalsInv => AnswerDecides
    BY ApprovalsInvDecides
  <1>4. QED
    BY <1>1, <1>2, <1>3, PTL DEF ApprovalsSpec

-----------------------------------------------------------------------------
(* Permission dialogs: what is on the screen, and who is to answer it.      *)

RelayAts == {"reading", "asking", "typing", "saying", "done"}
Relays == [at : RelayAts, read : 0..MaxDialogs, allowed : BOOLEAN]
Shows(s, d) == s \in {<<"drawing", d>>, <<"dialog", d>>, <<"odd", d>>}

DialogTypes ==
    /\ MaxDialogs \in Nat /\ MaxPaneTurns \in Nat
    /\ paneTurn \in 0..MaxPaneTurns /\ dialogs \in 0..MaxDialogs
    /\ unposted \subseteq 1..dialogs /\ disturbed \in BOOLEAN
    /\ screen \in {NoPane, Working, Input} \/ \E d \in 1..dialogs : Shows(screen, d)
    /\ relays \in Seq(Relays)
    /\ hits \subseteq (0..MaxDialogs) \X (1..MaxDialogs)

\* Nobody is to answer anything.
NobodyAnswers ==
    unposted = {} /\ \A r \in DOMAIN relays : relays[r].at = "done"

\* One relay is at work, at one of these points.
OneAnswers(r, ats) ==
    /\ unposted = {} /\ r \in DOMAIN relays /\ relays[r].at \in ats
    /\ \A s \in DOMAIN relays \ {r} : relays[s].at = "done"

\* The hook of the dialog is yet to post, or the one relay at work is that dialog's.
DialogIsAnswered(d) ==
    \/ unposted = {d} /\ \A r \in DOMAIN relays : relays[r].at = "done"
    \/ \E r \in DOMAIN relays :
          /\ OneAnswers(r, {"reading", "asking", "typing"})
          /\ relays[r].at # "reading" => relays[r].read = d

\* As long as nobody interferes, a pane and its relays take turns.
TakeTurns ==
    disturbed \/
      /\ screen \in {NoPane, Working} => NobodyAnswers
      /\ screen = Input => \E r \in DOMAIN relays : OneAnswers(r, {"saying"})
      /\ \A d \in 1..dialogs : Shows(screen, d) => DialogIsAnswered(d)

DialogInv == DialogTypes /\ TakeTurns /\ AnswersWhatItRead

\* The screen shows one thing.
LEMMA ScreenIs ==
  /\ \A s, d : Shows(s, d) =>
       s[1] \in Asked /\ s[2] = d /\ s \notin {NoPane, Working, Input}
  /\ NoPane[1] = "no pane" /\ Working[1] = "work" /\ Input[1] = "input"
  /\ NoPane # Working /\ NoPane # Input /\ Working # Input
  /\ "no pane" \notin Asked /\ "work" \notin Asked /\ "input" \notin Asked
  <1>1. /\ NoPane[1] = "no pane" /\ Working[1] = "work" /\ Input[1] = "input"
        /\ "no pane" \notin Asked /\ "work" \notin Asked /\ "input" \notin Asked
    BY DEF NoPane, Working, Input, Asked
  <1>2. ASSUME NEW s, NEW d, Shows(s, d) PROVE s[1] \in Asked /\ s[2] = d
    BY <1>2 DEF Shows, Asked
  <1>3. QED
    BY <1>1, <1>2

LEMMA ShowsOne ==
  ASSUME NEW s, NEW d, Shows(s, d)
  PROVE  s \notin {NoPane, Working, Input} /\ \A e : Shows(s, e) => e = d
  <1>1. s \notin {NoPane, Working, Input} /\ s[2] = d
    BY ScreenIs
  <1>2. ASSUME NEW e, Shows(s, e) PROVE e = d
    <2>1. s[2] = e
      BY <1>2, ScreenIs
    <2>2. QED
      BY <1>1, <2>1
  <1>3. QED
    BY <1>1, <1>2

\* A relay that moves leaves the others and the number of them.
LEMMA RelayMoves ==
  ASSUME relays \in Seq(Relays), NEW r \in DOMAIN relays, NEW to \in Relays,
         NEW from, Moves(r, from, to)
  PROVE  /\ relays' \in Seq(Relays) /\ DOMAIN relays' = DOMAIN relays
         /\ relays[r].at = from /\ relays'[r] = to
         /\ \A s \in DOMAIN relays \ {r} : relays'[s] = relays[s]
  BY DEF Moves

LEMMA RelayBegins ==
  ASSUME relays \in Seq(Relays), relays' = Append(relays, Relay), MaxDialogs \in Nat
  PROVE  /\ relays' \in Seq(Relays) /\ DOMAIN relays' = DOMAIN relays \cup {Len(relays) + 1}
         /\ Len(relays) + 1 \notin DOMAIN relays
         /\ relays'[Len(relays) + 1] = Relay
         /\ \A s \in DOMAIN relays : relays'[s] = relays[s]
  <1>1. Relay \in Relays
    BY DEF Relay, Relays, RelayAts
  <1>2. QED
    BY <1>1

LEMMA DialogFacts ==
  ASSUME DialogInv
  PROVE  /\ MaxDialogs \in Nat /\ dialogs \in Nat /\ dialogs <= MaxDialogs
         /\ relays \in Seq(Relays)
         /\ \A r \in DOMAIN relays : relays[r] \in Relays
         /\ screen \in {NoPane, Working, Input} \/ \E d \in 1..dialogs : Shows(screen, d)
  BY DEF DialogInv, DialogTypes

\* The turn takes its course: it begins, ends or is interfered with.
LEMMA PaneKept ==
  ASSUME DialogInv, PaneStarts \/ PaneEnds \/ PaneStopped \/ ByHand
  PROVE  DialogInv'
  <1>1. DialogTypes /\ TakeTurns /\ AnswersWhatItRead
    BY DEF DialogInv
  <1>2. /\ dialogs' = dialogs /\ unposted' = unposted /\ relays' = relays /\ hits' = hits
        /\ screen' \in {NoPane, Working}
    BY DEF PaneStarts, PaneEnds, PaneStopped, ByHand
  <1>3. paneTurn' \in 0..MaxPaneTurns
    BY <1>1 DEF DialogTypes, PaneStarts, PaneEnds, PaneStopped, ByHand
  <1>4. disturbed' \in BOOLEAN /\ (disturbed => disturbed')
    BY <1>1 DEF DialogTypes, PaneStarts, PaneEnds, PaneStopped, ByHand
  <1>5. DialogTypes'
    BY <1>1, <1>2, <1>3, <1>4 DEF DialogTypes
  <1>6. disturbed' \/ NobodyAnswers
    BY <1>1 DEF TakeTurns, NobodyAnswers, AtWork, PaneStarts, PaneEnds, PaneStopped, ByHand
  <1>7. TakeTurns'
    <2>1. \A d : ~Shows(screen', d) /\ screen' # Input
      BY <1>2, ScreenIs
    <2>2. disturbed' \/ NobodyAnswers'
      BY <1>2, <1>6 DEF NobodyAnswers
    <2>3. QED
      BY <2>1, <2>2 DEF TakeTurns
  <1>8. AnswersWhatItRead'
    BY <1>1, <1>2, <1>4 DEF AnswersWhatItRead
  <1>9. QED
    BY <1>5, <1>7, <1>8 DEF DialogInv

\* Claude asks while nobody has anything to answer.
LEMMA PaneAsksKept ==
  ASSUME DialogInv, PaneAsks
  PROVE  DialogInv'
  <1>1. DialogTypes /\ TakeTurns /\ AnswersWhatItRead
    BY DEF DialogInv
  <1>2. /\ dialogs' = dialogs + 1 /\ unposted' = unposted \union {dialogs + 1}
        /\ screen = Working /\ screen' = <<"drawing", dialogs + 1>> /\ dialogs < MaxDialogs
        /\ relays' = relays /\ hits' = hits /\ disturbed' = disturbed /\ paneTurn' = paneTurn
    BY DEF PaneAsks
  <1>3. PICK d : d = dialogs + 1
    OBVIOUS
  <1>0. Shows(screen', d)
    BY <1>2, <1>3 DEF Shows
  <1>4. DialogTypes'
    <2>1. d \in 1..dialogs' /\ dialogs' \in 0..MaxDialogs /\ unposted' \subseteq 1..dialogs'
      BY <1>1, <1>2, <1>3 DEF DialogTypes
    <2>2. QED
      BY <1>0, <1>1, <1>2, <2>1 DEF DialogTypes
  <1>5. TakeTurns'
    <2>1. disturbed \/ NobodyAnswers
      BY <1>1, <1>2 DEF TakeTurns
    <2>2. screen' \notin {NoPane, Working, Input} /\ \A e : Shows(screen', e) => e = d
      BY <1>0, ShowsOne
    <2>3. disturbed \/ DialogIsAnswered(d)'
      BY <1>2, <1>3, <2>1 DEF NobodyAnswers, DialogIsAnswered
    <2>4. QED
      BY <1>2, <2>2, <2>3 DEF TakeTurns
  <1>6. QED
    BY <1>1, <1>2, <1>4, <1>5 DEF DialogInv, AnswersWhatItRead

LEMMA PaintedKept ==
  ASSUME DialogInv, NEW form \in {"dialog", "odd"}, Painted(form)
  PROVE  DialogInv'
  <1>1. DialogTypes /\ TakeTurns /\ AnswersWhatItRead
    BY DEF DialogInv
  <1>2. /\ dialogs' = dialogs /\ unposted' = unposted /\ screen[1] = "drawing"
        /\ screen' = <<form, screen[2]>>
        /\ relays' = relays /\ hits' = hits /\ disturbed' = disturbed /\ paneTurn' = paneTurn
    BY DEF Painted
  <1>3. PICK d \in 1..dialogs : Shows(screen, d)
    BY <1>1, <1>2, ScreenIs DEF DialogTypes
  <1>4. Shows(screen', d)
    <2>1. screen[2] = d
      BY <1>3, ScreenIs
    <2>2. QED
      BY <1>2, <2>1 DEF Shows
  <1>5. DialogTypes'
    BY <1>1, <1>2, <1>4 DEF DialogTypes
  <1>6. TakeTurns'
    <2>1. disturbed \/ DialogIsAnswered(d)
      BY <1>1, <1>3 DEF TakeTurns
    <2>2. screen' \notin {NoPane, Working, Input} /\ \A e : Shows(screen', e) => e = d
      BY <1>4, ShowsOne
    <2>3. disturbed \/ DialogIsAnswered(d)'
      BY <1>2, <2>1 DEF DialogIsAnswered, OneAnswers
    <2>4. QED
      BY <1>2, <2>2, <2>3 DEF TakeTurns
  <1>7. QED
    BY <1>1, <1>2, <1>5, <1>6 DEF DialogInv, AnswersWhatItRead

\* A hook posts: its dialog has a relay from now on.
LEMMA NotifiedKept ==
  ASSUME DialogInv, Notified
  PROVE  DialogInv'
  <1>1. DialogTypes /\ TakeTurns /\ AnswersWhatItRead /\ MaxDialogs \in Nat
    BY DEF DialogInv, DialogTypes
  <1>2. PICK d \in unposted : unposted' = unposted \ {d}
    BY DEF Notified
  <1>3. /\ dialogs' = dialogs /\ screen' = screen /\ relays' = Append(relays, Relay)
        /\ hits' = hits /\ disturbed' = disturbed /\ paneTurn' = paneTurn
    BY DEF Notified
  <1>n. PICK n : n = Len(relays) + 1
    OBVIOUS
  <1>4. /\ relays' \in Seq(Relays) /\ DOMAIN relays' = DOMAIN relays \cup {n}
        /\ n \notin DOMAIN relays /\ relays'[n] = Relay
        /\ \A s \in DOMAIN relays : relays'[s] = relays[s]
    BY <1>1, <1>3, <1>n, RelayBegins DEF DialogTypes
  <1>5. DialogTypes'
    BY <1>1, <1>2, <1>3, <1>4 DEF DialogTypes
  <1>6. TakeTurns'
    <2>1. SUFFICES ASSUME ~disturbed PROVE TakeTurns'
      BY <1>3 DEF TakeTurns
    <2>2. PICK e \in 1..dialogs : Shows(screen, e)
      BY <1>1, <1>2, <2>1 DEF DialogTypes, TakeTurns, NobodyAnswers, OneAnswers
    <2>3. unposted = {e} /\ \A r \in DOMAIN relays : relays[r].at = "done"
      BY <1>1, <1>2, <2>1, <2>2 DEF TakeTurns, DialogIsAnswered, OneAnswers
    <2>4. Relay.at = "reading"
      BY DEF Relay
    <2>5. OneAnswers(n, {"reading", "asking", "typing"})'
      BY <1>2, <1>4, <2>3, <2>4 DEF OneAnswers
    <2>6. DialogIsAnswered(e)'
      BY <1>4, <2>4, <2>5 DEF DialogIsAnswered, OneAnswers
    <2>7. screen \notin {NoPane, Working, Input} /\ \A x : Shows(screen, x) => x = e
      BY <2>2, ShowsOne
    <2>8. QED
      BY <1>3, <2>6, <2>7 DEF TakeTurns
  <1>7. QED
    BY <1>1, <1>3, <1>5, <1>6 DEF DialogInv, AnswersWhatItRead

\* Whose turn it is, as seen by a relay at work.
LEMMA WhoseTurn ==
  ASSUME DialogInv, ~disturbed, NEW r \in DOMAIN relays, relays[r].at # "done"
  PROVE  /\ unposted = {} /\ \A s \in DOMAIN relays \ {r} : relays[s].at = "done"
         /\ \/ screen = Input /\ relays[r].at = "saying"
            \/ \E d \in 1..dialogs :
                 /\ Shows(screen, d) /\ relays[r].at \in {"reading", "asking", "typing"}
                 /\ relays[r].at # "reading" => relays[r].read = d
  <1>1. DialogTypes /\ TakeTurns
    BY DEF DialogInv
  <1>2. screen \notin {NoPane, Working}
    BY <1>1 DEF TakeTurns, NobodyAnswers
  <1>3. CASE screen = Input
    BY <1>1, <1>3 DEF TakeTurns, OneAnswers
  <1>4. ASSUME NEW d \in 1..dialogs, Shows(screen, d)
        PROVE  /\ unposted = {} /\ \A s \in DOMAIN relays \ {r} : relays[s].at = "done"
               /\ relays[r].at \in {"reading", "asking", "typing"}
               /\ relays[r].at # "reading" => relays[r].read = d
    <2>1. DialogIsAnswered(d)
      BY <1>1, <1>4 DEF TakeTurns
    <2>2. PICK s \in DOMAIN relays : /\ OneAnswers(s, {"reading", "asking", "typing"})
                                     /\ relays[s].at # "reading" => relays[s].read = d
      BY <2>1 DEF DialogIsAnswered, OneAnswers
    <2>3. s = r
      BY <2>2 DEF OneAnswers
    <2>4. QED
      BY <2>2, <2>3 DEF OneAnswers
  <1>5. QED
    BY <1>1, <1>2, <1>3, <1>4 DEF DialogTypes

\* A relay moves, and the pane shows what a relay makes of it.
LEMMA RelayKept ==
  ASSUME DialogInv, NEW r \in DOMAIN relays, NEW to \in Relays, NEW from,
         Moves(r, from, to), from # "done",
         UNCHANGED <<paneTurn, dialogs, unposted, disturbed>>,
         screen' \in {screen, Working, Input, NoPane},
         hits' \subseteq (0..MaxDialogs) \X (1..MaxDialogs),
         ~disturbed => AnswersWhatItRead',
         ~disturbed /\ to.at = "done" => screen' \in {NoPane, Working},
         ~disturbed /\ to.at = "saying" => screen' = Input,
         ~disturbed /\ to.at \in {"reading", "asking", "typing"} =>
            screen' = screen /\ screen # Input
              /\ \A d : Shows(screen, d) /\ to.at # "reading" => to.read = d
  PROVE  DialogInv'
  <1>1. DialogTypes /\ TakeTurns
    BY DEF DialogInv
  <1>2. /\ relays' \in Seq(Relays) /\ DOMAIN relays' = DOMAIN relays
        /\ relays[r].at = from /\ relays'[r] = to
        /\ \A s \in DOMAIN relays \ {r} : relays'[s] = relays[s]
    BY <1>1, RelayMoves DEF DialogTypes
  <1>3. DialogTypes'
    BY <1>1, <1>2 DEF DialogTypes
  <1>4. TakeTurns'
    <2>1. SUFFICES ASSUME ~disturbed PROVE TakeTurns'
      BY DEF TakeTurns
    <2>2. /\ unposted' = {} /\ \A s \in DOMAIN relays \ {r} : relays'[s].at = "done"
          /\ screen \notin {NoPane, Working}
      <3>1. /\ unposted = {} /\ \A s \in DOMAIN relays \ {r} : relays[s].at = "done"
        BY <1>2, <2>1, WhoseTurn
      <3>2. screen \notin {NoPane, Working}
        BY <1>1, <1>2, <2>1 DEF TakeTurns, NobodyAnswers
      <3>3. QED
        BY <1>2, <3>1, <3>2
    <2>3. to.at \in RelayAts
      BY DEF Relays
    <2>4. NoPane # Working /\ NoPane # Input /\ Working # Input
          /\ \A d : ~Shows(NoPane, d) /\ ~Shows(Working, d) /\ ~Shows(Input, d)
      BY ScreenIs
    <2>5. CASE to.at = "done"
      <3>1. NobodyAnswers'
        BY <1>2, <2>2, <2>5 DEF NobodyAnswers
      <3>2. QED
        BY <2>1, <2>4, <2>5, <3>1 DEF TakeTurns
    <2>6. CASE to.at = "saying"
      <3>1. OneAnswers(r, {"saying"})'
        BY <1>2, <2>2, <2>6 DEF OneAnswers
      <3>2. QED
        BY <1>2, <2>1, <2>4, <2>6, <3>1 DEF TakeTurns
    <2>7. CASE to.at \in {"reading", "asking", "typing"}
      <3>1. OneAnswers(r, {"reading", "asking", "typing"})'
        BY <1>2, <2>2, <2>7 DEF OneAnswers
      <3>2. ASSUME NEW d \in 1..dialogs, Shows(screen, d) PROVE DialogIsAnswered(d)'
        BY <1>2, <2>1, <2>7, <3>1, <3>2 DEF DialogIsAnswered
      <3>3. screen' = screen /\ screen \notin {NoPane, Working, Input}
        BY <2>1, <2>2, <2>7
      <3>4. QED
        BY <3>2, <3>3 DEF TakeTurns
    <2>8. QED
      BY <2>3, <2>5, <2>6, <2>7 DEF RelayAts
  <1>5. AnswersWhatItRead'
    BY DEF AnswersWhatItRead
  <1>6. QED
    BY <1>3, <1>4, <1>5 DEF DialogInv

LEMMA ReadsDialogKept ==
  ASSUME DialogInv, NEW r \in DOMAIN relays, ReadsDialog(r)
  PROVE  DialogInv'
  <1>1. DialogTypes /\ AnswersWhatItRead /\ relays[r] \in Relays /\ MaxDialogs \in Nat
        /\ dialogs \in Nat /\ dialogs <= MaxDialogs
    BY DialogFacts DEF DialogInv
  <1>2. PICK d \in 1..dialogs : Shows(screen, d)
    BY <1>1, ScreenIs DEF DialogTypes, ReadsDialog
  <1>3. screen[2] = d /\ screen # Input /\ \A e : Shows(screen, e) => e = d
    BY <1>2, ScreenIs, ShowsOne
  <1> DEFINE to == [relays[r] EXCEPT !.at = "asking", !.read = screen[2]]
  <1>0. d \in 0..MaxDialogs
    BY <1>1
  <1>4. to \in Relays /\ to.at = "asking" /\ to.read = d
    BY <1>0, <1>1, <1>3 DEF Relays, RelayAts
  <1>5. /\ Moves(r, "reading", to) /\ screen' = screen /\ hits' = hits
        /\ UNCHANGED <<paneTurn, dialogs, unposted, disturbed>>
    BY DEF ReadsDialog
  <1>6. AnswersWhatItRead'
    BY <1>1, <1>5 DEF AnswersWhatItRead
  <1> HIDE DEF to
  <1>7. QED
    BY <1>1, <1>3, <1>4, <1>5, <1>6, RelayKept DEF DialogTypes

LEMMA RefusesKept ==
  ASSUME DialogInv, NEW r \in DOMAIN relays, Refuses(r)
  PROVE  DialogInv'
  <1>1. DialogTypes /\ AnswersWhatItRead /\ relays[r] \in Relays
    BY DialogFacts DEF DialogInv
  <1> DEFINE to == [relays[r] EXCEPT !.at = IF screen = NoPane THEN "done" ELSE "saying"]
  <1>2. to \in Relays /\ to.at = IF screen = NoPane THEN "done" ELSE "saying"
    BY <1>1 DEF Relays, RelayAts
  <1>3. /\ Moves(r, "reading", to) /\ hits' = hits
        /\ screen' = IF screen = NoPane THEN NoPane ELSE Input
        /\ UNCHANGED <<paneTurn, dialogs, unposted, disturbed>>
    BY DEF Refuses
  <1>4. AnswersWhatItRead'
    BY <1>1, <1>3 DEF AnswersWhatItRead
  <1> HIDE DEF to
  <1>5. QED
    BY <1>1, <1>2, <1>3, <1>4, RelayKept DEF DialogTypes

LEMMA DecidedKept ==
  ASSUME DialogInv, NEW r \in DOMAIN relays, NEW yes \in BOOLEAN, Decided(r, yes)
  PROVE  DialogInv'
  <1>1. DialogTypes /\ AnswersWhatItRead /\ relays[r] \in Relays
    BY DialogFacts DEF DialogInv
  <1> DEFINE to == [relays[r] EXCEPT !.at = "typing", !.allowed = yes]
  <1>2. to \in Relays /\ to.at = "typing" /\ to.read = relays[r].read
    BY <1>1 DEF Relays, RelayAts
  <1>3. /\ Moves(r, "asking", to) /\ hits' = hits /\ screen' = screen
        /\ UNCHANGED <<paneTurn, dialogs, unposted, disturbed>>
    BY DEF Decided
  <1>4. AnswersWhatItRead'
    BY <1>1, <1>3 DEF AnswersWhatItRead
  <1>5. ~disturbed => screen # Input /\ \A d : Shows(screen, d) => relays[r].read = d
    <2>1. relays[r].at = "asking"
      BY <1>3 DEF Moves
    <2>2. QED
      BY <2>1, WhoseTurn, ShowsOne
  <1> HIDE DEF to
  <1>6. QED
    BY <1>1, <1>2, <1>3, <1>4, <1>5, RelayKept DEF DialogTypes

\* A key goes into what is on the screen; without a disturbance that is what was read.
LEMMA TypesKeyKept ==
  ASSUME DialogInv, NEW r \in DOMAIN relays, TypesKey(r)
  PROVE  DialogInv'
  <1>1. /\ DialogTypes /\ AnswersWhatItRead /\ relays[r] \in Relays /\ MaxDialogs \in Nat
        /\ dialogs \in Nat /\ dialogs <= MaxDialogs
    BY DialogFacts DEF DialogInv
  <1> DEFINE to == [relays[r] EXCEPT !.at = IF screen = NoPane \/ relays[r].allowed
                                            THEN "done" ELSE "saying"]
  <1>2. /\ to \in Relays
        /\ to.at = IF screen = NoPane \/ relays[r].allowed THEN "done" ELSE "saying"
    BY <1>1 DEF Relays, RelayAts
  <1>3. Moves(r, "typing", to) /\ UNCHANGED <<paneTurn, dialogs, unposted, disturbed>>
    BY DEF TypesKey
  <1>4. relays[r].at = "typing" /\ relays[r].read \in 0..MaxDialogs
        /\ relays[r].allowed \in BOOLEAN
    BY <1>1, <1>3 DEF Moves, Relays
  <1>5. ~disturbed => \E d \in 1..dialogs : Shows(screen, d) /\ relays[r].read = d
    BY <1>4, WhoseTurn
  <1>6. hits' \subseteq (0..MaxDialogs) \X (1..MaxDialogs)
    <2>1. screen[1] \in Asked => screen[2] \in 1..MaxDialogs
      <3>1. SUFFICES ASSUME screen[1] \in Asked PROVE screen[2] \in 1..MaxDialogs
        OBVIOUS
      <3>2. PICK d \in 1..dialogs : Shows(screen, d)
        BY <1>1, <3>1, ScreenIs DEF DialogTypes
      <3>3. screen[2] = d
        BY <3>2, ScreenIs
      <3>4. d \in 1..MaxDialogs
        BY <1>1
      <3>5. QED
        BY <3>3, <3>4
    <2>2. CASE screen[1] \in Asked
      <3>1. hits' = hits \union {<<relays[r].read, screen[2]>>}
        BY <2>2 DEF TypesKey
      <3>2. QED
        BY <1>1, <1>4, <2>1, <2>2, <3>1 DEF DialogTypes
    <2>3. CASE screen[1] \notin Asked
      BY <1>1, <2>3 DEF TypesKey, DialogTypes
    <2>4. QED
      BY <2>2, <2>3
  <1>7. ~disturbed => screen[1] \in Asked /\ AnswersWhatItRead'
    <2>1. SUFFICES ASSUME ~disturbed PROVE screen[1] \in Asked /\ AnswersWhatItRead'
      OBVIOUS
    <2>2. screen[1] \in Asked /\ screen[2] = relays[r].read
      BY <1>5, <2>1, ScreenIs
    <2>3. hits' = hits \union {<<relays[r].read, screen[2]>>}
      BY <2>2 DEF TypesKey
    <2>4. QED
      BY <1>1, <2>1, <2>2, <2>3 DEF AnswersWhatItRead
  <1>8. /\ screen' \in {screen, Working, Input, NoPane}
        /\ screen[1] \in Asked => screen' = IF relays[r].allowed THEN Working ELSE Input
    BY DEF TypesKey
  <1>9. ~disturbed => screen # NoPane
    BY <1>7, ScreenIs
  <1> HIDE DEF to
  <1>10. QED
    BY <1>2, <1>3, <1>4, <1>6, <1>7, <1>8, <1>9, RelayKept

\* The words of a refusal: without a disturbance the input waits for them.
LEMMA SaysRefusalKept ==
  ASSUME DialogInv, NEW r \in DOMAIN relays, SaysRefusal(r)
  PROVE  DialogInv'
  <1>1. /\ DialogTypes /\ AnswersWhatItRead /\ relays[r] \in Relays /\ MaxDialogs \in Nat
        /\ dialogs \in Nat /\ dialogs <= MaxDialogs
    BY DialogFacts DEF DialogInv
  <1> DEFINE to == [relays[r] EXCEPT !.at = "done"]
  <1>2. to \in Relays /\ to.at = "done"
    BY <1>1 DEF Relays, RelayAts
  <1>3. Moves(r, "saying", to) /\ UNCHANGED <<paneTurn, dialogs, unposted, disturbed>>
    BY DEF SaysRefusal
  <1>4. relays[r].at = "saying"
    BY <1>3 DEF Moves
  <1>5. ~disturbed => screen = Input
    BY <1>4, WhoseTurn
  <1>6. hits' \subseteq (0..MaxDialogs) \X (1..MaxDialogs)
    <2>1. screen[1] \in Asked => screen[2] \in 1..MaxDialogs
      <3>1. SUFFICES ASSUME screen[1] \in Asked PROVE screen[2] \in 1..MaxDialogs
        OBVIOUS
      <3>2. PICK d \in 1..dialogs : Shows(screen, d)
        BY <1>1, <3>1, ScreenIs DEF DialogTypes
      <3>3. screen[2] = d
        BY <3>2, ScreenIs
      <3>4. d \in 1..MaxDialogs
        BY <1>1
      <3>5. QED
        BY <3>3, <3>4
    <2>2. CASE screen[1] \in Asked
      <3>1. hits' = hits \union {<<0, screen[2]>>}
        BY <2>2 DEF SaysRefusal
      <3>2. QED
        BY <1>1, <2>1, <2>2, <3>1 DEF DialogTypes
    <2>3. CASE screen[1] \notin Asked
      BY <1>1, <2>3 DEF SaysRefusal, DialogTypes
    <2>4. QED
      BY <2>2, <2>3
  <1>7. ~disturbed => hits' = hits /\ screen' = Working
    BY <1>5, ScreenIs DEF SaysRefusal
  <1>8. screen' \in {screen, Working, Input, NoPane}
    BY DEF SaysRefusal
  <1>9. ~disturbed => AnswersWhatItRead'
    BY <1>1, <1>7 DEF AnswersWhatItRead
  <1> HIDE DEF to
  <1>10. QED
    BY <1>2, <1>3, <1>6, <1>7, <1>8, <1>9, RelayKept

LEMMA DialogInvStarts == DialogInit => DialogInv
  <1>1. SUFFICES ASSUME DialogInit PROVE DialogInv
    OBVIOUS
  <1>2. DialogTypes
    <2>1. MaxDialogs \in Nat /\ MaxPaneTurns \in Nat
      BY DialogAssumption
    <2>2. relays \in Seq(Relays)
      BY <1>1 DEF DialogInit
    <2>3. screen = NoPane /\ hits = {} /\ unposted = {} /\ disturbed = FALSE
          /\ paneTurn \in 0..MaxPaneTurns /\ dialogs \in 0..MaxDialogs
      BY <1>1, <2>1 DEF DialogInit
    <2>4. QED
      BY <2>1, <2>2, <2>3 DEF DialogTypes
  <1>3. TakeTurns /\ AnswersWhatItRead
    <2>1. \A d : ~Shows(screen, d) /\ screen # Input
      BY <1>1, ScreenIs DEF DialogInit
    <2>2. QED
      BY <1>1, <2>1 DEF DialogInit, TakeTurns, NobodyAnswers, AnswersWhatItRead
  <1>4. QED
    BY <1>2, <1>3 DEF DialogInv

LEMMA DialogInvKept == DialogInv /\ [DialogNext]_dialogVars => DialogInv'
  <1>1. SUFFICES ASSUME DialogInv, [DialogNext]_dialogVars PROVE DialogInv'
    OBVIOUS
  <1>2. CASE UNCHANGED dialogVars
    BY <1>1, <1>2 DEF dialogVars, DialogInv, DialogTypes, TakeTurns, NobodyAnswers,
       OneAnswers, DialogIsAnswered, AnswersWhatItRead
  <1>3. CASE DialogNext
    BY <1>1, <1>3, PaneKept, PaneAsksKept, PaintedKept, NotifiedKept, ReadsDialogKept,
       RefusesKept, DecidedKept, TypesKeyKept, SaysRefusalKept DEF DialogNext
  <1>4. QED
    BY <1>1, <1>2, <1>3

LEMMA DialogInvAnswers == DialogInv => DialogTypeOK /\ DialogsAreAnswered
  <1>1. SUFFICES ASSUME DialogInv PROVE DialogTypeOK /\ DialogsAreAnswered
    OBVIOUS
  <1>2. DialogTypes /\ TakeTurns /\ AnswersWhatItRead
    BY <1>1 DEF DialogInv
  <1>3. DialogTypeOK
    <2>1. screen[1] \in Asked \union {"no pane", "work", "input"}
      BY <1>2, ScreenIs DEF DialogTypes
    <2>2. \A r \in DOMAIN relays :
            relays[r].at \in {"reading", "asking", "typing", "saying", "done"}
      <3>1. \A r \in DOMAIN relays : relays[r] \in Relays
        BY <1>1, DialogFacts
      <3>2. QED
        BY <3>1 DEF Relays, RelayAts
    <2>3. unposted \subseteq 1..MaxDialogs
      BY <1>2 DEF DialogTypes
    <2>4. QED
      BY <1>2, <2>1, <2>2, <2>3 DEF DialogTypes, DialogTypeOK
  <1>4. NoDialogIsStranded
    <2>1. SUFFICES ASSUME screen[1] \in Asked, ~disturbed PROVE unposted # {} \/ AtWork # {}
      BY DEF NoDialogIsStranded
    <2>2. PICK d \in 1..dialogs : Shows(screen, d)
      BY <1>2, <2>1, ScreenIs DEF DialogTypes
    <2>3. DialogIsAnswered(d)
      BY <1>2, <2>1, <2>2 DEF TakeTurns
    <2>4. QED
      BY <2>3 DEF DialogIsAnswered, OneAnswers, AtWork
  <1>5. NoRefusalIsSilent
    BY <1>2 DEF TakeTurns, OneAnswers, NoRefusalIsSilent, AtWork
  <1>6. QED
    BY <1>2, <1>3, <1>4, <1>5 DEF DialogsAreAnswered

\* A dialog is answered once, by the person's last word on it, and what a pane shows is
\* what its turn does (DialogInv; pane_prompts.py and the hook that posts for it).
THEOREM DialogsAnswered == DialogSpec => []DialogsAreAnswered
  <1>1. DialogInit => DialogInv
    BY DialogInvStarts
  <1>2. DialogInv /\ [DialogNext]_dialogVars => DialogInv'
    BY DialogInvKept
  <1>3. DialogInv => DialogsAreAnswered
    BY DialogInvAnswers
  <1>4. QED
    BY <1>1, <1>2, <1>3, PTL DEF DialogSpec

-----------------------------------------------------------------------------
(* Pinned models: what a chat is told, and what its turn was laid on.       *)

TurnFields == {"on", "account", "first", "pool", "base", "pin", "runs", "row", "touched"}

PinTypes ==
    /\ conf \in Confs /\ listsReadable \in BOOLEAN /\ modelsLoaded \in BOOLEAN
    /\ DOMAIN pins = PinChats /\ DOMAIN meant = PinChats
    /\ store = TornStore \/ DOMAIN store = PinChats
    /\ DOMAIN chosen = PinChats /\ DOMAIN reading = PinChats /\ DOMAIN running = PinChats
    /\ DOMAIN keptAccount = PinChats
    /\ moved \in [PinChats -> BOOLEAN] /\ fits \in [PinChats -> BOOLEAN]
    /\ happened \in 0 .. MaxHappens /\ unwritten \in BOOLEAN /\ turnedDown \subseteq PinChats

\* A session has no account, or the one it was last told.
AccountStands(c) ==
    /\ chosen[c] = Unchosen => keptAccount[c] = "unset"
    /\ chosen[c] # Unchosen => /\ chosen[c].name = keptAccount[c]
                               /\ keptAccount[c] \in {"blank"} \cup DOMAIN Registry

\* What RunsAsLaid says of one turn.
LaidOn(r) ==
    LET theirs == IF r.account = "blank" THEN "blank" ELSE Registry[r.account].model
    IN  /\ r.pin.model # "blank" => r.runs.model = r.pin.model
        /\ r.runs.effort = (IF r.pin.effort # "blank" THEN r.pin.effort ELSE r.base.effort)
        /\ r.pin.model = "blank" /\ theirs # "blank" => r.runs.model = theirs
        /\ r.pin.model = "blank" /\ theirs = "blank" /\ r.runs.mode = r.base.mode =>
               r.runs.model = r.base.model

\* A turn that neither an edit nor a command has touched runs on what holds now.
TurnStands(c) ==
    LET r == running[c]
    IN  r # Resting =>
          /\ DOMAIN r = TurnFields /\ LaidOn(r)
          /\ chosen[c] # Unchosen /\ chosen[c].name = r.first
          /\ r.account \in {"blank"} \cup DOMAIN Registry /\ r.touched \in BOOLEAN
          /\ c = "mapped" => r.row # "missing"
          /\ ~r.touched => /\ r.base = BaseProfile(c) /\ r.pin = PinsNow[c]
                           /\ r.runs = OnAccount(BaseProfile(c), r.account, PinsNow[c])

\* The context reading is of the model that runs, unless something moved since.
ReadingStands(c) == reading[c] # "none" /\ ~moved[c] => reading[c] = Current(c).model

\* A pin of a catalogued model has an effort the model takes.
FitPin(pin) ==
    pin.model # "blank" /\ pin.effort # "blank" /\ IdOf(pin.model) \in DOMAIN Levels =>
        pin.effort \in Levels[IdOf(pin.model)]

PinsStand ==
    /\ ~modelsLoaded => pins = NoPins
    /\ ~unwritten => FromStore = meant
    /\ PinsNow = meant
    /\ "other" \notin turnedDown

ChatStands(c) ==
    /\ AccountStands(c) /\ TurnStands(c) /\ ReadingStands(c)
    /\ fits[c] => FitPin(PinsNow[c])

PinInv == PinTypes /\ PinsStand /\ \A c \in PinChats : ChatStands(c)

LEMMA PinRecords ==
  /\ DOMAIN NoPins = PinChats /\ DOMAIN Resting = {"account", "on"} /\ Resting.account = "blank"
  /\ Unchosen.name = "unset" /\ DOMAIN TornStore = {}
  /\ "first" \in TurnFields /\ "mapped" \in PinChats /\ "other" \in PinChats
  /\ \A c \in PinChats : NoPins[c].model = "blank" /\ NoPins[c].effort = "blank"
  BY DEF NoPins, NoPin, Resting, Unchosen, TornStore, TurnFields, PinChats

LEMMA NotResting ==
  ASSUME NEW r, DOMAIN r = TurnFields PROVE r # Resting
  <1>1. SUFFICES ASSUME r = Resting PROVE FALSE
    OBVIOUS
  <1>2. DOMAIN Resting = TurnFields
    BY <1>1
  <1>3. "first" \in {"account", "on"}
    BY <1>2, PinRecords
  <1>4. QED
    BY <1>3

LEMMA PinConstants ==
  /\ MaxHappens \in Nat /\ "unset" \notin DOMAIN Registry
  /\ \A f \in Confs : f.route.name \in {"blank"} \cup DOMAIN Registry /\ (f.whole \/ f.row = "none")
  BY PinAssumption

\* The store and this process give a pin for each chat.
LEMMA PinsNowHasChats ==
  ASSUME PinTypes PROVE DOMAIN PinsNow = PinChats
  BY PinRecords DEF PinTypes, PinsNow, FromStore

LEMMA OnAccountIs ==
  ASSUME NEW base, NEW name, NEW pin
  PROVE  LET res == OnAccount(base, name, pin)
             theirs == IF name = "blank" THEN "blank" ELSE Registry[name].model
         IN  /\ pin.model # "blank" => res.model = pin.model
             /\ res.effort = (IF pin.effort # "blank" THEN pin.effort ELSE base.effort)
             /\ pin.model = "blank" /\ theirs # "blank" => res.model = theirs
             /\ pin.model = "blank" /\ theirs = "blank" /\ res.mode = base.mode =>
                    res.model = base.model
  BY DEF OnAccount, Pinned

\* What a command does to the pin of its chat does not depend on what else it holds.
LEMMA PinAfterIs ==
  ASSUME NEW pin, NEW name, NEW effort, name # "default", effort \notin {"blank", "default"}
  PROVE  PinAfter(pin, name, effort).model = name /\ PinAfter(pin, name, effort).effort = effort
  BY DEF PinAfter

\* A row stops its own chat, and no turn of that chat is let past it.
LEMMA RowProblemIs ==
  /\ \A c \in PinChats : Problem(c) = "row" => c = "mapped"
  /\ Problem("mapped") = "no" => ~conf.whole \/ conf.row # "missing"
  <1>1. \A c \in PinChats : RowProblem(c) = "row" => c = "mapped"
    BY DEF RowProblem
  <1>2. ModelProblem \in {"model", "no"} /\ \A c \in PinChats : AccountProblem(c) # "row"
    BY DEF ModelProblem, AccountProblem
  <1>3. RowProblem("mapped") = "no" => ~conf.whole \/ conf.row # "missing"
    BY DEF RowProblem
  <1>4. QED
    BY <1>1, <1>2, <1>3 DEF Problem

\* What is left alone between two states: the configuration, the accounts and the turns.
SameConf == conf' = conf
SameChat(c) ==
    /\ chosen'[c] = chosen[c] /\ keptAccount'[c] = keptAccount[c]
    /\ running'[c] = running[c] /\ reading'[c] = reading[c] /\ moved'[c] = moved[c]
    /\ fits'[c] = fits[c]

LEMMA ConfDecides ==
  ASSUME conf' = conf
  PROVE  /\ \A c : BaseProfile(c)' = BaseProfile(c) /\ Routed' = Routed
         /\ \A base, name, pin : OnAccount(base, name, pin)' = OnAccount(base, name, pin)
  BY DEF BaseProfile, Global, OnTriage, Routed, OnAccount, Pinned

\* A chat that nothing was done to keeps its standing, as long as its pin is the same.
LEMMA SameChatStands ==
  ASSUME conf' = conf, NEW c \in PinChats, SameChat(c), ChatStands(c),
         PinsNow'[c] = PinsNow[c]
  PROVE  ChatStands(c)'
  <1>1. /\ chosen'[c] = chosen[c] /\ keptAccount'[c] = keptAccount[c]
        /\ running'[c] = running[c] /\ reading'[c] = reading[c] /\ moved'[c] = moved[c]
        /\ fits'[c] = fits[c]
    BY DEF SameChat
  <1>2. AccountStands(c) /\ TurnStands(c) /\ ReadingStands(c) /\ (fits[c] => FitPin(PinsNow[c]))
    BY DEF ChatStands
  <1>3. AccountStands(c)'
    BY <1>1, <1>2 DEF AccountStands
  <1>4. BaseProfile(c)' = BaseProfile(c) /\ Routed' = Routed
    BY ConfDecides
  <1>5. \A base, name, pin : OnAccount(base, name, pin)' = OnAccount(base, name, pin)
    BY ConfDecides
  <1>6. TurnStands(c)'
    BY <1>1, <1>2, <1>4, <1>5 DEF TurnStands, LaidOn
  <1>7. Selection(c)' = Selection(c)
    BY <1>1, <1>4 DEF Selection
  <1>8. Current(c)' = Current(c)
    BY <1>4, <1>5, <1>7 DEF Current
  <1>9. ReadingStands(c)'
    BY <1>1, <1>2, <1>8 DEF ReadingStands
  <1>10. (fits[c] => FitPin(PinsNow[c]))'
    BY <1>1, <1>2 DEF FitPin
  <1>11. QED
    BY <1>3, <1>6, <1>9, <1>10 DEF ChatStands

\* A turn that is only marked as touched runs on what it was laid on.
LEMMA TouchedStands ==
    ASSUME NEW c \in PinChats, TurnStands(c), running[c] # Resting, UNCHANGED chosen,
           DOMAIN running'[c] = TurnFields, running'[c].touched = TRUE,
           running'[c].account = running[c].account, running'[c].first = running[c].first,
           running'[c].row = running[c].row, running'[c].pin = running[c].pin,
           running'[c].runs = running[c].runs, running'[c].base = running[c].base
    PROVE  TurnStands(c)'
  <1>1. PICK r : r = running[c]
    OBVIOUS
  <1>2. PICK s : s = running'[c]
    OBVIOUS
  <1>3. /\ DOMAIN s = TurnFields /\ s.touched = TRUE
        /\ s.account = r.account /\ s.first = r.first /\ s.row = r.row /\ s.pin = r.pin
        /\ s.runs = r.runs /\ s.base = r.base
    BY <1>1, <1>2, Zenon
  <1>4. /\ LaidOn(r) /\ chosen[c] # Unchosen /\ chosen[c].name = r.first
        /\ r.account \in {"blank"} \cup DOMAIN Registry
        /\ c = "mapped" => r.row # "missing"
    BY <1>1, Zenon DEF TurnStands
  <1>5. LaidOn(s)
    BY <1>3, <1>4 DEF LaidOn
  <1>6. /\ chosen'[c] # Unchosen /\ chosen'[c].name = s.first
        /\ s.account \in {"blank"} \cup DOMAIN Registry /\ s.touched \in BOOLEAN
        /\ c = "mapped" => s.row # "missing"
    BY <1>3, <1>4
  <1>7. QED
    BY <1>2, <1>3, <1>5, <1>6, Zenon DEF TurnStands, LaidOn

\* A command is given: the chat's pin is what the chat is told, the other's stays.
LEMMA ModelCommandKept ==
  ASSUME PinInv, NEW c \in PinChats, NEW name, NEW effort, NEW write \in {"done", "denied", "torn"},
         ModelCommand(c, name, effort, write)
  PROVE  PinInv'
  <1>0. PinTypes /\ PinsStand /\ \A d \in PinChats : ChatStands(d)
    BY DEF PinInv
  <1>1. /\ pins' = [PinsNow EXCEPT ![c] = PinAfter(PinsNow[c], name, effort)]
        /\ modelsLoaded' = TRUE
        /\ meant' = [meant EXCEPT ![c] = PinAfter(meant[c], name, effort)]
        /\ store' \in {pins', store, TornStore} /\ (write = "done" => store' = pins')
        /\ unwritten' = (write # "done")
        /\ happened < MaxHappens /\ happened' = happened + 1
        /\ conf' = conf /\ listsReadable' = listsReadable /\ chosen' = chosen
        /\ keptAccount' = keptAccount /\ turnedDown' = turnedDown
    BY DEF ModelCommand, Happens
  <1>2. /\ reading' = [reading EXCEPT ![c] = "none"] /\ moved' = [moved EXCEPT ![c] = FALSE]
        /\ running' = IF running[c] = Resting THEN running
                      ELSE [running EXCEPT ![c].touched = TRUE]
        /\ fits' = [fits EXCEPT ![c] = /\ listsReadable /\ Current(c).mode = "native"
                                      /\ name # "default" /\ effort \notin {"blank", "default"}]
    BY DEF ModelCommand
  <1>3. DOMAIN PinsNow = PinChats /\ PinsNow = meant
    BY <1>0, PinsNowHasChats DEF PinsStand
  <1>4. PinsNow' = pins'
    BY <1>1 DEF PinsNow
  <1>5. /\ PinsNow' = meant' /\ DOMAIN pins' = PinChats
        /\ \A d \in PinChats \ {c} : PinsNow'[d] = PinsNow[d]
        /\ PinsNow'[c] = PinAfter(PinsNow[c], name, effort)
    BY <1>1, <1>3, <1>4
  <1>6. PinTypes'
    <2>1. DOMAIN running' = PinChats /\ DOMAIN reading' = PinChats /\ DOMAIN meant' = PinChats
      BY <1>0, <1>1, <1>2 DEF PinTypes
    <2>2. fits' \in [PinChats -> BOOLEAN] /\ moved' \in [PinChats -> BOOLEAN]
      BY <1>0, <1>2 DEF PinTypes
    <2>3. store' = TornStore \/ DOMAIN store' = PinChats
      BY <1>0, <1>1, <1>5 DEF PinTypes
    <2>4. happened' \in 0 .. MaxHappens
      <3>1. MaxHappens \in Nat /\ happened \in 0 .. MaxHappens
        BY <1>0, PinConstants DEF PinTypes
      <3>2. happened < MaxHappens /\ happened' = happened + 1
        BY <1>1
      <3>3. QED
        BY <3>1, <3>2
    <2>5. QED
      BY <1>0, <1>1, <1>5, <2>1, <2>2, <2>3, <2>4 DEF PinTypes
  <1>7. PinsStand'
    <2>1. write = "done" => FromStore' = meant'
      <3>1. DOMAIN pins' # DOMAIN TornStore
        BY <1>5, PinRecords
      <3>2. pins' # TornStore
        BY <3>1
      <3>3. QED
        BY <1>1, <1>4, <1>5, <3>2 DEF FromStore, TornStore
    <2>2. QED
      BY <1>0, <1>1, <1>5, <2>1 DEF PinsStand
  <1>8. ASSUME NEW d \in PinChats, d # c PROVE ChatStands(d)'
    <2>1. SameChat(d)
      BY <1>0, <1>1, <1>2, <1>8 DEF SameChat, PinTypes
    <2>2. ChatStands(d) /\ PinsNow'[d] = PinsNow[d]
      BY <1>0, <1>5, <1>8
    <2>3. QED
      BY <1>1, <2>1, <2>2, SameChatStands
  <1>9. ChatStands(c)'
    <2>1. AccountStands(c) /\ TurnStands(c)
      BY <1>0 DEF ChatStands
    <2>2. AccountStands(c)'
      BY <1>1, <2>1 DEF AccountStands
    <2>3. TurnStands(c)'
      <3>1. CASE running[c] = Resting
        BY <1>2, <3>1 DEF TurnStands, Resting
      <3>2. CASE running[c] # Resting
        <4>1. DOMAIN running[c] = TurnFields
          BY <2>1, <3>2 DEF TurnStands
        <4>2. running'[c] = [running[c] EXCEPT !.touched = TRUE]
          BY <1>0, <1>2, <3>2 DEF PinTypes
        <4>3. /\ DOMAIN running'[c] = TurnFields /\ running'[c].touched = TRUE
              /\ running'[c].account = running[c].account /\ running'[c].first = running[c].first
              /\ running'[c].row = running[c].row /\ running'[c].pin = running[c].pin
              /\ running'[c].runs = running[c].runs /\ running'[c].base = running[c].base
          BY <4>1, <4>2 DEF TurnFields
        <4>4. QED
          BY <1>1, <2>1, <3>2, <4>3, TouchedStands
      <3>3. QED
        BY <3>1, <3>2
    <2>4. ReadingStands(c)'
      BY <1>0, <1>2 DEF ReadingStands, PinTypes
    <2>5. (fits[c] => FitPin(PinsNow[c]))'
      <3>1. SUFFICES ASSUME fits'[c] PROVE FitPin(PinsNow'[c])
        BY DEF FitPin
      <3>2. /\ listsReadable /\ Current(c).mode = "native" /\ name # "default"
            /\ effort \notin {"blank", "default"}
        BY <1>0, <1>2, <3>1 DEF PinTypes
      <3>3. effort \in LevelsOf(name, "native")
        BY <3>2 DEF ModelCommand, CommandTaken, EffortOptions
      <3>6. /\ PinAfter(PinsNow[c], name, effort).model = name
            /\ PinAfter(PinsNow[c], name, effort).effort = effort
        BY <3>2, PinAfterIs
      <3>4. PinsNow'[c].model = name /\ PinsNow'[c].effort = effort
        BY <1>5, <3>6
      <3>5. QED
        BY <3>3, <3>4 DEF FitPin, LevelsOf
    <2>6. QED
      BY <2>2, <2>3, <2>4, <2>5 DEF ChatStands
  <1>10. QED
    BY <1>6, <1>7, <1>8, <1>9 DEF PinInv

\* The store is read, and gives what holds already.
LEMMA PinsAreRead ==
  ASSUME PinInv, pins' = PinsNow, modelsLoaded' = TRUE, UNCHANGED <<store, meant>>
  PROVE  PinsNow' = PinsNow /\ DOMAIN pins' = PinChats
  BY PinsNowHasChats DEF PinInv, PinsNow

LEMMA AsksWhereKept ==
  ASSUME PinInv, NEW c \in PinChats, AsksWhere(c)
  PROVE  PinInv'
  <1>0. PinTypes /\ PinsStand /\ \A d \in PinChats : ChatStands(d)
    BY DEF PinInv
  <1>1. /\ pins' = PinsNow /\ modelsLoaded' = TRUE
        /\ UNCHANGED <<conf, listsReadable, store, chosen, reading, running, happened, meant,
                       unwritten, keptAccount, moved, fits, turnedDown>>
    BY DEF AsksWhere
  <1>2. PinsNow' = PinsNow /\ DOMAIN pins' = PinChats
    BY <1>1, PinsAreRead
  <1>3. PinTypes' /\ PinsStand'
    BY <1>0, <1>1, <1>2 DEF PinTypes, PinsStand, FromStore
  <1>4. ASSUME NEW d \in PinChats PROVE ChatStands(d)'
    BY <1>0, <1>1, <1>2, SameChatStands DEF SameChat
  <1>5. QED
    BY <1>3, <1>4 DEF PinInv

\* A turn starts: it is laid on what holds, and its session has its account from now on.
LEMMA PinnedTurnStartsKept ==
  ASSUME PinInv, NEW c \in PinChats, PinnedTurnStarts(c)
  PROVE  PinInv'
  <1>0. PinTypes /\ PinsStand /\ \A d \in PinChats : ChatStands(d)
    BY DEF PinInv
  <1> DEFINE name == Selection(c).name
             r == [on |-> "turn", account |-> name, first |-> name,
                   pool |-> Selection(c).pool, base |-> BaseProfile(c), pin |-> PinsNow[c],
                   runs |-> Current(c), row |-> IF c = "mapped" THEN conf.row ELSE "none",
                   touched |-> FALSE]
  <1>1. /\ running' = [running EXCEPT ![c] = r] /\ Problem(c) = "no"
        /\ chosen' = [chosen EXCEPT ![c] = Selection(c)]
        /\ keptAccount' = [keptAccount EXCEPT ![c] =
               IF keptAccount[c] = "unset" THEN name ELSE keptAccount[c]]
        /\ pins' = PinsNow /\ modelsLoaded' = TRUE
        /\ UNCHANGED <<conf, listsReadable, store, reading, happened, meant, unwritten, moved,
                       fits, turnedDown>>
    BY DEF PinnedTurnStarts
  <1>2. PinsNow' = PinsNow /\ DOMAIN pins' = PinChats
    BY <1>1, PinsAreRead
  <1>3. PinTypes'
    BY <1>0, <1>1, <1>2 DEF PinTypes
  <1>4. PinsStand'
    BY <1>0, <1>1, <1>2 DEF PinsStand, FromStore
  <1>5. ASSUME NEW d \in PinChats, d # c PROVE ChatStands(d)'
    <2>1. SameChat(d)
      BY <1>0, <1>1, <1>5 DEF SameChat, PinTypes
    <2>2. QED
      BY <1>0, <1>1, <1>2, <2>1, SameChatStands
  <1>6. /\ name \in {"blank"} \cup DOMAIN Registry /\ name # "unset"
        /\ (keptAccount[c] # "unset" => name = keptAccount[c])
    <2>1. AccountStands(c) /\ conf \in Confs
      BY <1>0 DEF ChatStands, PinTypes
    <2>2. Routed.name \in {"blank"} \cup DOMAIN Registry
      BY <2>1, PinConstants DEF Routed
    <2>3. QED
      BY <2>1, <2>2, PinConstants DEF Selection, AccountStands
  <1>7. /\ running'[c] = r /\ chosen'[c] = Selection(c) /\ keptAccount'[c] = name
        /\ reading'[c] = reading[c] /\ moved'[c] = moved[c] /\ fits'[c] = fits[c]
    BY <1>0, <1>1, <1>6 DEF PinTypes
  <1>8. chosen'[c] # Unchosen
    BY <1>6, <1>7, PinRecords
  <1>9. AccountStands(c)'
    BY <1>6, <1>7, <1>8 DEF AccountStands
  <1>10. /\ BaseProfile(c)' = BaseProfile(c)
         /\ \A base, n, pin : OnAccount(base, n, pin)' = OnAccount(base, n, pin)
    BY <1>1, ConfDecides
  <1>11. TurnStands(c)'
    <2>1. DOMAIN r = TurnFields
      BY DEF TurnFields
    <2>3. c = "mapped" => r.row # "missing"
      <3>1. conf.whole \/ conf.row = "none"
        BY <1>0, PinConstants DEF PinTypes
      <3>2. QED
        BY <1>1, <3>1, RowProblemIs
    <2>4. /\ r.account = name /\ r.first = name /\ r.touched = FALSE /\ r.base = BaseProfile(c)
          /\ r.pin = PinsNow[c] /\ r.runs = OnAccount(BaseProfile(c), name, PinsNow[c])
      BY DEF Current
    <2> HIDE DEF r
    <2>2. LaidOn(r)
      BY <2>4, OnAccountIs DEF LaidOn
    <2>5. LaidOn(running[c])'
      BY <1>7, <2>2 DEF LaidOn
    <2>6. QED
      BY <1>2, <1>6, <1>7, <1>8, <1>10, <2>1, <2>3, <2>4, <2>5 DEF TurnStands
  <1>12. Selection(c)' = Selection(c)
    BY <1>7, <1>8 DEF Selection
  <1>13. Current(c)' = Current(c)
    BY <1>2, <1>10, <1>12 DEF Current
  <1>14. ChatStands(c)'
    BY <1>0, <1>2, <1>7, <1>9, <1>11, <1>13 DEF ChatStands, ReadingStands, FitPin
  <1>15. QED
    BY <1>3, <1>4, <1>5, <1>14 DEF PinInv

\* A refused turn changes nothing but the ghost of refusals.
LEMMA PinnedTurnRefusedKept ==
  ASSUME PinInv, NEW c \in PinChats, PinnedTurnRefused(c)
  PROVE  PinInv'
  <1>0. PinTypes /\ PinsStand /\ \A d \in PinChats : ChatStands(d)
    BY DEF PinInv
  <1>1. /\ turnedDown' = (IF Problem(c) = "row" THEN turnedDown \cup {c} ELSE turnedDown)
        /\ UNCHANGED <<conf, listsReadable, pins, modelsLoaded, store, chosen, reading, running,
                       happened, meant, unwritten, keptAccount, moved, fits>>
    BY DEF PinnedTurnRefused
  <1>2. turnedDown' \subseteq PinChats /\ "other" \notin turnedDown'
    <2>1. Problem(c) = "row" => c = "mapped"
      BY RowProblemIs
    <2>2. QED
      BY <1>0, <1>1, <2>1 DEF PinTypes, PinsStand
  <1>3. PinsNow' = PinsNow
    BY <1>1 DEF PinsNow, FromStore
  <1>4. PinTypes' /\ PinsStand'
    BY <1>0, <1>1, <1>2, <1>3 DEF PinTypes, PinsStand, FromStore
  <1>5. ASSUME NEW d \in PinChats PROVE ChatStands(d)'
    BY <1>0, <1>1, <1>3, SameChatStands DEF SameChat
  <1>6. QED
    BY <1>4, <1>5 DEF PinInv

\* An account of the pool runs out: the turn is laid anew, from its base and its pin.
LEMMA AccountRunsOutKept ==
  ASSUME PinInv, NEW c \in PinChats, AccountRunsOut(c)
  PROVE  PinInv'
  <1>0. PinTypes /\ PinsStand /\ \A d \in PinChats : ChatStands(d)
    BY DEF PinInv
  <1>1. /\ running[c] # Resting
        /\ UNCHANGED <<conf, listsReadable, pins, modelsLoaded, store, chosen, reading,
                       happened, meant, unwritten, keptAccount, moved, fits, turnedDown>>
    BY DEF AccountRunsOut
  <1>2. PICK name \in DOMAIN Registry :
          running' = [running EXCEPT ![c].account = name,
                                     ![c].runs = Switched(running[c], name)]
    BY DEF AccountRunsOut
  <1>3. PinsNow' = PinsNow
    BY <1>1 DEF PinsNow, FromStore
  <1>4. PinTypes' /\ PinsStand'
    BY <1>0, <1>1, <1>2, <1>3 DEF PinTypes, PinsStand, FromStore
  <1>5. ASSUME NEW d \in PinChats, d # c PROVE ChatStands(d)'
    <2>1. SameChat(d)
      BY <1>0, <1>1, <1>2, <1>5 DEF SameChat, PinTypes
    <2>2. QED
      BY <1>0, <1>1, <1>3, <2>1, SameChatStands
  <1>6. ChatStands(c)'
    <2>1. AccountStands(c) /\ TurnStands(c) /\ ReadingStands(c) /\ (fits[c] => FitPin(PinsNow[c]))
      BY <1>0 DEF ChatStands
    <2>2. DOMAIN running[c] = TurnFields
      BY <1>1, <2>1 DEF TurnStands
    <2>3. running'[c] = [running[c] EXCEPT !.account = name, !.runs = Switched(running[c], name)]
      BY <1>0, <1>2 DEF PinTypes
    <2>4. /\ DOMAIN running'[c] = TurnFields /\ running'[c].account = name
          /\ running'[c].runs = OnAccount(running[c].base, name, running[c].pin)
          /\ running'[c].touched = running[c].touched /\ running'[c].first = running[c].first
          /\ running'[c].row = running[c].row /\ running'[c].pin = running[c].pin
          /\ running'[c].base = running[c].base
      BY <2>2, <2>3 DEF TurnFields, Switched
    <2>5. /\ BaseProfile(c)' = BaseProfile(c) /\ Routed' = Routed
          /\ \A base, n, pin : OnAccount(base, n, pin)' = OnAccount(base, n, pin)
      BY <1>1, ConfDecides
    <2>6. LaidOn(running[c])'
      <3>1. LaidOn(running'[c])
        BY <2>4, OnAccountIs DEF LaidOn
      <3>2. QED
        BY <3>1 DEF LaidOn
    <2>7. TurnStands(c)'
      BY <1>1, <1>3, <2>1, <2>4, <2>5, <2>6 DEF TurnStands
    <2>8. Current(c)' = Current(c)
      BY <1>1, <1>3, <2>5 DEF Current, Selection
    <2>9. QED
      BY <1>1, <1>3, <2>1, <2>7, <2>8 DEF ChatStands, AccountStands, ReadingStands, FitPin
  <1>7. QED
    BY <1>4, <1>5, <1>6 DEF PinInv

\* The reply is there: what is read is of the model that runs, unless the turn was touched.
LEMMA PinnedTurnEndsKept ==
  ASSUME PinInv, NEW c \in PinChats, PinnedTurnEnds(c)
  PROVE  PinInv'
  <1>0. PinTypes /\ PinsStand /\ \A d \in PinChats : ChatStands(d)
    BY DEF PinInv
  <1>1. PICK r : r = running[c]
    OBVIOUS
  <1>2. PICK reports \in BOOLEAN :
          reports <=> (r.runs.mode # "ollama" /\ (r.pool => Problem(c) = "no"))
    OBVIOUS
  <1>3. /\ r # Resting /\ running' = [running EXCEPT ![c] = Resting]
        /\ reading' = [reading EXCEPT ![c] = IF reports THEN r.runs.model ELSE reading[c]]
        /\ moved' = [moved EXCEPT ![c] =
               IF reports THEN r.touched
               ELSE moved[c] \/ (reading[c] # "none" /\ r.account # r.first)]
        /\ UNCHANGED <<conf, listsReadable, pins, modelsLoaded, store, happened, meant,
                       unwritten, fits, turnedDown>>
    BY <1>1, <1>2 DEF PinnedTurnEnds
  <1>4. IF r.account = r.first THEN UNCHANGED <<chosen, keptAccount>>
        ELSE /\ chosen' = [chosen EXCEPT ![c] = [name |-> r.account, pool |-> TRUE]]
             /\ keptAccount' = [keptAccount EXCEPT ![c] = r.account]
    BY <1>1 DEF PinnedTurnEnds
  <1>5. AccountStands(c) /\ TurnStands(c) /\ ReadingStands(c) /\ (fits[c] => FitPin(PinsNow[c]))
    BY <1>0 DEF ChatStands
  <1>6. /\ chosen[c] # Unchosen /\ chosen[c].name = r.first
        /\ r.account \in {"blank"} \cup DOMAIN Registry /\ r.touched \in BOOLEAN
        /\ ~r.touched => /\ r.base = BaseProfile(c) /\ r.pin = PinsNow[c]
                         /\ r.runs = OnAccount(BaseProfile(c), r.account, PinsNow[c])
    BY <1>1, <1>3, <1>5 DEF TurnStands
  <1>7. PinsNow' = PinsNow
    BY <1>3 DEF PinsNow, FromStore
  <1>8. PinTypes'
    <2>1. moved' \in [PinChats -> BOOLEAN]
      BY <1>0, <1>3, <1>6 DEF PinTypes
    <2>2. /\ DOMAIN running' = PinChats /\ DOMAIN reading' = PinChats
          /\ DOMAIN chosen' = PinChats /\ DOMAIN keptAccount' = PinChats
      BY <1>0, <1>3, <1>4 DEF PinTypes
    <2>3. QED
      BY <1>0, <1>3, <2>1, <2>2 DEF PinTypes
  <1>9. PinsStand'
    BY <1>0, <1>3, <1>7 DEF PinsStand, FromStore
  <1>10. ASSUME NEW d \in PinChats, d # c PROVE ChatStands(d)'
    <2>1. SameChat(d)
      BY <1>0, <1>3, <1>4, <1>10 DEF SameChat, PinTypes
    <2>2. QED
      BY <1>0, <1>3, <1>7, <2>1, SameChatStands
  <1>11. /\ running'[c] = Resting
         /\ reading'[c] = IF reports THEN r.runs.model ELSE reading[c]
         /\ moved'[c] = IF reports THEN r.touched
                        ELSE moved[c] \/ (reading[c] # "none" /\ r.account # r.first)
    BY <1>0, <1>3 DEF PinTypes
  <1>12. /\ chosen'[c] # Unchosen /\ chosen'[c].name = r.account
         /\ keptAccount'[c] = r.account
         /\ (r.account = r.first => chosen'[c] = chosen[c])
    <2>1. CASE r.account = r.first
      BY <1>4, <1>5, <1>6, <2>1 DEF AccountStands
    <2>2. CASE r.account # r.first
      <3>1. chosen'[c] = [name |-> r.account, pool |-> TRUE] /\ keptAccount'[c] = r.account
        BY <1>0, <1>4, <2>2 DEF PinTypes
      <3>2. r.account # "unset"
        BY <1>6, PinConstants
      <3>3. QED
        BY <2>2, <3>1, <3>2, PinRecords
    <2>3. QED
      BY <2>1, <2>2
  <1>13. AccountStands(c)'
    BY <1>6, <1>12 DEF AccountStands
  <1>14. TurnStands(c)'
    BY <1>11 DEF TurnStands, Resting
  <1>15. ReadingStands(c)'
    <2>1. /\ BaseProfile(c)' = BaseProfile(c) /\ Routed' = Routed
          /\ \A base, n, pin : OnAccount(base, n, pin)' = OnAccount(base, n, pin)
      BY <1>3, ConfDecides
    <2>2. Selection(c)'.name = r.account /\ Selection(c).name = r.first
      BY <1>6, <1>12 DEF Selection
    <2>3. Current(c)' = OnAccount(BaseProfile(c), r.account, PinsNow[c])
      BY <1>7, <2>1, <2>2 DEF Current
    <2>4. CASE reports
      BY <1>6, <1>11, <2>3, <2>4 DEF ReadingStands
    <2>5. CASE ~reports
      <3>1. SUFFICES ASSUME reading[c] # "none", ~moved[c], r.account = r.first
                     PROVE  reading[c] = Current(c)'.model
        BY <1>11, <2>5 DEF ReadingStands
      <3>2. Current(c)' = Current(c)
        BY <2>2, <2>3, <3>1 DEF Current
      <3>3. QED
        BY <1>5, <3>1, <3>2 DEF ReadingStands
    <2>6. QED
      BY <2>4, <2>5
  <1>16. ChatStands(c)'
    BY <1>3, <1>5, <1>7, <1>13, <1>14, <1>15 DEF ChatStands, FitPin
  <1>17. QED
    BY <1>8, <1>9, <1>10, <1>16 DEF PinInv

LEMMA PinnedTurnFailsKept ==
  ASSUME PinInv, NEW c \in PinChats, PinnedTurnFails(c)
  PROVE  PinInv'
  <1>0. PinTypes /\ PinsStand /\ \A d \in PinChats : ChatStands(d)
    BY DEF PinInv
  <1>1. /\ running' = [running EXCEPT ![c] = Resting]
        /\ UNCHANGED <<conf, listsReadable, pins, modelsLoaded, store, chosen, reading, happened,
                       meant, unwritten, keptAccount, moved, fits, turnedDown>>
    BY DEF PinnedTurnFails
  <1>2. PinsNow' = PinsNow
    BY <1>1 DEF PinsNow, FromStore
  <1>3. PinTypes' /\ PinsStand'
    BY <1>0, <1>1, <1>2 DEF PinTypes, PinsStand, FromStore
  <1>4. ASSUME NEW d \in PinChats, d # c PROVE ChatStands(d)'
    BY <1>0, <1>1, <1>2, <1>4, SameChatStands DEF SameChat, PinTypes
  <1>5. ChatStands(c)'
    <2>1. running'[c] = Resting
      BY <1>0, <1>1 DEF PinTypes
    <2>2. TurnStands(c)'
      BY <2>1 DEF TurnStands, Resting
    <2>3. Current(c)' = Current(c)
      BY <1>1, <1>2, ConfDecides DEF Current, Selection
    <2>4. QED
      BY <1>0, <1>1, <1>2, <2>2, <2>3 DEF ChatStands, AccountStands, ReadingStands, FitPin
  <1>6. QED
    BY <1>3, <1>4, <1>5 DEF PinInv

\* The file is edited: every turn is touched, and every reading of before has moved.
LEMMA EditsConfKept ==
  ASSUME PinInv, EditsConf
  PROVE  PinInv'
  <1>0. PinTypes /\ PinsStand /\ \A d \in PinChats : ChatStands(d)
    BY DEF PinInv
  <1>1. /\ happened < MaxHappens /\ happened' = happened + 1 /\ conf' \in Confs
        /\ moved' = [c \in PinChats |-> reading[c] # "none"]
        /\ running' = [c \in PinChats |-> IF running[c] = Resting THEN Resting
                                          ELSE [running[c] EXCEPT !.touched = TRUE]]
        /\ UNCHANGED <<listsReadable, pins, modelsLoaded, store, chosen, reading, meant,
                       unwritten, keptAccount, fits, turnedDown>>
    BY DEF EditsConf, Happens
  <1>2. PinsNow' = PinsNow
    BY <1>1 DEF PinsNow, FromStore
  <1>3. PinTypes'
    <2>1. happened' \in 0 .. MaxHappens
      <3>1. MaxHappens \in Nat /\ happened \in 0 .. MaxHappens
        BY <1>0, PinConstants DEF PinTypes
      <3>2. QED
        BY <1>1, <3>1
    <2>2. DOMAIN running' = PinChats /\ moved' \in [PinChats -> BOOLEAN]
      BY <1>1
    <2>3. QED
      BY <1>0, <1>1, <2>1, <2>2 DEF PinTypes
  <1>4. PinsStand'
    BY <1>0, <1>1, <1>2 DEF PinsStand, FromStore
  <1>5. ASSUME NEW c \in PinChats PROVE ChatStands(c)'
    <2>1. AccountStands(c) /\ TurnStands(c) /\ (fits[c] => FitPin(PinsNow[c]))
      BY <1>0 DEF ChatStands
    <2>2. TurnStands(c)'
      <3>1. CASE running[c] = Resting
        BY <1>1, <3>1 DEF TurnStands, Resting
      <3>2. CASE running[c] # Resting
        <4>1. DOMAIN running[c] = TurnFields
          BY <2>1, <3>2 DEF TurnStands
        <4>2. running'[c] = [running[c] EXCEPT !.touched = TRUE]
          BY <1>1, <3>2
        <4>3. /\ DOMAIN running'[c] = TurnFields /\ running'[c].touched = TRUE
              /\ running'[c].account = running[c].account /\ running'[c].first = running[c].first
              /\ running'[c].row = running[c].row /\ running'[c].pin = running[c].pin
              /\ running'[c].runs = running[c].runs /\ running'[c].base = running[c].base
          BY <4>1, <4>2 DEF TurnFields
        <4>4. QED
          BY <1>1, <2>1, <3>2, <4>3, TouchedStands
      <3>3. QED
        BY <3>1, <3>2
    <2>3. ReadingStands(c)'
      BY <1>1 DEF ReadingStands
    <2>4. QED
      BY <1>1, <1>2, <2>1, <2>2, <2>3 DEF ChatStands, AccountStands, FitPin
  <1>6. QED
    BY <1>3, <1>4, <1>5 DEF PinInv

LEMMA ListsChangeKept ==
  ASSUME PinInv, ListsChange
  PROVE  PinInv'
  <1>0. PinTypes /\ PinsStand /\ \A d \in PinChats : ChatStands(d)
    BY DEF PinInv
  <1>1. /\ happened < MaxHappens /\ happened' = happened + 1
        /\ listsReadable' = ~listsReadable
        /\ UNCHANGED <<conf, pins, modelsLoaded, store, chosen, reading, running, meant,
                       unwritten, keptAccount, moved, fits, turnedDown>>
    BY DEF ListsChange, Happens
  <1>2. PinsNow' = PinsNow
    BY <1>1 DEF PinsNow, FromStore
  <1>3. PinTypes'
    <2>1. happened' \in 0 .. MaxHappens
      <3>1. MaxHappens \in Nat /\ happened \in 0 .. MaxHappens
        BY <1>0, PinConstants DEF PinTypes
      <3>2. QED
        BY <1>1, <3>1
    <2>2. listsReadable' \in BOOLEAN
      BY <1>1
    <2>3. QED
      BY <1>0, <1>1, <2>1, <2>2 DEF PinTypes
  <1>4. PinsStand'
    BY <1>0, <1>1, <1>2 DEF PinsStand, FromStore
  <1>5. ASSUME NEW d \in PinChats PROVE ChatStands(d)'
    BY <1>0, <1>1, <1>2, SameChatStands DEF SameChat
  <1>6. QED
    BY <1>3, <1>4, <1>5 DEF PinInv

\* The daemon is back: what was written is what holds, and nothing runs.
LEMMA DaemonBackKept ==
  ASSUME PinInv, DaemonBack
  PROVE  PinInv'
  <1>0. PinTypes /\ PinsStand /\ \A d \in PinChats : ChatStands(d)
    BY DEF PinInv
  <1>1. /\ happened < MaxHappens /\ happened' = happened + 1
        /\ pins' = NoPins /\ modelsLoaded' = FALSE /\ reading' = [c \in PinChats |-> "none"]
        /\ running' = [c \in PinChats |-> Resting]
        /\ meant' = (IF unwritten THEN FromStore ELSE meant) /\ unwritten' = FALSE
        /\ moved' = [c \in PinChats |-> FALSE]
        /\ fits' = (IF unwritten THEN [c \in PinChats |-> FALSE] ELSE fits)
        /\ UNCHANGED <<conf, listsReadable, store, chosen, keptAccount, turnedDown>>
    BY DEF DaemonBack, Happens
  <1>2. FromStore' = FromStore /\ meant' = FromStore /\ PinsNow' = FromStore
    BY <1>0, <1>1 DEF PinsStand, FromStore, PinsNow
  <1>3. PinTypes'
    <2>1. happened' \in 0 .. MaxHappens
      <3>1. MaxHappens \in Nat /\ happened \in 0 .. MaxHappens
        BY <1>0, PinConstants DEF PinTypes
      <3>2. QED
        BY <1>1, <3>1
    <2>2. /\ DOMAIN running' = PinChats /\ moved' \in [PinChats -> BOOLEAN]
          /\ fits' \in [PinChats -> BOOLEAN] /\ DOMAIN reading' = PinChats
      BY <1>0, <1>1 DEF PinTypes
    <2>3. DOMAIN meant' = PinChats /\ DOMAIN pins' = PinChats
      BY <1>0, <1>1, <1>2, PinRecords DEF PinTypes, FromStore
    <2>4. QED
      BY <1>0, <1>1, <2>1, <2>2, <2>3 DEF PinTypes
  <1>4. PinsStand'
    BY <1>0, <1>1, <1>2 DEF PinsStand
  <1>5. ASSUME NEW c \in PinChats PROVE ChatStands(c)'
    <2>1. AccountStands(c) /\ (fits[c] => FitPin(PinsNow[c]))
      BY <1>0 DEF ChatStands
    <2>2. AccountStands(c)'
      BY <1>1, <2>1 DEF AccountStands
    <2>3. TurnStands(c)' /\ ReadingStands(c)'
      BY <1>1 DEF TurnStands, ReadingStands, Resting
    <2>4. (fits[c] => FitPin(PinsNow[c]))'
      <3>1. SUFFICES ASSUME fits'[c] PROVE FitPin(PinsNow'[c])
        BY DEF FitPin
      <3>2. ~unwritten /\ fits[c]
        BY <1>0, <1>1, <3>1
      <3>3. PinsNow' = PinsNow
        BY <1>0, <1>2, <3>2 DEF PinsStand
      <3>4. QED
        BY <2>1, <3>2, <3>3
    <2>5. QED
      BY <2>2, <2>3, <2>4 DEF ChatStands
  <1>6. QED
    BY <1>3, <1>4, <1>5 DEF PinInv

LEMMA PinInvStarts == PinInit => PinInv
  <1>1. SUFFICES ASSUME PinInit PROVE PinInv
    OBVIOUS
  <1>2. /\ conf \in Confs /\ listsReadable = TRUE
        /\ pins = NoPins /\ modelsLoaded = FALSE /\ store = NoPins
        /\ chosen = [c \in PinChats |-> Unchosen] /\ reading = [c \in PinChats |-> "none"]
        /\ running = [c \in PinChats |-> Resting] /\ happened = 0
        /\ meant = NoPins /\ unwritten = FALSE
        /\ keptAccount = [c \in PinChats |-> "unset"]
        /\ moved = [c \in PinChats |-> FALSE]
        /\ fits = [c \in PinChats |-> FALSE] /\ turnedDown = {}
    BY <1>1 DEF PinInit
  <1>3. PinTypes
    <2>1. happened \in 0 .. MaxHappens
      BY <1>2, PinConstants
    <2>2. QED
      BY <1>2, <2>1, PinRecords DEF PinTypes
  <1>4. PinsStand
    BY <1>2 DEF PinsStand, PinsNow, FromStore
  <1>5. \A c \in PinChats : ChatStands(c)
    BY <1>2 DEF ChatStands, AccountStands, TurnStands, ReadingStands
  <1>6. QED
    BY <1>3, <1>4, <1>5 DEF PinInv

LEMMA PinInvKept == PinInv /\ [PinNext]_pinVars => PinInv'
  <1>1. SUFFICES ASSUME PinInv, [PinNext]_pinVars PROVE PinInv'
    OBVIOUS
  <1>2. CASE UNCHANGED pinVars
    <2>1. PinTypes' /\ PinsStand' /\ PinsNow' = PinsNow
      BY <1>1, <1>2 DEF pinVars, PinInv, PinTypes, PinsStand, PinsNow, FromStore
    <2>2. ASSUME NEW d \in PinChats PROVE ChatStands(d)'
      BY <1>1, <1>2, <2>1, SameChatStands DEF SameChat, pinVars, PinInv
    <2>3. QED
      BY <2>1, <2>2 DEF PinInv
  <1>3. CASE PinNext
    BY <1>1, <1>3, ModelCommandKept, AsksWhereKept, PinnedTurnStartsKept,
       PinnedTurnRefusedKept, AccountRunsOutKept, PinnedTurnEndsKept, PinnedTurnFailsKept,
       EditsConfKept, ListsChangeKept, DaemonBackKept DEF PinNext
  <1>4. QED
    BY <1>1, <1>2, <1>3

LEMMA PinInvHolds == PinInv => PinTypeOK /\ PinsHold
  <1>1. SUFFICES ASSUME PinInv PROVE PinTypeOK /\ PinsHold
    OBVIOUS
  <1>2. PinTypes /\ PinsStand /\ \A d \in PinChats : ChatStands(d)
    BY <1>1 DEF PinInv
  <1>3. \A c \in PinChats : AccountStands(c) /\ TurnStands(c) /\ ReadingStands(c)
    BY <1>2 DEF ChatStands
  <1>4. PinTypeOK
    <2>1. \A c \in PinChats : chosen[c].name \in {"unset", "blank"} \cup DOMAIN Registry
      BY <1>3, PinRecords DEF AccountStands
    <2>2. \A c \in PinChats : running[c].account \in {"blank"} \cup DOMAIN Registry
      BY <1>3, PinRecords DEF TurnStands
    <2>3. QED
      BY <1>2, <2>1, <2>2 DEF PinTypes, PinTypeOK
  <1>5. PinsAreKept /\ RunsAsLaid /\ ReadingIsTheModels
    <2>1. RunsAsLaid
      BY <1>3 DEF TurnStands, LaidOn, RunsAsLaid
    <2>2. QED
      BY <1>2, <1>3, <2>1 DEF PinsStand, PinsAreKept, ReadingStands, ReadingIsTheModels
  <1>6. SessionsKeepAccounts
    BY <1>3 DEF TurnStands, AccountStands, SessionsKeepAccounts
  <1>7. RowsFailTheirOwn
    BY <1>2, <1>3, PinRecords DEF TurnStands, PinsStand, RowsFailTheirOwn
  <1>8. EffortFits
    <2>1. SUFFICES ASSUME NEW c \in PinChats, fits[c], pins[c].model # "blank",
                          pins[c].effort # "blank", IdOf(pins[c].model) \in DOMAIN Levels
                   PROVE  pins[c].effort \in Levels[IdOf(pins[c].model)]
      BY DEF EffortFits, IdOf
    <2>2. modelsLoaded
      BY <1>2, <2>1, PinRecords DEF PinsStand
    <2>3. FitPin(pins[c])
      BY <1>2, <2>1, <2>2 DEF ChatStands, PinsNow
    <2>4. QED
      BY <2>1, <2>3 DEF FitPin
  <1>9. QED
    BY <1>4, <1>5, <1>6, <1>7, <1>8 DEF PinsHold

\* What a person pins is what the turns run on (PinInv).
THEOREM PinsAreHeld == PinSpec => []PinsHold
  <1>1. PinInit => PinInv
    BY PinInvStarts
  <1>2. PinInv /\ [PinNext]_pinVars => PinInv'
    BY PinInvKept
  <1>3. PinInv => PinsHold
    BY PinInvHolds
  <1>4. QED
    BY <1>1, <1>2, <1>3, PTL DEF PinSpec

-----------------------------------------------------------------------------
(* The components together: each behaviour is about one of them.            *)

\* The one at hand keeps its invariant.
AnswerParts ==
    /\ part = "pins" => PinInv
    /\ part = "approvals" => ApprovalsInv
    /\ part = "dialog" => DialogInv

LEMMA AnswerPartsKept == AnswerParts /\ [PartsNext]_PartsVars => AnswerParts'
  <1>1. SUFFICES ASSUME AnswerParts, [PartsNext]_PartsVars PROVE AnswerParts'
    OBVIOUS
  <1>2. part' = part
    BY <1>1 DEF PartsNext, PartsVars, Alone
  <1>3. part = "pins" => [PinNext]_pinVars
    BY <1>1 DEF PartsNext, PartsVars
  <1>4. part = "approvals" => [ApprovalsNext]_approvalVars
    BY <1>1 DEF PartsNext, PartsVars
  <1>5. part = "dialog" => [DialogNext]_dialogVars
    BY <1>1 DEF PartsNext, PartsVars
  <1>6. QED
    BY <1>1, <1>2, <1>3, <1>4, <1>5, PinInvKept, ApprovalsInvKept, DialogInvKept DEF AnswerParts

\* What a person answers, on a card or in a dialog, decides what was asked and nothing
\* else, and the model a person pins is the one the conversation runs on.
THEOREM PeoplesAnswersCount == PartsSpec => []AnswersCount
  <1>1. PartsInit => AnswerParts
    BY PinInvStarts, ApprovalsInvInitially, DialogInvStarts DEF PartsInit, AnswerParts
  <1>2. AnswerParts /\ [PartsNext]_PartsVars => AnswerParts'
    BY AnswerPartsKept
  <1>3. AnswerParts => AnswersCount
    BY PinInvHolds, ApprovalsInvDecides, DialogInvAnswers DEF AnswerParts, AnswersCount
  <1>4. QED
    BY <1>1, <1>2, <1>3, PTL DEF PartsSpec

\* The two that show a turn keep their invariants.
ShownParts ==
    /\ part = "marks" => MarksInv
    /\ part = "progress" => ProgressInv

LEMMA ShownPartsKept == ShownParts /\ [PartsNext]_PartsVars => ShownParts'
  <1>1. SUFFICES ASSUME ShownParts, [PartsNext]_PartsVars PROVE ShownParts'
    OBVIOUS
  <1>2. part' = part
    BY <1>1 DEF PartsNext, PartsVars, Alone
  <1>3. part = "marks" => [MarksNext]_marksVars
    BY <1>1 DEF PartsNext, PartsVars
  <1>4. part = "progress" => [ProgressNext]_progressVars
    BY <1>1 DEF PartsNext, PartsVars
  <1>5. QED
    BY <1>1, <1>2, <1>3, <1>4, MarksGoOn, ProgressGoesOn DEF ShownParts

\* What the person sees of a turn, its reactions and its messages, follows the turn.
THEOREM TurnsAreShown == PartsSpec => []TurnIsShown
  <1>1. PartsInit => ShownParts
    BY MarksStart, ProgressStarts DEF PartsInit, ShownParts
  <1>2. ShownParts /\ [PartsNext]_PartsVars => ShownParts'
    BY ShownPartsKept
  <1>3. ShownParts => TurnIsShown
    BY MarksShow, ProgressTells DEF ShownParts, TurnIsShown
  <1>4. QED
    BY <1>1, <1>2, <1>3, PTL DEF PartsSpec
=============================================================================
