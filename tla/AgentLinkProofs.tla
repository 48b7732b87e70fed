-------------------------- MODULE AgentLinkProofs --------------------------
(***************************************************************************)
(* AgentLink's safety for any capacity of the ring and of the streams, any *)
(* backoff and any number of items, links and restarts.                    *)
(*                                                                         *)
(* What the relay has published is a part of what was written, so the      *)
(* order is shown for all that was written (Order); it needs the item in   *)
(* hand and the one the ring gives out next to lie behind it, across       *)
(* overruns, which make the next one Mixed, and restarts, which begin the  *)
(* numbers anew in a later run.  That a link has no gap needs its last     *)
(* frame, the item in hand and the next one to follow each other (Trail),  *)
(* and what is lost between links is counted from the last link that       *)
(* carried something (Cost).                                               *)
(***************************************************************************)
EXTENDS AgentLink, TLAPS

\* A process off the link holds no frame, and a link to come carries nothing.
Links0 ==
    /\ phase = "up" => link \in Links
    /\ phase # "up" => frame = << >>
    /\ \A l \in Links : l > link => sent[l] = << >>

\* Everything written lies in order and before the item in hand, and both lie
\* before what the ring gives out next.
Order ==
    /\ \A l, m \in Links : \A i \in 1..Len(sent[l]), j \in 1..Len(sent[m]) :
         l < m \/ (l = m /\ i < j) => Before(sent[l][i], sent[m][j])
    /\ \A l \in Links : \A i \in 1..Len(sent[l]) :
         /\ frame # << >> => Before(sent[l][i], Head(frame))
         /\ Before(sent[l][i], NextItem)
    /\ frame # << >> => Before(Head(frame), NextItem)

\* The link's last frame, the item in hand and the ring's next follow each other.
Trail ==
    /\ NoGapOnLink
    /\ frame # << >> => Follows(Head(frame), NextItem)
    /\ phase = "up" /\ sent[link] # << >>
         => Follows(LastOf(link), IF frame = << >> THEN NextItem ELSE Head(frame))

\* The latest link that carried something, and what was lost since.
Cost ==
    /\ OneLostPerLink
    /\ \A l \in Links :
         l <= link /\ sent[l] # << >> /\ (\A k \in l + 1..link : sent[k] = << >>)
           => /\ frame # << >> /\ LastOf(l)[1] = run /\ Head(frame)[2] # Mixed
                   => Head(frame)[2] <= LastOf(l)[2] + 1 + (link - l)
              /\ LastOf(l)[1] = run /\ ~overrun
                   => taken <= LastOf(l)[2] + 1 + (link - l) + (IF phase = "up" THEN Len(frame) ELSE 1)

FrameRun == frame # << >> => Head(frame)[1] = run

Inv == TypeOK /\ Links0 /\ FrameRun /\ Order /\ Trail /\ Cost

(***************************************************************************)
(* Items and sequences                                                     *)
(***************************************************************************)

\* What an item is made of.
LEMMA ItemParts ==
    ASSUME NEW x \in Items
    PROVE  x[1] \in Nat /\ (x[2] = Mixed \/ x[2] \in Nat) /\ x = <<x[1], x[2]>>
BY LinkAssumption DEF Items, LinkAssumption

\* The item the ring gives out next, before and after a step.
LEMMA NextIs ==
    /\ NextItem = <<run, IF overrun THEN Mixed ELSE taken>>
    /\ NextItem' = <<run', IF overrun' THEN Mixed ELSE taken'>>
BY DEF NextItem

\* Elements of what was written.
LEMMA Written ==
    ASSUME TypeOK, NEW l \in Links, NEW i \in 1..Len(sent[l])
    PROVE  sent[l][i] \in Items
BY DEF TypeOK

\* The last frame of a link is one of its frames.
LEMMA LastWritten ==
    ASSUME TypeOK, NEW l \in Links, sent[l] # << >>
    PROVE  /\ Len(sent[l]) \in 1..Len(sent[l]) /\ 1 \in 1..Len(sent[l])
           /\ LastOf(l) \in Items /\ Head(sent[l]) \in Items
BY DEF TypeOK, LastOf

\* Appending.
LEMMA AppendParts ==
    ASSUME NEW S, NEW s \in Seq(S), NEW x \in S
    PROVE  /\ Append(s, x) \in Seq(S) /\ Len(Append(s, x)) = Len(s) + 1
           /\ Append(s, x)[Len(s) + 1] = x
           /\ \A i \in 1..Len(s) : Append(s, x)[i] = s[i]
           /\ Append(s, x) # << >>
           /\ Head(Append(s, x)) = IF s = << >> THEN x ELSE Head(s)
<1>1. /\ Append(s, x) \in Seq(S) /\ Len(Append(s, x)) = Len(s) + 1
      /\ Append(s, x)[Len(s) + 1] = x
      /\ \A i \in 1..Len(s) : Append(s, x)[i] = s[i]
  OBVIOUS
<1>2. Len(s) \in Nat /\ (s = << >> <=> Len(s) = 0)
  OBVIOUS
<1>3. Append(s, x) # << >>
  BY <1>1, <1>2
<1>4. CASE s = << >>
  <2>1. Len(s) + 1 = 1
    BY <1>4
  <2>2. Head(Append(s, x)) = Append(s, x)[1]
    BY <1>1, <1>3
  <2> QED BY <1>1, <1>3, <1>4, <2>1, <2>2
<1>5. CASE s # << >>
  <2>1. 1 \in 1..Len(s) /\ Head(s) = s[1]
    BY <1>2, <1>5
  <2>2. Head(Append(s, x)) = Append(s, x)[1]
    BY <1>1, <1>3
  <2> QED BY <1>1, <1>3, <1>5, <2>1, <2>2
<1> QED BY <1>4, <1>5

\* What lies before an item lies before the later ones.
LEMMA BeforeLater ==
    ASSUME NEW a \in Items, NEW r \in Nat, NEW n \in Nat
    PROVE  /\ Before(a, <<r, n>>) => Before(a, <<r, Mixed>>)
           /\ Before(a, <<r, n>>) => Before(a, <<r, n + 1>>)
           /\ Before(a, <<r, n>>) \/ Before(a, <<r, Mixed>>) => Before(a, <<r + 1, 0>>)
<1>1. a[1] \in Nat /\ (a[2] = Mixed \/ a[2] \in Nat)
  BY ItemParts
<1>2. Mixed \notin Int
  BY LinkAssumption DEF LinkAssumption
<1> QED BY <1>1, <1>2 DEF Before

\* What the next item may be.
LEMMA NextType ==
    ASSUME TypeOK
    PROVE  /\ run \in Nat /\ taken \in Nat /\ NextItem \in Items
           /\ \A a \in Items : a[1] = run /\ ~overrun /\ Before(a, NextItem) => a[2] \in Nat
<1>1. run \in 1..MaxRuns /\ taken \in 0..MaxPops
  BY DEF TypeOK
<1>2. run \in Nat /\ taken \in Nat /\ NextItem \in Items
  BY <1>1, LinkAssumption DEF LinkAssumption, NextItem, Items
<1>3. ASSUME NEW a \in Items, a[1] = run, ~overrun, Before(a, NextItem) PROVE a[2] \in Nat
  <2>1. NextItem = <<run, taken>>
    BY <1>3 DEF NextItem
  <2>2. Before(a, <<run, taken>>)
    BY <1>3, <2>1
  <2>3. taken # Mixed /\ ~(a[1] < run)
    BY <1>2, <1>3, LinkAssumption DEF LinkAssumption
  <2>4. a[2] # Mixed
    BY <2>2, <2>3 DEF Before
  <2> QED BY <2>4, ItemParts
<1> QED BY <1>2, <1>3

\* The item in hand.
LEMMA InHand ==
    ASSUME TypeOK, frame # << >>
    PROVE  Head(frame) \in Items
<1>1. frame \in Seq(Items)
  BY DEF TypeOK
<1> QED BY <1>1

(***************************************************************************)
(* The steps                                                               *)
(***************************************************************************)

\* Most steps leave what the order is about alone.
Still == UNCHANGED <<run, taken, overrun, link, frame, sent>>

LEMMA StillSteps ==
    ASSUME ConnectFails \/ BackoffElapses \/ (\E l \in Links : Relay(l)) \/ UNCHANGED vars
    PROVE  /\ Still
           /\ phase' = phase \/ (phase # "up" /\ phase' # "up")
BY DEF ConnectFails, BackoffElapses, Relay, Serve, RelayReads, HandlerEnds, Still, vars, agentVars,
       linkVars

\* Every step keeps the types.
LEMMA TypeStep ==
    ASSUME TypeOK, Links0, [Next]_vars
    PROVE  TypeOK'
<1> USE DEF TypeOK
<1>0. << >> \in Seq(Items) /\ Len(<< >>) = 0
  OBVIOUS
<1>n. run \in Nat /\ taken \in Nat /\ NextItem \in Items
  BY NextType
<1>1. CASE Produce
  <2>1. seq' \in 0..MaxItems
    BY <1>1, LinkAssumption DEF Produce, LinkAssumption
  <2> QED BY <1>1, <2>1 DEF Produce, linkVars
<1>2. CASE ConnectOk
  <2>1. link' \in 0..MaxLinks /\ link + 1 \in Links
    BY <1>2, LinkAssumption DEF ConnectOk, Links, LinkAssumption
  <2>2. handler' \in [Links -> {"none", "waiting", "serving", "ended"}]
    BY <1>2 DEF ConnectOk
  <2> QED BY <1>2, <2>1, <2>2 DEF ConnectOk
<1>3. CASE ConnectFails
  BY <1>3 DEF ConnectFails, linkVars
<1>4. CASE Pop
  <2>1. frame' = <<NextItem>>
    BY <1>4 DEF Pop
  <2>2. frame' \in Seq(Items) /\ Len(frame') <= 1
    BY <1>n, <2>1
  <2>3. taken' \in 0..MaxPops
    BY <1>4, LinkAssumption DEF Pop, LinkAssumption
  <2> QED BY <1>4, <2>2, <2>3 DEF Pop
<1>5. CASE WriteFrame
  <2> DEFINE h == Head(frame)
  <2>1. h \in Items /\ link \in Links
    BY <1>5, InHand DEF WriteFrame, Links0
  <2>2. sent' = [sent EXCEPT ![link] = Append(sent[link], h)] /\ frame' = << >> /\ read' = read
    BY <1>5 DEF WriteFrame
  <2>3. sent[link] \in Seq(Items)
    BY <2>1
  <2> HIDE DEF h
  <2>4. Append(sent[link], h) \in Seq(Items) /\ Len(Append(sent[link], h)) = Len(sent[link]) + 1
    BY <2>1, <2>3, AppendParts
  <2>5. sent' \in [Links -> Seq(Items)]
    BY <2>1, <2>2, <2>4
  <2>6. \A l \in Links : read'[l] <= Len(sent'[l])
    <3> TAKE l \in Links
    <3>1. sent'[l] = IF l = link THEN Append(sent[link], h) ELSE sent[l]
      BY <2>1, <2>2
    <3>2. read[l] \in Nat /\ Len(sent[l]) \in Nat /\ read[l] <= Len(sent[l])
      OBVIOUS
    <3> QED BY <2>2, <2>4, <3>1, <3>2
  <2>7. read' \in [Links -> Nat] /\ frame' \in Seq(Items) /\ Len(frame') <= 1
    BY <1>0, <2>2
  <2> QED BY <1>5, <2>5, <2>6, <2>7 DEF WriteFrame, agentVars
<1>6. CASE ConnectionLost
  <2>1. frame' \in Seq(Items) /\ Len(frame') <= 1
    BY <1>0, <1>6 DEF ConnectionLost
  <2> QED BY <1>6, <2>1 DEF ConnectionLost
<1>7. CASE BackoffElapses
  <2>1. backoff' \in InitialBackoff..MaxBackoff
    BY <1>7, LinkAssumption DEF BackoffElapses, LinkAssumption
  <2> QED BY <1>7, <2>1 DEF BackoffElapses, linkVars
<1>8. CASE Restart
  <2>1. run' \in 1..MaxRuns /\ seq' \in 0..MaxItems /\ taken' \in 0..MaxPops
        /\ backoff' \in InitialBackoff..MaxBackoff
    BY <1>8, LinkAssumption DEF Restart, LinkAssumption
  <2>2. frame' \in Seq(Items) /\ Len(frame') <= 1
    BY <1>0, <1>8 DEF Restart
  <2> QED BY <1>8, <2>1, <2>2 DEF Restart
<1>9. ASSUME NEW l \in Links, Relay(l) PROVE TypeOK'
  <2>1. CASE Serve(l) \/ HandlerEnds(l)
    BY <2>1 DEF Serve, HandlerEnds, agentVars
  <2>2. CASE RelayReads(l)
    <3>1. read' = [read EXCEPT ![l] = read[l] + 1] /\ read[l] < Len(sent[l]) /\ sent' = sent
      BY <2>2 DEF RelayReads
    <3>2. read' \in [Links -> Nat]
      BY <3>1
    <3>3. \A m \in Links : read'[m] <= Len(sent'[m])
      <4> TAKE m \in Links
      <4>1. read'[m] = IF m = l THEN read[l] + 1 ELSE read[m]
        BY <3>1
      <4>2. read[m] \in Nat /\ Len(sent[m]) \in Nat /\ read[m] <= Len(sent[m])
        OBVIOUS
      <4> QED BY <3>1, <4>1, <4>2
    <3> QED BY <2>2, <3>2, <3>3 DEF RelayReads, agentVars
  <2> QED BY <1>9, <2>1, <2>2 DEF Relay
<1>10. CASE UNCHANGED vars
  BY <1>10 DEF vars, agentVars, linkVars
<1> QED
  BY <1>1, <1>2, <1>3, <1>4, <1>5, <1>6, <1>7, <1>8, <1>9, <1>10 DEF Next, Transport

\* The item in hand is of this run and of a link that is up.
LEMMA LinksStep ==
    ASSUME TypeOK, Links0, FrameRun, [Next]_vars
    PROVE  Links0' /\ FrameRun'
<1> USE DEF TypeOK, Links0, FrameRun
<1>1. CASE Produce
  BY <1>1 DEF Produce, linkVars
<1>2. CASE ConnectOk
  BY <1>2, LinkAssumption DEF ConnectOk, Links, LinkAssumption
<1>3. CASE Pop
  <2>1. frame' = <<NextItem>> /\ phase = "up" /\ UNCHANGED <<run, phase, link, sent>>
    BY <1>3 DEF Pop
  <2>2. Head(frame') = NextItem /\ NextItem[1] = run
    BY <2>1 DEF NextItem
  <2> QED BY <2>1, <2>2
<1>4. CASE WriteFrame
  <2>1. link \in Links /\ phase' = phase /\ link' = link /\ frame' = << >>
    BY <1>4 DEF WriteFrame, agentVars
  <2>2. \A l \in Links : l # link => sent'[l] = sent[l]
    BY <1>4 DEF WriteFrame
  <2>3. \A l \in Links : l > link => l # link
    BY <2>1 DEF Links
  <2> QED BY <1>4, <2>1, <2>2, <2>3 DEF WriteFrame, agentVars
<1>5. CASE ConnectionLost
  BY <1>5 DEF ConnectionLost
<1>6. CASE Restart
  BY <1>6 DEF Restart
<1>7. CASE ConnectFails \/ BackoffElapses \/ (\E l \in Links : Relay(l)) \/ UNCHANGED vars
  BY <1>7, StillSteps DEF Still
<1> QED BY <1>1, <1>2, <1>3, <1>4, <1>5, <1>6, <1>7 DEF Next, Transport

\* The order of everything written.
LEMMA OrderStep ==
    ASSUME TypeOK, TypeOK', Links0, Order, [Next]_vars
    PROVE  Order'
<1> DEFINE AllBefore == \A l, m \in Links : \A i \in 1..Len(sent[l]), j \in 1..Len(sent[m]) :
                          l < m \/ (l = m /\ i < j) => Before(sent[l][i], sent[m][j])
<1>n. run \in Nat /\ taken \in Nat /\ NextItem \in Items
  BY NextType
<1>a. AllBefore
  BY DEF Order
<1>b. \A l \in Links : \A i \in 1..Len(sent[l]) : Before(sent[l][i], NextItem)
  BY DEF Order
<1>c. \A l \in Links : \A i \in 1..Len(sent[l]) : sent[l][i] \in Items
  BY Written
<1>h. frame # << >> => /\ Head(frame) \in Items /\ Before(Head(frame), NextItem)
                       /\ \A l \in Links : \A i \in 1..Len(sent[l]) : Before(sent[l][i], Head(frame))
  BY InHand DEF Order
<1> HIDE DEF AllBefore
<1>1. ASSUME UNCHANGED <<sent, frame>>, \A a \in Items : Before(a, NextItem) => Before(a, NextItem')
      PROVE  Order'
  <2>1. AllBefore'
    BY <1>1, <1>a DEF AllBefore
  <2>2. \A l \in Links : \A i \in 1..Len(sent[l]) : Before(sent[l][i], NextItem')
    BY <1>1, <1>b, <1>c
  <2>3. frame # << >> => Before(Head(frame), NextItem')
    BY <1>1, <1>h
  <2>4. \A l \in Links : \A i \in 1..Len(sent'[l]) :
          /\ frame' # << >> => Before(sent'[l][i], Head(frame'))
          /\ Before(sent'[l][i], NextItem')
    BY <1>1, <1>h, <2>2
  <2>5. frame' # << >> => Before(Head(frame'), NextItem')
    BY <1>1, <2>3
  <2> QED BY <2>1, <2>4, <2>5 DEF Order, AllBefore
<1>2. ASSUME sent' = sent, frame' = << >>,
             \A a \in Items : Before(a, NextItem) => Before(a, NextItem')
      PROVE  Order'
  <2>1. AllBefore'
    BY <1>2, <1>a DEF AllBefore
  <2>2. \A l \in Links : \A i \in 1..Len(sent'[l]) : Before(sent'[l][i], NextItem')
    BY <1>2, <1>b, <1>c
  <2> QED BY <1>2, <2>1, <2>2 DEF Order, AllBefore
<1>3. CASE Produce
  <2>1. UNCHANGED <<sent, frame, run, taken>> /\ (overrun => overrun')
    BY <1>3 DEF Produce, linkVars
  <2>2. NextItem' = NextItem \/ (NextItem = <<run, taken>> /\ NextItem' = <<run, Mixed>>)
    BY <2>1, NextIs
  <2>3. \A a \in Items : Before(a, NextItem) => Before(a, NextItem')
    BY <1>n, <2>2, BeforeLater
  <2> QED BY <1>1, <2>1, <2>3
<1>4. CASE ConnectOk
  <2>1. UNCHANGED <<sent, frame, run, taken, overrun>>
    BY <1>4 DEF ConnectOk
  <2>2. NextItem' = NextItem
    BY <2>1, NextIs
  <2> QED BY <1>1, <2>1, <2>2
<1>5. CASE Pop
  <2>1. frame' = <<NextItem>> /\ taken' = taken + 1 /\ UNCHANGED <<sent, run, overrun>>
    BY <1>5 DEF Pop
  <2>2. \/ NextItem = <<run, Mixed>> /\ NextItem' = <<run, Mixed>>
        \/ NextItem = <<run, taken>> /\ NextItem' = <<run, taken + 1>>
    BY <2>1, NextIs
  <2>3. \A a \in Items : Before(a, NextItem) => Before(a, NextItem')
    BY <1>n, <2>2, BeforeLater
  <2>4. Before(NextItem, NextItem')
    <3>1. taken # Mixed /\ taken < taken + 1
      BY <1>n, LinkAssumption DEF LinkAssumption
    <3> QED BY <2>2, <3>1 DEF Before
  <2>5. AllBefore'
    BY <2>1, <1>a DEF AllBefore
  <2>6. \A l \in Links : \A i \in 1..Len(sent'[l]) :
          Before(sent'[l][i], NextItem) /\ Before(sent'[l][i], NextItem')
    BY <1>b, <1>c, <2>1, <2>3
  <2>7. Head(frame') = NextItem
    BY <2>1
  <2> QED BY <2>4, <2>5, <2>6, <2>7 DEF Order, AllBefore
<1>6. CASE WriteFrame
  <2> PICK h : h = Head(frame)
    OBVIOUS
  <2>1. /\ frame # << >> /\ frame' = << >> /\ link \in Links
        /\ sent' = [sent EXCEPT ![link] = Append(sent[link], h)]
        /\ UNCHANGED <<run, taken, overrun>>
    BY <1>6 DEF WriteFrame, agentVars, Links0
  <2>2. NextItem' = NextItem
    BY <2>1, NextIs
  <2>3. h \in Items /\ sent[link] \in Seq(Items)
    BY <1>h, <2>1 DEF TypeOK
  <2>4. \A l \in Links : l # link => sent'[l] = sent[l]
    BY <2>1 DEF TypeOK
  <2>5. sent'[link] = Append(sent[link], h)
    BY <2>1 DEF TypeOK
  <2>6. /\ Len(sent'[link]) = Len(sent[link]) + 1 /\ sent'[link][Len(sent[link]) + 1] = h
        /\ \A i \in 1..Len(sent[link]) : sent'[link][i] = sent[link][i]
    BY <2>3, <2>5, AppendParts
  <2>l. \A l \in Links : Len(sent[l]) \in Nat
    BY DEF TypeOK
  <2>7. ASSUME NEW l \in Links, NEW i \in 1..Len(sent'[l])
        PROVE  \/ i \in 1..Len(sent[l]) /\ sent'[l][i] = sent[l][i]
               \/ l = link /\ i = Len(sent[l]) + 1 /\ sent'[l][i] = h
    <3>1. CASE l # link
      BY <2>4, <3>1
    <3>2. CASE l = link
      BY <2>6, <2>l, <3>2
    <3> QED BY <3>1, <3>2
  <2>8. ASSUME NEW l \in Links, NEW m \in Links,
               NEW i \in 1..Len(sent'[l]), NEW j \in 1..Len(sent'[m]),
               l < m \/ (l = m /\ i < j)
        PROVE  Before(sent'[l][i], sent'[m][j])
    <3>1. CASE i \in 1..Len(sent[l]) /\ sent'[l][i] = sent[l][i]
      <4>1. CASE j \in 1..Len(sent[m]) /\ sent'[m][j] = sent[m][j]
        BY <1>a, <2>8, <3>1, <4>1 DEF AllBefore
      <4>2. CASE sent'[m][j] = h
        BY <1>h, <2>1, <3>1, <4>2
      <4> QED BY <2>7, <4>1, <4>2
    <3>2. CASE l = link /\ i = Len(sent[l]) + 1
      <4>1. CASE l < m
        <5>1. sent[m] = << >> /\ m # link
          BY <3>2, <4>1 DEF Links0, Links
        <5>2. sent'[m] = << >>
          BY <2>4, <5>1
        <5> QED BY <5>2
      <4>2. CASE l = m /\ i < j
        BY <2>6, <2>l, <3>2, <4>2
      <4> QED BY <2>8, <4>1, <4>2
    <3> QED BY <2>7, <3>1, <3>2
  <2>9. AllBefore'
    BY <2>8 DEF AllBefore
  <2>10. \A l \in Links : \A i \in 1..Len(sent'[l]) : Before(sent'[l][i], NextItem')
    BY <1>b, <1>h, <2>1, <2>2, <2>7
  <2> QED BY <2>1, <2>9, <2>10 DEF Order, AllBefore
<1>7. CASE ConnectionLost
  <2>1. frame' = << >> /\ UNCHANGED <<sent, run, taken, overrun>>
    BY <1>7 DEF ConnectionLost
  <2>2. NextItem' = NextItem
    BY <2>1, NextIs
  <2> QED BY <1>2, <2>1, <2>2
<1>8. CASE Restart
  <2>1. frame' = << >> /\ sent' = sent /\ NextItem' = <<run + 1, 0>>
    BY <1>8, NextIs DEF Restart
  <2>2. NextItem = <<run, taken>> \/ NextItem = <<run, Mixed>>
    BY NextIs
  <2>3. \A a \in Items : Before(a, NextItem) => Before(a, NextItem')
    BY <1>n, <2>1, <2>2, BeforeLater
  <2> QED BY <1>2, <2>1, <2>3
<1>9. CASE ConnectFails \/ BackoffElapses \/ (\E l \in Links : Relay(l)) \/ UNCHANGED vars
  <2>1. UNCHANGED <<sent, frame, run, taken, overrun>>
    BY <1>9, StillSteps DEF Still
  <2>2. NextItem' = NextItem
    BY <2>1, NextIs
  <2> QED BY <1>1, <2>1, <2>2
<1> QED BY <1>3, <1>4, <1>5, <1>6, <1>7, <1>8, <1>9 DEF Next, Transport

\* A link carries an unbroken run of items, up to the one to come.
LEMMA TrailStep ==
    ASSUME TypeOK, TypeOK', Links0, FrameRun, Order, Trail, [Next]_vars
    PROVE  Trail'
<1>n. run \in Nat /\ taken \in Nat /\ Mixed \notin Int
  BY NextType, LinkAssumption DEF LinkAssumption
<1>t. /\ NoGapOnLink
      /\ frame # << >> => Follows(Head(frame), NextItem)
      /\ phase = "up" /\ sent[link] # << >>
           => Follows(LastOf(link), IF frame = << >> THEN NextItem ELSE Head(frame))
  BY DEF Trail
<1>1. ASSUME sent' = sent PROVE NoGapOnLink'
  BY <1>t, <1>1 DEF NoGapOnLink
<1>2. ASSUME sent' = sent, frame' = << >>, phase' # "up" PROVE Trail'
  BY <1>1, <1>2 DEF Trail
<1>3. CASE Produce
  <2>1. UNCHANGED <<sent, frame, link, phase, run, taken>> /\ (overrun => overrun')
    BY <1>3 DEF Produce, linkVars
  <2>2. NextItem' = NextItem \/ (NextItem = <<run, taken>> /\ NextItem' = <<run, Mixed>>)
    BY <2>1, NextIs
  <2>3. \A a : Follows(a, NextItem) => Follows(a, NextItem')
    BY <2>2 DEF Follows
  <2>4. frame' # << >> => Follows(Head(frame'), NextItem')
    BY <1>t, <2>1, <2>3
  <2>5. ASSUME phase' = "up", sent'[link'] # << >>
        PROVE  Follows(LastOf(link), IF frame = << >> THEN NextItem' ELSE Head(frame))
    BY <1>t, <2>1, <2>3, <2>5
  <2>6. LastOf(link)' = LastOf(link)
    BY <2>1 DEF LastOf
  <2> QED BY <1>1, <2>1, <2>4, <2>5, <2>6 DEF Trail
<1>4. CASE ConnectOk
  <2>1. sent' = sent /\ frame' = frame /\ frame = << >> /\ link' = link + 1 /\ link' \in Links
    BY <1>4, LinkAssumption DEF ConnectOk, Links0, TypeOK, Links, LinkAssumption
  <2>2. sent[link'] = << >>
    BY <2>1 DEF Links0, TypeOK
  <2> QED BY <1>1, <2>1, <2>2 DEF Trail
<1>5. CASE Pop
  <2>1. /\ frame = << >> /\ frame' = <<NextItem>> /\ taken' = taken + 1
        /\ UNCHANGED <<sent, link, phase, run, overrun>>
    BY <1>5 DEF Pop
  <2>2. \/ NextItem = <<run, Mixed>> /\ NextItem' = <<run, Mixed>>
        \/ NextItem = <<run, taken>> /\ NextItem' = <<run, taken + 1>>
    BY <2>1, NextIs
  <2>3. Follows(NextItem, NextItem')
    BY <1>n, <2>2 DEF Follows
  <2>4. Head(frame') = NextItem /\ frame' # << >>
    BY <2>1
  <2>5. phase' = "up" /\ sent'[link'] # << >> => Follows(LastOf(link)', NextItem)
    BY <1>t, <2>1 DEF LastOf
  <2> QED BY <1>1, <2>1, <2>3, <2>4, <2>5 DEF Trail
<1>6. CASE WriteFrame
  <2> PICK h : h = Head(frame)
    OBVIOUS
  <2>1. /\ frame # << >> /\ frame' = << >> /\ link \in Links /\ phase = "up"
        /\ sent' = [sent EXCEPT ![link] = Append(sent[link], h)]
        /\ UNCHANGED <<run, taken, overrun, phase, link>>
    BY <1>6 DEF WriteFrame, agentVars, Links0
  <2>2. NextItem' = NextItem
    BY <2>1, NextIs
  <2>3. h \in Items /\ sent[link] \in Seq(Items)
    BY <2>1, InHand DEF TypeOK
  <2>4. \A l \in Links : l # link => sent'[l] = sent[l]
    BY <2>1 DEF TypeOK
  <2>5. sent'[link] = Append(sent[link], h)
    BY <2>1 DEF TypeOK
  <2>6. /\ Len(sent'[link]) = Len(sent[link]) + 1 /\ sent'[link][Len(sent[link]) + 1] = h
        /\ \A i \in 1..Len(sent[link]) : sent'[link][i] = sent[link][i]
    BY <2>3, <2>5, AppendParts
  <2>l. Len(sent[link]) \in Nat /\ (sent[link] # << >> => Len(sent[link]) > 0)
    BY <2>3
  <2>7. LastOf(link)' = h
    BY <2>1, <2>6 DEF LastOf
  <2>8. ASSUME NEW l \in Links, NEW i \in 1..Len(sent'[l]) - 1
        PROVE  Follows(sent'[l][i], sent'[l][i + 1])
    <3>1. CASE l # link
      BY <1>t, <2>4, <3>1 DEF NoGapOnLink
    <3>2. CASE l = link /\ i = Len(sent[link])
      <4>1. sent[link] # << >> /\ sent'[l][i] = LastOf(link)
        BY <2>6, <2>l, <2>8, <3>2 DEF LastOf
      <4>2. Follows(LastOf(link), h)
        BY <1>t, <2>1, <4>1
      <4> QED BY <2>6, <3>2, <4>1, <4>2
    <3>3. CASE l = link /\ i # Len(sent[link])
      <4>1. i \in 1..Len(sent[link]) - 1 /\ i \in 1..Len(sent[link]) /\ i + 1 \in 1..Len(sent[link])
        BY <2>6, <2>l, <2>8, <3>3
      <4> QED BY <1>t, <2>1, <2>6, <3>3, <4>1 DEF NoGapOnLink
    <3> QED BY <3>1, <3>2, <3>3
  <2>9. NoGapOnLink'
    BY <2>8 DEF NoGapOnLink
  <2>10. Follows(LastOf(link)', NextItem')
    BY <1>t, <2>1, <2>2, <2>7
  <2> QED BY <2>1, <2>9, <2>10 DEF Trail
<1>7. CASE ConnectionLost
  BY <1>2, <1>7 DEF ConnectionLost
<1>8. CASE Restart
  BY <1>2, <1>8 DEF Restart
<1>9. CASE ConnectFails \/ BackoffElapses \/ (\E l \in Links : Relay(l)) \/ UNCHANGED vars
  <2>1. UNCHANGED <<sent, frame, link, run, taken, overrun>> /\ (phase' = "up" => phase = "up")
    BY <1>9, StillSteps DEF Still
  <2>2. NextItem' = NextItem
    BY <2>1, NextIs
  <2>3. LastOf(link)' = LastOf(link)
    BY <2>1 DEF LastOf
  <2> QED BY <1>1, <1>t, <2>1, <2>2, <2>3 DEF Trail
<1> QED BY <1>3, <1>4, <1>5, <1>6, <1>7, <1>8, <1>9 DEF Next, Transport

\* Is l the last link that carried something?
Latest(l) == l <= link /\ sent[l] # << >> /\ \A k \in l + 1..link : sent[k] = << >>

\* What a run has popped since: the frames of lost links, and the one in hand.
Pending == IF phase = "up" THEN Len(frame) ELSE 1

\* One item is lost with each link.
LEMMA CostStep ==
    ASSUME TypeOK, TypeOK', Links0, Links0', FrameRun, Order, Trail, Cost, [Next]_vars
    PROVE  Cost'
<1> DEFINE HandNear(l) == frame # << >> /\ LastOf(l)[1] = run /\ Head(frame)[2] # Mixed
                            => Head(frame)[2] <= LastOf(l)[2] + 1 + (link - l)
           PopNear(l) == LastOf(l)[1] = run /\ ~overrun
                            => taken <= LastOf(l)[2] + 1 + (link - l) + Pending
<1>n. run \in Nat /\ taken \in Nat /\ Mixed \notin Int
  BY NextType, LinkAssumption DEF LinkAssumption
<1>a. OneLostPerLink
  BY DEF Cost
<1>b. \A l \in Links : Latest(l) => HandNear(l) /\ PopNear(l)
  BY DEF Cost, Latest, Pending
<1>s. ASSUME OneLostPerLink', \A l \in Links : Latest(l)' => HandNear(l)' /\ PopNear(l)'
      PROVE  Cost'
  BY <1>s DEF Cost, Latest, Pending
<1>L. link \in 0..MaxLinks /\ \A l \in Links : l \in Nat /\ link - l \in Int
  BY LinkAssumption DEF TypeOK, Links, LinkAssumption
<1>m. ASSUME NEW l \in Links, Latest(l), LastOf(l)[1] = run, ~overrun
      PROVE  LastOf(l)[2] \in Nat
  <2>1. sent[l] # << >>
    BY <1>m DEF Latest
  <2>2. LastOf(l) \in Items /\ Before(LastOf(l), NextItem)
    BY <2>1, LastWritten DEF Order, LastOf
  <2> QED BY <1>m, <2>2, NextType
<1>p. Pending \in Nat /\ (frame = << >> /\ phase = "up" => Pending = 0) /\ (phase # "up" => Pending = 1)
  BY DEF Pending, TypeOK
<1>1. ASSUME sent' = sent PROVE OneLostPerLink' /\ \A l \in Links : LastOf(l)' = LastOf(l)
  BY <1>a, <1>1 DEF OneLostPerLink, LastOf
<1>2. CASE Produce
  <2>1. UNCHANGED <<sent, frame, link, phase, run, taken>> /\ (overrun => overrun')
    BY <1>2 DEF Produce, linkVars
  <2>2. \A l \in Links : (Latest(l)' => Latest(l)) /\ LastOf(l)' = LastOf(l)
    BY <1>1, <2>1 DEF Latest
  <2>3. Pending' = Pending
    BY <2>1 DEF Pending
  <2>4. \A l \in Links : Latest(l)' => HandNear(l)' /\ PopNear(l)'
    BY <1>b, <2>1, <2>2, <2>3
  <2> HIDE DEF HandNear, PopNear
  <2> QED BY <1>1, <1>s, <2>1, <2>4
<1>3. CASE ConnectOk
  <2>1. /\ UNCHANGED <<sent, frame, run, taken, overrun>>
        /\ frame = << >> /\ link' = link + 1 /\ phase # "up" /\ phase' = "up"
    BY <1>3 DEF ConnectOk, Links0
  <2>2. Pending = 1 /\ Pending' = 0
    BY <2>1 DEF Pending
  <2>3. ASSUME NEW l \in Links, Latest(l)' PROVE Latest(l) /\ LastOf(l)' = LastOf(l)
    <3>1. l <= link + 1 /\ sent[l] # << >> /\ \A k \in l + 1..link + 1 : sent[k] = << >>
      BY <2>1, <2>3 DEF Latest
    <3>2. ~(l > link)
      BY <3>1 DEF Links0
    <3>3. l <= link /\ \A k \in l + 1..link : k \in l + 1..link + 1
      BY <1>L, <3>2
    <3> QED BY <1>1, <2>1, <3>1, <3>3 DEF Latest
  <2>4. ASSUME NEW l \in Links, Latest(l)', LastOf(l)[1] = run, ~overrun
        PROVE  taken <= LastOf(l)[2] + 1 + (link' - l) + Pending'
    <3>1. taken <= LastOf(l)[2] + 1 + (link - l) + Pending
      BY <1>b, <2>3, <2>4
    <3>2. LastOf(l)[2] \in Nat
      BY <1>m, <2>3, <2>4
    <3> QED BY <1>L, <1>n, <2>1, <2>2, <3>1, <3>2
  <2>5. \A l \in Links : Latest(l)' => HandNear(l)' /\ PopNear(l)'
    BY <2>1, <2>3, <2>4
  <2> HIDE DEF HandNear, PopNear
  <2> QED BY <1>1, <1>s, <2>1, <2>5
<1>4. CASE Pop
  <2>1. /\ frame = << >> /\ frame' = <<NextItem>> /\ taken' = taken + 1 /\ phase = "up"
        /\ UNCHANGED <<sent, link, phase, run, overrun>>
    BY <1>4 DEF Pop
  <2>2. Pending = 0 /\ Pending' = 1
    BY <2>1 DEF Pending
  <2>3. ASSUME NEW l \in Links, Latest(l)' PROVE Latest(l) /\ LastOf(l)' = LastOf(l)
    BY <1>1, <2>1, <2>3 DEF Latest
  <2>4. ASSUME NEW l \in Links, Latest(l)', LastOf(l)[1] = run, ~overrun
        PROVE  /\ taken <= LastOf(l)[2] + 1 + (link - l)
               /\ taken' <= LastOf(l)[2] + 1 + (link - l) + Pending'
    <3>1. taken <= LastOf(l)[2] + 1 + (link - l) + Pending
      BY <1>b, <2>3, <2>4
    <3>2. LastOf(l)[2] \in Nat
      BY <1>m, <2>3, <2>4
    <3> QED BY <1>L, <1>n, <2>1, <2>2, <3>1, <3>2
  <2>5. /\ Head(frame') = NextItem
        /\ NextItem = <<run, taken>> \/ (NextItem[2] = Mixed /\ overrun)
        /\ NextItem[2] # Mixed => ~overrun /\ NextItem[2] = taken
    BY <2>1, NextIs
  <2>6. ASSUME NEW l \in Links, Latest(l)', LastOf(l)[1] = run, Head(frame')[2] # Mixed
        PROVE  Head(frame')[2] <= LastOf(l)[2] + 1 + (link - l)
    BY <2>4, <2>5, <2>6
  <2>7. \A l \in Links : Latest(l)' => HandNear(l)' /\ PopNear(l)'
    BY <2>1, <2>3, <2>4, <2>6
  <2> HIDE DEF HandNear, PopNear
  <2> QED BY <1>1, <1>s, <2>1, <2>7
<1>5. CASE WriteFrame
  <2> PICK h : h = Head(frame)
    OBVIOUS
  <2>1. /\ frame # << >> /\ frame' = << >> /\ link \in Links /\ phase = "up"
        /\ sent' = [sent EXCEPT ![link] = Append(sent[link], h)]
        /\ UNCHANGED <<run, taken, overrun, phase, link>>
    BY <1>5 DEF WriteFrame, agentVars, Links0
  <2>2. h \in Items /\ sent[link] \in Seq(Items)
    BY <2>1, InHand DEF TypeOK
  <2>3. \A l \in Links : l # link => sent'[l] = sent[l] /\ LastOf(l)' = LastOf(l)
    BY <2>1 DEF TypeOK, LastOf
  <2>4. sent'[link] = Append(sent[link], h)
    BY <2>1 DEF TypeOK
  <2>5. /\ sent'[link] # << >> /\ LastOf(link)' = h
        /\ Head(sent'[link]) = IF sent[link] = << >> THEN h ELSE Head(sent[link])
    BY <2>1, <2>2, <2>4, AppendParts DEF LastOf
  <2>6. ASSUME NEW l \in Links, NEW m \in Links, l < m, sent'[l] # << >>, sent'[m] # << >>,
               \A k \in l + 1..m - 1 : sent'[k] = << >>,
               LastOf(l)'[1] = Head(sent'[m])[1], Head(sent'[m])[2] # Mixed
        PROVE  Head(sent'[m])[2] <= LastOf(l)'[2] + 1 + (m - l)
    <3>1. l # link /\ sent'[l] = sent[l] /\ LastOf(l)' = LastOf(l)
      <4>1. ASSUME l = link PROVE FALSE
        <5>1. m > link /\ m # link
          BY <1>L, <2>6, <4>1
        <5> QED BY <2>3, <2>6, <5>1 DEF Links0
      <4> QED BY <2>3, <4>1
    <3>2. \A k \in l + 1..m - 1 : sent[k] = << >>
      <4> TAKE k \in l + 1..m - 1
      <4>1. k \in Links
        BY <1>L, LinkAssumption DEF Links, LinkAssumption
      <4>2. k # link
        BY <2>5, <2>6
      <4> QED BY <2>3, <2>6, <4>1, <4>2
    <3>3. CASE m # link \/ sent[link] # << >>
      <4>1. sent[m] # << >> /\ Head(sent'[m]) = Head(sent[m])
        BY <2>3, <2>5, <2>6, <3>3
      <4> QED BY <1>a, <2>6, <3>1, <3>2, <4>1 DEF OneLostPerLink
    <3>4. CASE m = link /\ sent[link] = << >>
      <4>1. Latest(l)
        <5>1. \A k \in l + 1..link : k \in l + 1..m - 1 \/ k = link
          BY <1>L, <3>4
        <5>2. l <= link
          BY <1>L, <2>6, <3>4
        <5> QED BY <2>6, <3>1, <3>2, <3>4, <5>1, <5>2 DEF Latest
      <4>2. Head(sent'[m]) = h /\ h[1] = run
        BY <2>1, <2>5, <3>4 DEF FrameRun
      <4> QED BY <1>b, <2>1, <2>6, <3>1, <3>4, <4>1, <4>2
    <3> QED BY <3>3, <3>4
  <2>7. OneLostPerLink'
    BY <2>6 DEF OneLostPerLink
  <2>8. ASSUME NEW l \in Links, Latest(l)' PROVE l = link
    <3>1. l <= link /\ \A k \in l + 1..link : sent'[k] = << >>
      BY <2>1, <2>8 DEF Latest
    <3>2. link \notin l + 1..link
      BY <2>5, <3>1
    <3> QED BY <1>L, <2>1, <3>1, <3>2
  <2>9. Pending' = 0
    BY <2>1 DEF Pending
  <2>10. ASSUME h[1] = run, ~overrun PROVE taken <= h[2] + 1 + (link - link) + Pending'
    <3>1. Follows(h, NextItem) /\ NextItem = <<run, taken>>
      BY <2>1, <2>10, NextIs DEF Trail
    <3>2. taken = h[2] + 1 /\ h[2] # Mixed
      BY <1>n, <3>1 DEF Follows
    <3>3. h[2] \in Nat
      BY <2>2, <3>2, ItemParts
    <3> QED BY <1>n, <1>L, <2>9, <3>2, <3>3
  <2>11. HandNear(link)' /\ PopNear(link)'
    BY <2>1, <2>5, <2>10
  <2> HIDE DEF HandNear, PopNear
  <2>12. \A l \in Links : Latest(l)' => HandNear(l)' /\ PopNear(l)'
    BY <2>1, <2>8, <2>11
  <2> QED BY <1>s, <2>7, <2>12
<1>6. CASE ConnectionLost
  <2>1. /\ frame' = << >> /\ phase = "up" /\ phase' = "backoff"
        /\ UNCHANGED <<sent, link, run, taken, overrun>>
    BY <1>6 DEF ConnectionLost
  <2>2. Pending <= 1 /\ Pending' = 1
    BY <2>1 DEF Pending, TypeOK
  <2>3. ASSUME NEW l \in Links, Latest(l)' PROVE Latest(l) /\ LastOf(l)' = LastOf(l)
    BY <1>1, <2>1, <2>3 DEF Latest
  <2>4. ASSUME NEW l \in Links, Latest(l)', LastOf(l)[1] = run, ~overrun
        PROVE  taken <= LastOf(l)[2] + 1 + (link - l) + Pending'
    <3>1. taken <= LastOf(l)[2] + 1 + (link - l) + Pending
      BY <1>b, <2>3, <2>4
    <3>2. LastOf(l)[2] \in Nat
      BY <1>m, <2>3, <2>4
    <3> QED BY <1>L, <1>n, <1>p, <2>2, <3>1, <3>2
  <2>5. \A l \in Links : Latest(l)' => HandNear(l)' /\ PopNear(l)'
    BY <2>1, <2>3, <2>4
  <2> HIDE DEF HandNear, PopNear
  <2> QED BY <1>1, <1>s, <2>1, <2>5
<1>7. CASE Restart
  <2>1. frame' = << >> /\ sent' = sent /\ link' = link /\ run' = run + 1
    BY <1>7 DEF Restart
  <2>2. ASSUME NEW l \in Links, Latest(l)' PROVE LastOf(l)'[1] # run'
    <3>1. sent[l] # << >> /\ LastOf(l)' = LastOf(l)
      BY <1>1, <2>1, <2>2 DEF Latest
    <3>2. LastOf(l) \in Items /\ Before(LastOf(l), NextItem) /\ NextItem[1] = run
      BY <3>1, LastWritten DEF Order, LastOf, NextItem
    <3>3. LastOf(l)[1] \in Nat /\ LastOf(l)[1] <= run
      BY <1>n, <3>2, ItemParts DEF Before
    <3> QED BY <1>n, <2>1, <3>1, <3>3
  <2>3. \A l \in Links : Latest(l)' => HandNear(l)' /\ PopNear(l)'
    BY <2>1, <2>2
  <2> HIDE DEF HandNear, PopNear
  <2> QED BY <1>1, <1>s, <2>1, <2>3
<1>8. CASE ConnectFails \/ BackoffElapses \/ (\E l \in Links : Relay(l)) \/ UNCHANGED vars
  <2>1. UNCHANGED <<sent, frame, link, run, taken, overrun>>
    BY <1>8, StillSteps DEF Still
  <2>2. Pending' = Pending
    BY <1>8, <2>1, StillSteps DEF Pending
  <2>3. \A l \in Links : (Latest(l)' => Latest(l)) /\ LastOf(l)' = LastOf(l)
    BY <1>1, <2>1 DEF Latest
  <2>4. \A l \in Links : Latest(l)' => HandNear(l)' /\ PopNear(l)'
    BY <1>b, <2>1, <2>2, <2>3
  <2> HIDE DEF HandNear, PopNear
  <2> QED BY <1>1, <1>s, <2>1, <2>4
<1> QED BY <1>2, <1>3, <1>4, <1>5, <1>6, <1>7, <1>8 DEF Next, Transport

(***************************************************************************)
(* The theorem                                                             *)
(***************************************************************************)

\* The agent starts with nothing written.
LEMMA InitInv == Init => Inv
<1> SUFFICES ASSUME Init PROVE Inv
  OBVIOUS
<1>0. << >> \in Seq(Items) /\ Len(<< >>) = 0
  OBVIOUS
<1>1. /\ run \in 1..MaxRuns /\ seq \in 0..MaxItems /\ taken \in 0..MaxPops /\ link \in 0..MaxLinks
      /\ backoff \in InitialBackoff..MaxBackoff
  BY LinkAssumption DEF Init, LinkAssumption
<1>2. sent \in [Links -> Seq(Items)] /\ read \in [Links -> Nat]
  BY <1>0 DEF Init
<1>e. \A l \in Links : sent[l] = << >> /\ Len(sent[l]) = 0 /\ read[l] = 0
  BY <1>0 DEF Init
<1>3. TypeOK
  <2>1. frame \in Seq(Items) /\ Len(frame) <= 1
    BY <1>0 DEF Init
  <2>2. handler \in [Links -> {"none", "waiting", "serving", "ended"}]
    BY DEF Init
  <2>3. \A l \in Links : read[l] <= Len(sent[l])
    BY <1>e
  <2>4. overrun \in BOOLEAN /\ connected \in BOOLEAN /\ phase \in {"connecting", "up", "backoff"}
    BY DEF Init
  <2> QED BY <1>1, <1>2, <2>1, <2>2, <2>3, <2>4 DEF TypeOK
<1>4. Links0 /\ FrameRun
  BY <1>e DEF Init, Links0, FrameRun
<1>5. Order /\ Trail
  BY <1>e DEF Init, Order, Trail, NoGapOnLink
<1>6. Cost
  BY <1>e DEF Cost, OneLostPerLink
<1> QED BY <1>3, <1>4, <1>5, <1>6 DEF Inv

\* Every step of the agent, the link and the relay keeps the invariant.
LEMMA InvStep == Inv /\ [Next]_vars => Inv'
<1> SUFFICES ASSUME Inv, [Next]_vars PROVE Inv'
  OBVIOUS
<1> USE DEF Inv
<1>1. TypeOK' /\ Links0' /\ FrameRun'
  BY TypeStep, LinksStep
<1>2. Order' /\ Trail' /\ Cost'
  BY <1>1, OrderStep, TrailStep, CostStep
<1> QED BY <1>1, <1>2

\* Through any number of overruns, lost links and restarts of the agent, with
\* handlers of old links still reading (ring-buffer's push and pop, quic-transport's
\* run_transport_loop, session.rs): the relay publishes no item twice and in the
\* order of capture on and across links until the ring overruns, a link has no
\* gap, and between links no more items of a run are missing than links were lost.
THEOREM LinkSafe == Spec => []LinkInv
<1>1. Inv => LinkInv
  <2> SUFFICES ASSUME Inv PROVE LinkInv
    OBVIOUS
  <2>1. InOrderAtMostOnce
    <3> SUFFICES ASSUME NEW l \in Links, NEW m \in Links, NEW i \in 1..read[l], NEW j \in 1..read[m],
                        l < m \/ (l = m /\ i < j)
                 PROVE  Before(sent[l][i], sent[m][j])
      BY DEF InOrderAtMostOnce
    <3>1. i \in 1..Len(sent[l]) /\ j \in 1..Len(sent[m])
      BY DEF Inv, TypeOK
    <3> QED BY <3>1 DEF Inv, Order
  <2> QED BY <2>1 DEF Inv, Trail, Cost, LinkInv
<1> QED BY InitInv, InvStep, <1>1, PTL DEF Spec
============================================================================
