-------------------------- MODULE ChainedSessionsProofs --------------------------
(***************************************************************************)
(* What the sessions of one machine listen on, and that two that live at   *)
(* the same time have no port in common, for any number of sessions,       *)
(* however they launch each other, and for any number of ports.            *)
(*                                                                         *)
(* No session looks at another's ports: each is told once, when its        *)
(* configuration is resolved, what the extension knows by then.  The proof *)
(* follows a port from the session that was granted it (ScanInv), by way   *)
(* of the events on their way to the extension (AnnouncedInv) and the      *)
(* extension's list (EnrolledInv), to what a later session avoids          *)
(* (ApartInv).                                                             *)
(***************************************************************************)
EXTENDS ChainedSessions, SequenceTheorems, TLAPS

Phases == {"absent", "off", "due", "resolved", "launching", "released", "served", "up",
           "ending", "leaving", "over"}
Early  == {"absent", "off", "due", "resolved"}
Addresses == {Loopback, Wildcard}

ScanType  == [range : {"none", "gdb", "rtt"}, port : Nat, hosts : Nat, run : Seq(Nat)]
EventType == [kind : {"ports", "server", "gdb", "terminating", "terminated"}, ports : SUBSET Nat]

ChainTypeOK ==
  /\ claimed \in [Adapters -> SUBSET (Nat \X Addresses)]
  /\ avoid \in [Adapters -> SUBSET Nat]
  /\ scan \in [Adapters -> ScanType]
  /\ granted \in [Adapters -> Seq(Seq(Nat))]
  /\ phase \in [Adapters -> Phases]
  /\ mail \in [Adapters -> Seq(EventType)]
  /\ enrolled \subseteq Adapters
  /\ usedPorts \in [Adapters -> SUBSET Nat]
  /\ blind \in [Adapters -> SUBSET Adapters]

\* A session searches while it is launching, its server's ports before those of RTT;
\* what it has gathered lies below the port it tries, and it gathers nothing that it
\* must avoid, its own ports among them.
Searching(s) ==
  /\ phase[s] \in Early \/ ~HasServer(s) => scan[s] = NoScan /\ granted[s] = << >>
  /\ phase[s] = "launching" /\ HasServer(s) =>
       \/ scan[s].range = "gdb" /\ granted[s] = << >>
       \/ scan[s].range = "rtt" /\ Len(granted[s]) = 1
  /\ scan[s].hosts < Len(Hosts)
  /\ scan[s].hosts > 0 => scan[s].port \notin avoid[s]
  /\ \A p \in ToSet(scan[s].run) : p < scan[s].port /\ p \notin avoid[s]
  /\ PortsOf(s) \subseteq avoid[s]

ScanInv == \A s \in Adapters : Searching(s)

\* HoldsWhatItGathers, of one session.
Holds(s) ==
  claimed[s] = IF scan[s].range = "none" THEN {}
               ELSE Claims(PortsOf(s) \cup ToSet(scan[s].run)) \cup Trying(scan[s])

\* A port that was granted is known to the extension, or the event is on its way.
Announced(s, p) == p \in usedPorts[s] \/ \E e \in ToSet(mail[s]) : e.kind = "ports" /\ p \in e.ports

AnnouncedInv == \A s \in Adapters : \A p \in PortsOf(s) : Announced(s, p)

\* A session whose ports are known stays enrolled until it is over.
EnrolledInv ==
  \A s \in Adapters :
    /\ usedPorts[s] # {} /\ phase[s] # "over" => s \in enrolled
    /\ (\E e \in ToSet(mail[s]) : e.kind = "terminated") => phase[s] = "over"

\* Session s has all its ports, and t avoids them.
Clear(s, t) ==
  /\ ~(Len(granted[s]) < 2)
  /\ PortsOf(s) \subseteq avoid[t]
  /\ PortsOf(s) \cap PortsOf(t) = {}

\* Of two sessions one was resolved when the other had its ports.
ApartInv ==
  \A s, t \in Adapters :
    s # t /\ Lives(s) /\ Lives(t) /\ HasServer(s) /\ HasServer(t)
      => s \in blind[t] \/ t \in blind[s] \/ Clear(s, t) \/ Clear(t, s)

IInv == ChainTypeOK /\ ScanInv /\ HoldsWhatItGathers /\ AnnouncedInv /\ EnrolledInv /\ ApartInv

-----------------------------------------------------------------------------
(* Sequences and their elements *)

\* What Append and Tail do to the elements of a sequence.
LEMMA AppendedSet ==
  ASSUME NEW S, NEW q \in Seq(S), NEW e \in S
  PROVE  Append(q, e) \in Seq(S) /\ ToSet(Append(q, e)) = ToSet(q) \cup {e}
<1>1. /\ Append(q, e) \in Seq(S) /\ Len(Append(q, e)) = Len(q) + 1 /\ Len(q) \in Nat
      /\ \A i \in 1 .. Len(q) : Append(q, e)[i] = q[i]
      /\ Append(q, e)[Len(q) + 1] = e
  BY AppendProperties, LenProperties
<1>2. DOMAIN q = 1 .. Len(q) /\ DOMAIN Append(q, e) = 1 .. Len(q) + 1
  BY <1>1, LenProperties
<1>3. 1 .. Len(q) + 1 = 1 .. Len(q) \cup {Len(q) + 1}
  BY <1>1
<1> QED
  BY <1>1, <1>2, <1>3 DEF ToSet

LEMMA TailSet ==
  ASSUME NEW S, NEW q \in Seq(S), q # << >>
  PROVE  /\ Head(q) \in S /\ Tail(q) \in Seq(S)
         /\ ToSet(q) = {Head(q)} \cup ToSet(Tail(q))
<1>1. /\ Head(q) \in S /\ Tail(q) \in Seq(S) /\ Len(Tail(q)) = Len(q) - 1
      /\ \A i \in 1 .. Len(Tail(q)) : Tail(q)[i] = q[i + 1]
  BY HeadTailProperties
<1>2. /\ DOMAIN q = 1 .. Len(q) /\ Len(q) \in Nat \ {0}
      /\ DOMAIN Tail(q) = 1 .. Len(q) - 1
  BY <1>1, LenProperties, EmptySeq
<1>3. Head(q) = q[1]
  OBVIOUS
<1>4. ToSet(q) \subseteq {Head(q)} \cup ToSet(Tail(q))
  <2> SUFFICES ASSUME NEW i \in 1 .. Len(q), i # 1
               PROVE  q[i] \in ToSet(Tail(q))
    BY <1>2, <1>3 DEF ToSet
  <2>1. i - 1 \in 1 .. Len(Tail(q)) /\ i = (i - 1) + 1
    BY <1>1, <1>2
  <2>2. Tail(q)[i - 1] = q[i]
    BY <1>1, <2>1
  <2> QED
    BY <1>1, <1>2, <2>1, <2>2 DEF ToSet
<1>5. ToSet(Tail(q)) \subseteq ToSet(q)
  <2> SUFFICES ASSUME NEW i \in 1 .. Len(q) - 1
               PROVE  Tail(q)[i] \in ToSet(q)
    BY <1>1, <1>2 DEF ToSet
  <2>1. i + 1 \in 1 .. Len(q) /\ Tail(q)[i] = q[i + 1]
    BY <1>1, <1>2
  <2> QED
    BY <1>2, <2>1 DEF ToSet
<1>6. Head(q) \in ToSet(q)
  BY <1>2, <1>3 DEF ToSet
<1> QED
  BY <1>1, <1>4, <1>5, <1>6

\* An empty sequence has no element, a sequence over a set none outside.
LEMMA SetOfSeq ==
  ASSUME NEW S, NEW q \in Seq(S)
  PROVE  ToSet(q) \subseteq S /\ ToSet(<< >>) = {}
BY LenProperties, ElementOfSeq DEF ToSet

-----------------------------------------------------------------------------
(* Hosts, ports and events *)

LEMMA HostsFacts ==
  /\ Hosts \in Seq(Addresses) /\ Len(Hosts) \in {1, 2}
  /\ DOMAIN Hosts = 1 .. Len(Hosts)
  /\ ToSet(Hosts) \subseteq Addresses
<1>1. <<Loopback, Wildcard>> \in Seq(Addresses) /\ Len(<<Loopback, Wildcard>>) = 2
  BY DEF Addresses
<1>2. <<Wildcard>> \in Seq(Addresses) /\ Len(<<Wildcard>>) = 1
  BY DEF Addresses
<1>3. Hosts \in Seq(Addresses) /\ Len(Hosts) \in {1, 2}
  BY <1>1, <1>2 DEF Hosts
<1> QED
  BY <1>3, LenProperties, SetOfSeq

\* The addresses of a port are claimed one by one: with the last, the port is.
LEMMA OneMoreAddress ==
  ASSUME NEW p \in Nat, NEW n \in Nat, n < Len(Hosts)
  PROVE  /\ <<p, Hosts[n + 1]>> \in Nat \X Addresses
         /\ {<<p, Hosts[i]>> : i \in 1 .. n + 1}
              = {<<p, Hosts[i]>> : i \in 1 .. n} \cup {<<p, Hosts[n + 1]>>}
         /\ n + 1 = Len(Hosts) => {<<p, Hosts[i]>> : i \in 1 .. n + 1} = {p} \X ToSet(Hosts)
<1>1. Len(Hosts) \in {1, 2} /\ DOMAIN Hosts = 1 .. Len(Hosts) /\ Hosts \in Seq(Addresses)
  BY HostsFacts
<1>2. n + 1 \in 1 .. Len(Hosts)
  BY <1>1
<1>3. <<p, Hosts[n + 1]>> \in Nat \X Addresses
  BY <1>1, <1>2, ElementOfSeq
<1>4. 1 .. n + 1 = 1 .. n \cup {n + 1}
  OBVIOUS
<1>5. {<<p, Hosts[i]>> : i \in 1 .. n + 1}
        = {<<p, Hosts[i]>> : i \in 1 .. n} \cup {<<p, Hosts[n + 1]>>}
  BY <1>4
<1>6. ASSUME n + 1 = Len(Hosts)
      PROVE  {<<p, Hosts[i]>> : i \in 1 .. n + 1} = {p} \X ToSet(Hosts)
  BY <1>1, <1>6 DEF ToSet
<1> QED
  BY <1>3, <1>5, <1>6

\* A port is a number, and a session with no range has no port.
LEMMA PortsType ==
  ASSUME ChainTypeOK, NEW s \in Adapters
  PROVE  /\ PortsOf(s) \subseteq Nat
         /\ granted[s] = << >> => PortsOf(s) = {}
         /\ FoundRange(s) \in Seq(Nat)
         /\ ToSet(FoundRange(s)) = ToSet(scan[s].run) \cup {scan[s].port}
         /\ ToSet(scan[s].run) \subseteq Nat /\ scan[s].port \in Nat
<1>1. granted[s] \in Seq(Seq(Nat)) /\ scan[s] \in ScanType
  BY DEF ChainTypeOK
<1>2. scan[s].run \in Seq(Nat) /\ scan[s].port \in Nat
  BY <1>1 DEF ScanType
<1>3. PortsOf(s) \subseteq Nat
  <2> SUFFICES ASSUME NEW range \in ToSet(granted[s]) PROVE ToSet(range) \subseteq Nat
    BY DEF PortsOf
  <2>1. range \in Seq(Nat)
    BY <1>1, SetOfSeq
  <2> QED
    BY <2>1, SetOfSeq
<1>4. granted[s] = << >> => PortsOf(s) = {}
  BY DEF PortsOf, ToSet
<1> QED
  BY <1>2, <1>3, <1>4, AppendedSet, SetOfSeq DEF FoundRange

LEMMA EventIsEvent ==
  ASSUME ChainTypeOK, NEW s \in Adapters,
         NEW kind \in {"ports", "server", "gdb", "terminating", "terminated"}
  PROVE  /\ Event(kind, s) \in EventType
         /\ Event(kind, s).kind = kind
         /\ Event(kind, s).ports = IF kind = "ports" THEN ToSet(FoundRange(s)) ELSE {}
<1>1. ToSet(FoundRange(s)) \in SUBSET Nat
  BY PortsType
<1> QED
  BY <1>1 DEF Event, EventType

\* An event that is told is the last in the mail of its session.
LEMMA MailTold ==
  ASSUME ChainTypeOK, NEW s \in Adapters, NEW e \in EventType, Tell(s, e) \/ UNCHANGED mail
  PROVE  /\ mail' \in [Adapters -> Seq(EventType)]
         /\ \A t \in Adapters : ToSet(mail[t]) \subseteq ToSet(mail'[t])
         /\ \A t \in Adapters : ToSet(mail'[t]) \subseteq ToSet(mail[t]) \cup IF t = s THEN {e} ELSE {}
         /\ Tell(s, e) => e \in ToSet(mail'[s])
<1>1. mail \in [Adapters -> Seq(EventType)]
  BY DEF ChainTypeOK
<1>2. Append(mail[s], e) \in Seq(EventType)
      /\ ToSet(Append(mail[s], e)) = ToSet(mail[s]) \cup {e}
  BY <1>1, AppendedSet
<1>3. CASE Tell(s, e)
  <2>1. mail' = [mail EXCEPT ![s] = Append(mail[s], e)]
    BY <1>3 DEF Tell
  <2> QED
    BY <1>1, <1>2, <2>1
<1>4. CASE UNCHANGED mail /\ ~Tell(s, e)
  BY <1>1, <1>4
<1> QED
  BY <1>3, <1>4

\* The event that arrives is the first in the mail of its session.
LEMMA MailTaken ==
  ASSUME ChainTypeOK, NEW s \in Adapters, NEW kind, Arrives(s, kind)
  PROVE  /\ mail' \in [Adapters -> Seq(EventType)]
         /\ Head(mail[s]) \in EventType /\ Head(mail[s]) \in ToSet(mail[s])
         /\ Head(mail[s]).kind = kind
         /\ \A t \in Adapters : ToSet(mail'[t]) \subseteq ToSet(mail[t])
         /\ \A t \in Adapters : \A e \in ToSet(mail[t]) :
              e \in ToSet(mail'[t]) \/ (t = s /\ e = Head(mail[s]))
<1>1. mail \in [Adapters -> Seq(EventType)] /\ mail[s] # << >>
  BY DEF ChainTypeOK, Arrives
<1>2. mail' = [mail EXCEPT ![s] = Tail(mail[s])] /\ Head(mail[s]).kind = kind
  BY DEF Arrives
<1>3. /\ Head(mail[s]) \in EventType /\ Tail(mail[s]) \in Seq(EventType)
      /\ ToSet(mail[s]) = {Head(mail[s])} \cup ToSet(Tail(mail[s]))
  BY <1>1, TailSet
<1> QED
  BY <1>1, <1>2, <1>3

-----------------------------------------------------------------------------
(* What most actions leave alone *)

\* The searches stand where they stood.
LEMMA SearchUntouched ==
  ASSUME ScanInv, HoldsWhatItGathers, UNCHANGED <<net, claimed, avoid, scan, granted>>,
         \A s \in Adapters : /\ phase'[s] \in Early => phase[s] \in Early
                             /\ phase'[s] = "launching" => phase[s] = "launching"
  PROVE  ScanInv' /\ HoldsWhatItGathers'
<1>1. Hosts' = Hosts
  BY DEF Hosts
<1>2. \A s \in Adapters : PortsOf(s)' = PortsOf(s)
  BY DEF PortsOf
<1>3. ScanInv'
  BY <1>1, <1>2 DEF ScanInv, Searching
<1>4. HoldsWhatItGathers'
  BY <1>1, <1>2 DEF HoldsWhatItGathers, Claims, Trying
<1> QED
  BY <1>3, <1>4

\* Whatever is not handed over to the list of ports stays in the mail.
LEMMA AnnouncedKept ==
  ASSUME AnnouncedInv, UNCHANGED granted,
         \A s \in Adapters : usedPorts[s] \subseteq usedPorts'[s],
         \A s \in Adapters : \A e \in ToSet(mail[s]) :
           e.kind = "ports" => e \in ToSet(mail'[s]) \/ e.ports \subseteq usedPorts'[s]
  PROVE  AnnouncedInv'
BY DEF AnnouncedInv, Announced, PortsOf

\* No one is removed, and only who is over is reported so.
LEMMA EnrolledKept ==
  ASSUME EnrolledInv, UNCHANGED usedPorts, enrolled \subseteq enrolled',
         \A s \in Adapters : phase[s] = "over" => phase'[s] = "over",
         \A s \in Adapters : \A e \in ToSet(mail'[s]) :
           e.kind = "terminated" => e \in ToSet(mail[s]) \/ phase'[s] = "over"
  PROVE  EnrolledInv'
BY DEF EnrolledInv

\* No session comes to life, is granted a port or learns of one.
LEMMA ApartKept ==
  ASSUME ApartInv, UNCHANGED <<avoid, granted, blind>>,
         \A s \in Adapters : Lives(s)' => Lives(s)
  PROVE  ApartInv'
BY DEF ApartInv, Clear, PortsOf

\* An action that grants nothing, resolves nothing and launches nothing.
LEMMA QuietStep ==
  ASSUME IInv, UNCHANGED <<net, claimed, avoid, scan, granted, blind>>, ChainTypeOK',
         AnnouncedInv', EnrolledInv',
         \A s \in Adapters : \/ phase'[s] = phase[s]
                             \/ phase[s] = "off" /\ phase'[s] = "due"
                             \/ Lives(s) /\ phase'[s] \in {"served", "up", "ending", "leaving"}
  PROVE  IInv'
<1>1. \A s \in Adapters : /\ phase'[s] \in Early => phase[s] \in Early
                          /\ phase'[s] = "launching" => phase[s] = "launching"
                          /\ Lives(s)' => Lives(s)
  BY DEF Lives, Running, Early
<1>2. ScanInv' /\ HoldsWhatItGathers'
  BY <1>1, SearchUntouched DEF IInv
<1>3. ApartInv'
  BY <1>1, ApartKept DEF IInv
<1> QED
  BY <1>2, <1>3 DEF IInv

-----------------------------------------------------------------------------
(* A session that is up, and its end *)

LEMMA ServerUpStep ==
  ASSUME IInv, NEW s \in Adapters, ServerUp(s)
  PROVE  IInv'
<1>1. /\ phase' = [phase EXCEPT ![s] = "served"] /\ phase[s] \in {"released", "launching"}
      /\ TellChain(s, Event("server", s))
      /\ UNCHANGED <<net, claimed, avoid, scan, granted, treeVars, blind>>
  BY DEF ServerUp, Serves, Enter, scanVars
<1>2. /\ ChainTypeOK
      /\ Event("server", s) \in EventType /\ Event("server", s).kind = "server"
      /\ Tell(s, Event("server", s)) \/ UNCHANGED mail
  BY <1>1, EventIsEvent DEF IInv, TellChain
<1>3. /\ mail' \in [Adapters -> Seq(EventType)]
      /\ \A t \in Adapters : ToSet(mail[t]) \subseteq ToSet(mail'[t])
      /\ \A t \in Adapters : ToSet(mail'[t]) \subseteq ToSet(mail[t])
                               \cup IF t = s THEN {Event("server", s)} ELSE {}
  BY <1>2, MailTold
<1>4. ChainTypeOK'
  BY <1>1, <1>2, <1>3 DEF ChainTypeOK, treeVars, Phases
<1>5. AnnouncedInv'
  BY <1>1, <1>3, AnnouncedKept DEF IInv, treeVars
<1>6. EnrolledInv'
  <2>1. \A t \in Adapters : phase[t] = "over" => phase'[t] = "over"
    BY <1>1, <1>2 DEF ChainTypeOK
  <2> QED
    BY <1>1, <1>2, <1>3, <2>1, EnrolledKept DEF IInv, treeVars
<1> QED
  BY <1>1, <1>2, <1>4, <1>5, <1>6, QuietStep DEF ChainTypeOK, Lives, Running

LEMMA GdbUpStep ==
  ASSUME IInv, NEW s \in Adapters, GdbUp(s)
  PROVE  IInv'
<1>1. /\ phase' = [phase EXCEPT ![s] = "up"] /\ phase[s] = "served"
      /\ TellChain(s, Event("gdb", s))
      /\ UNCHANGED <<net, claimed, avoid, scan, granted, treeVars, blind>>
  BY DEF GdbUp, Enter, scanVars
<1>2. /\ ChainTypeOK
      /\ Event("gdb", s) \in EventType /\ Event("gdb", s).kind = "gdb"
      /\ Tell(s, Event("gdb", s)) \/ UNCHANGED mail
  BY <1>1, EventIsEvent DEF IInv, TellChain
<1>3. /\ mail' \in [Adapters -> Seq(EventType)]
      /\ \A t \in Adapters : ToSet(mail[t]) \subseteq ToSet(mail'[t])
      /\ \A t \in Adapters : ToSet(mail'[t]) \subseteq ToSet(mail[t])
                               \cup IF t = s THEN {Event("gdb", s)} ELSE {}
  BY <1>2, MailTold
<1>4. ChainTypeOK'
  BY <1>1, <1>2, <1>3 DEF ChainTypeOK, treeVars, Phases
<1>5. AnnouncedInv'
  BY <1>1, <1>3, AnnouncedKept DEF IInv, treeVars
<1>6. EnrolledInv'
  <2>1. \A t \in Adapters : phase[t] = "over" => phase'[t] = "over"
    BY <1>1, <1>2 DEF ChainTypeOK
  <2> QED
    BY <1>1, <1>2, <1>3, <2>1, EnrolledKept DEF IInv, treeVars
<1> QED
  BY <1>1, <1>2, <1>4, <1>5, <1>6, QuietStep DEF ChainTypeOK, Lives, Running

\* A session stops or fails: nothing is said yet.
LEMMA FinishStep ==
  ASSUME IInv, NEW s \in Adapters, Finish(s),
         UNCHANGED <<net, claimed, avoid, scan, granted, mail, treeVars, blind>>
  PROVE  IInv'
<1>1. phase' = [phase EXCEPT ![s] = "ending"] /\ Running(s) /\ ChainTypeOK
  BY DEF Finish, Enter, IInv
<1>2. ChainTypeOK'
  BY <1>1 DEF ChainTypeOK, treeVars, Phases
<1>3. AnnouncedInv'
  BY AnnouncedKept DEF IInv, treeVars
<1>4. EnrolledInv'
  <2>1. \A t \in Adapters : phase[t] = "over" => phase'[t] = "over"
    BY <1>1 DEF ChainTypeOK, Running
  <2> QED
    BY <2>1, EnrolledKept DEF IInv, treeVars
<1> QED
  BY <1>1, <1>2, <1>3, <1>4, QuietStep DEF ChainTypeOK, Lives

LEMMA DisconnectsStep ==
  ASSUME IInv, NEW s \in Adapters, Disconnects(s)
  PROVE  IInv'
<1>1. /\ phase' = [phase EXCEPT ![s] = "leaving"] /\ phase[s] = "ending"
      /\ TellChain(s, Event("terminating", s))
      /\ UNCHANGED <<net, claimed, avoid, scan, granted, treeVars, blind>>
  BY DEF Disconnects, Enter, scanVars
<1>2. /\ ChainTypeOK
      /\ Event("terminating", s) \in EventType /\ Event("terminating", s).kind = "terminating"
      /\ Tell(s, Event("terminating", s)) \/ UNCHANGED mail
  BY <1>1, EventIsEvent DEF IInv, TellChain
<1>3. /\ mail' \in [Adapters -> Seq(EventType)]
      /\ \A t \in Adapters : ToSet(mail[t]) \subseteq ToSet(mail'[t])
      /\ \A t \in Adapters : ToSet(mail'[t]) \subseteq ToSet(mail[t])
                               \cup IF t = s THEN {Event("terminating", s)} ELSE {}
  BY <1>2, MailTold
<1>4. ChainTypeOK'
  BY <1>1, <1>2, <1>3 DEF ChainTypeOK, treeVars, Phases
<1>5. AnnouncedInv'
  BY <1>1, <1>3, AnnouncedKept DEF IInv, treeVars
<1>6. EnrolledInv'
  <2>1. \A t \in Adapters : phase[t] = "over" => phase'[t] = "over"
    BY <1>1, <1>2 DEF ChainTypeOK
  <2> QED
    BY <1>1, <1>2, <1>3, <2>1, EnrolledKept DEF IInv, treeVars
<1> QED
  BY <1>1, <1>2, <1>4, <1>5, <1>6, QuietStep DEF ChainTypeOK, Lives, Running

\* With the session goes all it listens on.
LEMMA ExitsStep ==
  ASSUME IInv, NEW s \in Adapters, Exits(s)
  PROVE  IInv'
<1>1. /\ phase' = [phase EXCEPT ![s] = "over"] /\ phase[s] = "leaving"
      /\ Tell(s, Event("terminated", s))
      /\ claimed' = [claimed EXCEPT ![s] = {}]
      /\ scan' = [scan EXCEPT ![s] = NoScan]
      /\ UNCHANGED <<net, avoid, granted, treeVars, blind>>
  BY DEF Exits, Leaves, Enter
<1>2. /\ ChainTypeOK
      /\ Event("terminated", s) \in EventType
  BY EventIsEvent DEF IInv
<1>3. /\ mail' \in [Adapters -> Seq(EventType)]
      /\ \A t \in Adapters : ToSet(mail[t]) \subseteq ToSet(mail'[t])
      /\ \A t \in Adapters : ToSet(mail'[t]) \subseteq ToSet(mail[t])
                               \cup IF t = s THEN {Event("terminated", s)} ELSE {}
  BY <1>1, <1>2, MailTold
<1>4. NoScan \in ScanType /\ NoScan.range = "none" /\ NoScan.hosts = 0 /\ NoScan.run = << >>
  BY DEF NoScan, ScanType
<1>5. ChainTypeOK'
  BY <1>1, <1>2, <1>3, <1>4 DEF ChainTypeOK, treeVars, Phases
<1>6. AnnouncedInv'
  BY <1>1, <1>3, AnnouncedKept DEF IInv, treeVars
<1>7. EnrolledInv'
  <2>1. \A t \in Adapters : phase[t] = "over" => phase'[t] = "over"
    BY <1>1, <1>2 DEF ChainTypeOK
  <2>2. phase'[s] = "over"
    BY <1>1, <1>2 DEF ChainTypeOK
  <2> QED
    BY <1>1, <1>3, <2>1, <2>2, EnrolledKept DEF IInv, treeVars
<1>8. Hosts' = Hosts /\ \A t \in Adapters : PortsOf(t)' = PortsOf(t)
  BY <1>1 DEF Hosts, PortsOf
<1>9. ASSUME NEW t \in Adapters PROVE Searching(t)'
  <2>1. Searching(t)
    BY DEF IInv, ScanInv
  <2>2. CASE t # s
    BY <1>1, <1>2, <1>8, <2>1, <2>2 DEF Searching, ChainTypeOK
  <2>3. CASE t = s
    <3>1. scan'[s] = NoScan /\ phase'[s] = "over" /\ ToSet(<< >>) = {}
      BY <1>1, <1>2 DEF ChainTypeOK, ToSet
    <3>2. ~HasServer(s) => granted'[s] = << >>
      BY <1>1, <2>1, <2>3 DEF Searching
    <3>3. 0 < Len(Hosts') /\ PortsOf(s)' \subseteq avoid'[s]
      BY <1>1, <1>8, <2>1, <2>3, HostsFacts DEF Searching
    <3> QED
      BY <1>4, <2>3, <3>1, <3>2, <3>3 DEF Searching, Early
  <2> QED
    BY <2>2, <2>3
<1>10. HoldsWhatItGathers'
  <2> SUFFICES ASSUME NEW t \in Adapters PROVE Holds(t)'
    BY DEF HoldsWhatItGathers, Holds
  <2>1. CASE t # s
    <3>1. scan'[t] = scan[t] /\ claimed'[t] = claimed[t] /\ Holds(t)
      BY <1>1, <1>2, <2>1 DEF ChainTypeOK, IInv, HoldsWhatItGathers, Holds
    <3> QED
      BY <1>8, <3>1 DEF Holds, Claims, Trying
  <2>2. CASE t = s
    BY <1>1, <1>2, <1>4, <2>2 DEF ChainTypeOK, Holds
  <2> QED
    BY <2>1, <2>2
<1>11. ApartInv'
  <2>1. \A t \in Adapters : Lives(t)' => Lives(t)
    BY <1>1, <1>2 DEF Lives, Running, ChainTypeOK
  <2> QED
    BY <1>1, <2>1, ApartKept DEF IInv
<1> QED
  BY <1>5, <1>6, <1>7, <1>9, <1>10, <1>11 DEF IInv, ScanInv

-----------------------------------------------------------------------------
(* The extension *)

LEMMA ShownStep ==
  ASSUME IInv, NEW s \in Adapters, Shown(s)
  PROVE  IInv'
<1>1. /\ enrolled' = enrolled \cup {s}
      /\ UNCHANGED <<net, claimed, avoid, scan, granted, phase, mail, usedPorts, blind>>
  BY DEF Shown, Enrols, scanVars
<1>2. ChainTypeOK'
  BY <1>1 DEF IInv, ChainTypeOK
<1>3. AnnouncedInv' /\ EnrolledInv'
  BY <1>1, AnnouncedKept, EnrolledKept DEF IInv
<1> QED
  BY <1>1, <1>2, <1>3, QuietStep

\* The ports that leave the mail enter the list, with their session.
LEMMA PortsUsedStep ==
  ASSUME IInv, NEW s \in Adapters, PortsUsed(s)
  PROVE  IInv'
<1>1. /\ Arrives(s, "ports") /\ enrolled' = enrolled \cup {s}
      /\ usedPorts' = [usedPorts EXCEPT ![s] = @ \cup Head(mail[s]).ports]
      /\ UNCHANGED <<net, claimed, avoid, scan, granted, phase, blind>>
  BY DEF PortsUsed, Enrols, scanVars
<1>2. /\ ChainTypeOK
      /\ mail' \in [Adapters -> Seq(EventType)]
      /\ Head(mail[s]) \in EventType
      /\ \A t \in Adapters : ToSet(mail'[t]) \subseteq ToSet(mail[t])
      /\ \A t \in Adapters : \A e \in ToSet(mail[t]) :
           e \in ToSet(mail'[t]) \/ (t = s /\ e = Head(mail[s]))
  BY <1>1, MailTaken DEF IInv
<1>3. /\ usedPorts' \in [Adapters -> SUBSET Nat]
      /\ \A t \in Adapters : usedPorts[t] \subseteq usedPorts'[t]
      /\ \A t \in Adapters : t # s => usedPorts'[t] = usedPorts[t]
      /\ Head(mail[s]).ports \subseteq usedPorts'[s]
  BY <1>1, <1>2 DEF ChainTypeOK, EventType
<1>4. ChainTypeOK'
  BY <1>1, <1>2, <1>3 DEF ChainTypeOK
<1>5. AnnouncedInv'
  BY <1>1, <1>2, <1>3, AnnouncedKept DEF IInv
<1>6. EnrolledInv'
  BY <1>1, <1>2, <1>3 DEF IInv, EnrolledInv
<1> QED
  BY <1>1, <1>4, <1>5, <1>6, QuietStep

LEMMA LaunchesChainedStep ==
  ASSUME IInv, NEW s \in Adapters, LaunchesChained(s)
  PROVE  IInv'
<1>1. PICK kind \in {"server", "gdb"} :
        /\ Arrives(s, kind) /\ enrolled' = enrolled \cup {s}
        /\ phase' = [c \in Adapters |->
                       IF c \in Chained(s, kind) /\ phase[c] = "off" THEN "due" ELSE phase[c]]
        /\ UNCHANGED <<net, claimed, avoid, scan, granted, usedPorts, blind>>
  BY DEF LaunchesChained, Enrols, scanVars
<1>2. /\ ChainTypeOK
      /\ mail' \in [Adapters -> Seq(EventType)]
      /\ Head(mail[s]).kind = kind
      /\ \A t \in Adapters : ToSet(mail'[t]) \subseteq ToSet(mail[t])
      /\ \A t \in Adapters : \A e \in ToSet(mail[t]) :
           e \in ToSet(mail'[t]) \/ (t = s /\ e = Head(mail[s]))
  BY <1>1, MailTaken DEF IInv
<1>3. \A c \in Adapters : phase'[c] = phase[c] \/ (phase[c] = "off" /\ phase'[c] = "due")
  BY <1>1
<1>4. phase' \in [Adapters -> Phases]
  BY <1>1, <1>2 DEF ChainTypeOK, Phases
<1>5. ChainTypeOK'
  BY <1>1, <1>2, <1>4 DEF ChainTypeOK
<1>6. AnnouncedInv'
  BY <1>1, <1>2, AnnouncedKept DEF IInv
<1>7. EnrolledInv'
  BY <1>1, <1>2, <1>3, EnrolledKept DEF IInv
<1> QED
  BY <1>1, <1>3, <1>5, <1>6, <1>7, QuietStep

LEMMA TerminatingStep ==
  ASSUME IInv, NEW s \in Adapters, Terminating(s)
  PROVE  IInv'
<1>1. /\ Arrives(s, "terminating")
      /\ phase' = [c \in Adapters |-> IF c \in Below(s) /\ Running(c) THEN "ending" ELSE phase[c]]
      /\ UNCHANGED <<net, claimed, avoid, scan, granted, enrolled, usedPorts, blind>>
  BY DEF Terminating, scanVars, treeVars
<1>2. /\ ChainTypeOK
      /\ mail' \in [Adapters -> Seq(EventType)]
      /\ Head(mail[s]).kind = "terminating"
      /\ \A t \in Adapters : ToSet(mail'[t]) \subseteq ToSet(mail[t])
      /\ \A t \in Adapters : \A e \in ToSet(mail[t]) :
           e \in ToSet(mail'[t]) \/ (t = s /\ e = Head(mail[s]))
  BY <1>1, MailTaken DEF IInv
<1>3. \A c \in Adapters : phase'[c] = phase[c] \/ (Running(c) /\ phase'[c] = "ending")
  BY <1>1
<1>4. phase' \in [Adapters -> Phases]
  BY <1>1, <1>2 DEF ChainTypeOK, Phases
<1>5. ChainTypeOK'
  BY <1>1, <1>2, <1>4 DEF ChainTypeOK
<1>6. AnnouncedInv'
  BY <1>1, <1>2, AnnouncedKept DEF IInv
<1>7. EnrolledInv'
  <2>1. \A c \in Adapters : phase[c] = "over" => phase'[c] = "over"
    BY <1>3 DEF Running
  <2> QED
    BY <1>1, <1>2, <2>1, EnrolledKept DEF IInv
<1>8. \A c \in Adapters : phase'[c] = phase[c] \/ (Lives(c) /\ phase'[c] = "ending")
  BY <1>3 DEF Lives
<1> QED
  BY <1>1, <1>5, <1>6, <1>7, <1>8, QuietStep

LEMMA RemovedStep ==
  ASSUME IInv, NEW s \in Adapters, Removed(s)
  PROVE  IInv'
<1>1. /\ Arrives(s, "terminated") /\ enrolled' = enrolled \ {s}
      /\ UNCHANGED <<net, claimed, avoid, scan, granted, phase, usedPorts, blind>>
  BY DEF Removed, scanVars
<1>2. /\ ChainTypeOK
      /\ mail' \in [Adapters -> Seq(EventType)]
      /\ Head(mail[s]).kind = "terminated" /\ Head(mail[s]) \in ToSet(mail[s])
      /\ \A t \in Adapters : ToSet(mail'[t]) \subseteq ToSet(mail[t])
      /\ \A t \in Adapters : \A e \in ToSet(mail[t]) :
           e \in ToSet(mail'[t]) \/ (t = s /\ e = Head(mail[s]))
  BY <1>1, MailTaken DEF IInv
<1>3. phase[s] = "over"
  BY <1>2 DEF IInv, EnrolledInv
<1>4. ChainTypeOK'
  BY <1>1, <1>2 DEF ChainTypeOK
<1>5. AnnouncedInv'
  BY <1>1, <1>2, AnnouncedKept DEF IInv
<1>6. EnrolledInv'
  BY <1>1, <1>2, <1>3 DEF IInv, EnrolledInv
<1> QED
  BY <1>1, <1>4, <1>5, <1>6, QuietStep

-----------------------------------------------------------------------------
(* A session comes up *)

\* A session that is left alone goes on as before.
LEMMA OthersSearch ==
  ASSUME IInv, NEW t \in Adapters, UNCHANGED net,
         claimed'[t] = claimed[t], avoid'[t] = avoid[t], scan'[t] = scan[t],
         granted'[t] = granted[t], phase'[t] = phase[t]
  PROVE  Searching(t)' /\ Holds(t)'
<1>1. Searching(t) /\ Holds(t)
  BY DEF IInv, ScanInv, HoldsWhatItGathers, Holds
<1>2. Hosts' = Hosts /\ PortsOf(t)' = PortsOf(t)
  BY DEF Hosts, PortsOf
<1> QED
  BY <1>1, <1>2 DEF Searching, Holds, Claims, Trying

\* The session that is resolved avoids the ports of each that lives, unless it could not
\* be told of them all.
LEMMA ResolvedStep ==
  ASSUME IInv, NEW s \in Adapters, Resolved(s)
  PROVE  IInv'
<1>1. /\ phase[s] \in {"due", "off"}
      /\ phase' = [phase EXCEPT ![s] = "resolved"]
      /\ avoid' = [avoid EXCEPT ![s] = AllUsedPorts]
      /\ blind' = [blind EXCEPT ![s] =
                     {t \in Adapters : HasServer(t) /\ Lives(t) /\
                        (Len(granted[t]) < 2 \/ \E i \in 1 .. Len(mail[t]) : mail[t][i].kind = "ports")}]
      /\ UNCHANGED <<net, claimed, scan, granted, mail, enrolled, usedPorts>>
  BY DEF Resolved, Enter, treeVars
<1>2. ChainTypeOK
  BY DEF IInv
<1>3. AllUsedPorts \in SUBSET Nat
  BY <1>2 DEF ChainTypeOK, AllUsedPorts
<1>4. ChainTypeOK'
  <2>1. blind' \in [Adapters -> SUBSET Adapters]
    BY <1>1, <1>2 DEF ChainTypeOK
  <2>2. phase' \in [Adapters -> Phases] /\ avoid' \in [Adapters -> SUBSET Nat]
    BY <1>1, <1>2, <1>3 DEF ChainTypeOK, Phases
  <2> QED
    BY <1>1, <1>2, <2>1, <2>2 DEF ChainTypeOK
<1>5. AnnouncedInv'
  BY <1>1, AnnouncedKept DEF IInv
<1>6. EnrolledInv'
  <2>1. \A t \in Adapters : phase[t] = "over" => phase'[t] = "over"
    BY <1>1, <1>2 DEF ChainTypeOK
  <2> QED
    BY <1>1, <2>1, EnrolledKept DEF IInv
<1>7. scan[s] = NoScan /\ granted[s] = << >> /\ PortsOf(s) = {} /\ PortsOf(s)' = {}
  <2>1. scan[s] = NoScan /\ granted[s] = << >>
    BY <1>1 DEF IInv, ScanInv, Searching, Early
  <2> QED
    BY <1>1, <2>1 DEF PortsOf, ToSet
<1>8. ASSUME NEW t \in Adapters PROVE Searching(t)' /\ Holds(t)'
  <2>1. CASE t # s
    BY <1>1, <1>2, <2>1, OthersSearch DEF ChainTypeOK
  <2>2. CASE t = s
    <3>1. NoScan.range = "none" /\ NoScan.hosts = 0 /\ ToSet(NoScan.run) = {}
      BY DEF NoScan, ToSet
    <3>2. Holds(s)
      BY DEF IInv, HoldsWhatItGathers, Holds
    <3>3. Hosts' = Hosts /\ Len(Hosts) > 0
      BY <1>1, HostsFacts DEF Hosts
    <3>4. phase'[s] = "resolved"
      BY <1>1, <1>2 DEF ChainTypeOK
    <3>5. Searching(s)'
      BY <1>1, <1>7, <3>1, <3>3, <3>4 DEF Searching, Early
    <3>6. Holds(s)'
      BY <1>1, <1>7, <3>1, <3>2 DEF Holds
    <3> QED
      BY <2>2, <3>5, <3>6
  <2> QED
    BY <2>1, <2>2
<1>9. ApartInv'
  <2>1. ASSUME NEW a \in Adapters, a # s, Lives(a), HasServer(a)
        PROVE  a \in blind'[s] \/ Clear(a, s)'
    <3> SUFFICES ASSUME a \notin blind'[s] PROVE Clear(a, s)'
      OBVIOUS
    <3>1. /\ ~(Len(granted[a]) < 2)
          /\ ~ \E i \in 1 .. Len(mail[a]) : mail[a][i].kind = "ports"
      BY <1>1, <1>2, <2>1 DEF ChainTypeOK
    <3>2. mail[a] \in Seq(EventType)
      BY <1>2 DEF ChainTypeOK
    <3>3. \A e \in ToSet(mail[a]) : e.kind # "ports"
      BY <3>1, <3>2, LenProperties DEF ToSet
    <3>4. PortsOf(a) \subseteq usedPorts[a]
      BY <3>3 DEF IInv, AnnouncedInv, Announced
    <3>5. PortsOf(a) \subseteq AllUsedPorts
      BY <2>1, <3>4 DEF IInv, EnrolledInv, AllUsedPorts, Lives, Running
    <3>6. PortsOf(a)' = PortsOf(a) /\ avoid'[s] = AllUsedPorts
      BY <1>1, <1>2 DEF PortsOf, ChainTypeOK
    <3> QED
      BY <1>1, <1>7, <3>1, <3>5, <3>6 DEF Clear
  <2>2. \A a \in Adapters : a # s => (Lives(a)' <=> Lives(a)) /\ blind'[a] = blind[a] /\ avoid'[a] = avoid[a]
    BY <1>1, <1>2 DEF ChainTypeOK, Lives, Running
  <2>3. ASSUME NEW a \in Adapters, NEW b \in Adapters, a # b, Lives(a)', Lives(b)',
               HasServer(a), HasServer(b)
        PROVE  a \in blind'[b] \/ b \in blind'[a] \/ Clear(a, b)' \/ Clear(b, a)'
    <3>1. CASE a = s
      BY <2>1, <2>2, <2>3, <3>1
    <3>2. CASE b = s
      BY <2>1, <2>2, <2>3, <3>2
    <3>3. CASE a # s /\ b # s
      <4>1. a \in blind[b] \/ b \in blind[a] \/ Clear(a, b) \/ Clear(b, a)
        BY <2>2, <2>3, <3>3 DEF IInv, ApartInv
      <4>2. (Clear(a, b) => Clear(a, b)') /\ (Clear(b, a) => Clear(b, a)')
        BY <1>1, <2>2, <3>3 DEF Clear, PortsOf
      <4> QED
        BY <2>2, <3>3, <4>1, <4>2
    <3> QED
      BY <3>1, <3>2, <3>3
  <2> QED
    BY <2>3 DEF ApartInv
<1> QED
  BY <1>4, <1>5, <1>6, <1>8, <1>9 DEF IInv, ScanInv, HoldsWhatItGathers, Holds

\* What is common to the steps of a search that grants nothing.
LEMMA SearchStep ==
  ASSUME IInv, NEW s \in Adapters,
         UNCHANGED <<net, avoid, granted, mail, enrolled, usedPorts, blind>>,
         phase' = [phase EXCEPT ![s] = "launching"], phase[s] \in {"resolved", "launching"},
         scan' = [scan EXCEPT ![s] = scan'[s]], scan'[s] \in ScanType,
         claimed' = [claimed EXCEPT ![s] = claimed'[s]], claimed'[s] \subseteq Nat \X Addresses,
         Searching(s)', Holds(s)'
  PROVE  IInv'
<1>1. ChainTypeOK'
  BY DEF IInv, ChainTypeOK, Phases
<1>2. AnnouncedInv'
  BY AnnouncedKept DEF IInv
<1>3. \A t \in Adapters : phase[t] = "over" => phase'[t] = "over"
  BY DEF IInv, ChainTypeOK
<1>4. EnrolledInv'
  BY <1>3, EnrolledKept DEF IInv
<1>5. \A t \in Adapters : Lives(t)' => Lives(t)
  BY DEF IInv, ChainTypeOK, Lives, Running
<1>6. ApartInv'
  BY <1>5, ApartKept DEF IInv
<1>7. ASSUME NEW t \in Adapters, t # s PROVE Searching(t)' /\ Holds(t)'
  <2>1. /\ claimed'[t] = claimed[t] /\ avoid'[t] = avoid[t] /\ scan'[t] = scan[t]
        /\ granted'[t] = granted[t] /\ phase'[t] = phase[t]
    BY <1>7 DEF IInv, ChainTypeOK
  <2> QED
    BY <2>1, OthersSearch
<1> QED
  BY <1>1, <1>2, <1>4, <1>6, <1>7 DEF IInv, ScanInv, HoldsWhatItGathers, Holds

\* The search for the first range starts, and claims no port yet.
LEMMA StartOfFacts ==
  ASSUME NEW range \in {"gdb", "rtt"}
  PROVE  /\ StartOf(range) \in ScanType /\ StartOf(range).range = range
         /\ StartOf(range).hosts = 0 /\ ToSet(StartOf(range).run) = {}
         /\ Trying(StartOf(range)) = {}
<1>1. StartOf(range) = [range |-> range, port |-> IF range = "gdb" THEN 1 ELSE RttBase,
                        hosts |-> 0, run |-> << >>]
  BY DEF StartOf
<1>2. (IF range = "gdb" THEN 1 ELSE RttBase) \in Nat /\ << >> \in Seq(Nat)
  BY ScanAssumption
<1>3. StartOf(range) \in ScanType
  BY <1>1, <1>2 DEF ScanType
<1>4. StartOf(range).run = << >> /\ StartOf(range).hosts = 0 /\ StartOf(range).range = range
  BY <1>1
<1>5. ToSet(<< >>) = {}
  BY DEF ToSet
<1> QED
  BY <1>3, <1>4, <1>5 DEF Trying

LEMMA LaunchedStep ==
  ASSUME IInv, NEW s \in Adapters, Launched(s)
  PROVE  IInv'
<1>1. /\ phase[s] = "resolved" /\ phase' = [phase EXCEPT ![s] = "launching"]
      /\ IF HasServer(s) THEN Seeks(s, avoid[s]) ELSE UNCHANGED scanVars
      /\ UNCHANGED <<mail, enrolled, usedPorts, blind>>
  BY DEF Launched, Enter, treeVars
<1>2. ChainTypeOK /\ Searching(s) /\ Holds(s)
  BY DEF IInv, ScanInv, HoldsWhatItGathers, Holds
<1>3. scan[s] = NoScan /\ granted[s] = << >>
  BY <1>1, <1>2 DEF Searching, Early
<1>4. NoScan.range = "none" /\ NoScan.hosts = 0 /\ ToSet(NoScan.run) = {} /\ NoScan \in ScanType
  BY DEF NoScan, ToSet, ScanType
<1>5. claimed[s] = {} /\ claimed = [claimed EXCEPT ![s] = claimed[s]]
  BY <1>2, <1>3, <1>4 DEF Holds, ChainTypeOK
<1>6. phase'[s] = "launching"
  BY <1>1, <1>2 DEF ChainTypeOK
<1>7. UNCHANGED <<net, claimed, avoid, granted>>
  <2>1. CASE HasServer(s)
    BY <1>1, <1>2, <2>1 DEF Seeks, ChainTypeOK
  <2>2. CASE ~HasServer(s)
    BY <1>1, <2>2 DEF scanVars
  <2> QED
    BY <2>1, <2>2
<1>8. Hosts' = Hosts /\ PortsOf(s)' = PortsOf(s) /\ PortsOf(s) = {} /\ Len(Hosts) > 0
  BY <1>3, <1>7, HostsFacts DEF Hosts, PortsOf, ToSet
<1>9. /\ scan' = [scan EXCEPT ![s] = scan'[s]] /\ scan'[s] \in ScanType
      /\ scan'[s].hosts = 0 /\ ToSet(scan'[s].run) = {} /\ Trying(scan[s])' = {}
      /\ HasServer(s) => scan'[s].range = "gdb"
      /\ ~HasServer(s) => scan'[s] = NoScan
  <2>1. CASE HasServer(s)
    <3>1. scan' = [scan EXCEPT ![s] = StartOf("gdb")]
      BY <1>1, <2>1 DEF Seeks
    <3>2. scan'[s] = StartOf("gdb")
      BY <1>2, <3>1 DEF ChainTypeOK
    <3> QED
      BY <2>1, <3>1, <3>2, StartOfFacts DEF Trying
  <2>2. CASE ~HasServer(s)
    <3>1. scan' = scan
      BY <1>1, <2>2 DEF scanVars
    <3> QED
      BY <1>2, <1>3, <1>4, <2>2, <3>1 DEF ChainTypeOK, Trying
  <2> QED
    BY <2>1, <2>2
<1>10. Searching(s)'
  BY <1>3, <1>6, <1>7, <1>8, <1>9 DEF Searching, Early
<1>11. Holds(s)'
  <2>1. Claims(PortsOf(s) \cup ToSet(scan[s].run))' = {}
    BY <1>8, <1>9 DEF Claims
  <2> QED
    BY <1>5, <1>7, <1>9, <2>1 DEF Holds
<1> QED
  BY <1>1, <1>5, <1>7, <1>9, <1>10, <1>11, SearchStep

-----------------------------------------------------------------------------
(* The search *)

\* A session that may bind the next address listens on what it has gathered and on the
\* addresses before this one.
LEMMA SearchFacts ==
  ASSUME IInv, NEW s \in Adapters, phase[s] = "launching", scan[s].range # "none"
  PROVE  /\ HasServer(s) /\ ChainTypeOK /\ scan[s] \in ScanType /\ Searching(s)
         /\ claimed[s] = Claims(PortsOf(s) \cup ToSet(scan[s].run)) \cup Trying(scan[s])
<1>1. ChainTypeOK /\ Searching(s) /\ Holds(s)
  BY DEF IInv, ScanInv, HoldsWhatItGathers, Holds
<1>2. HasServer(s)
  BY <1>1 DEF Searching, NoScan
<1> QED
  BY <1>1, <1>2 DEF Holds, ChainTypeOK

\* With the last address of a port, the port is claimed like those gathered before.
LEMMA BoundFacts ==
  ASSUME IInv, NEW s \in Adapters, phase[s] = "launching", CanBind(s)
  PROVE  /\ scan[s].range # "none" /\ scan[s].port \notin avoid[s]
         /\ Bound(s) \subseteq Nat \X Addresses
         /\ Bound(s) = Claims(PortsOf(s) \cup ToSet(scan[s].run))
                         \cup {<<scan[s].port, Hosts[i]>> : i \in 1 .. scan[s].hosts + 1}
         /\ LastAddress(s) => Bound(s) = Claims(PortsOf(s) \cup ToSet(FoundRange(s)))
<1>1. scan[s].range # "none" /\ scan[s].port \notin avoid[s]
  BY DEF CanBind
<1>2. /\ ChainTypeOK /\ scan[s] \in ScanType /\ Searching(s)
      /\ claimed[s] = Claims(PortsOf(s) \cup ToSet(scan[s].run)) \cup Trying(scan[s])
  BY <1>1, SearchFacts
<1>3. scan[s].port \in Nat /\ scan[s].hosts \in Nat /\ scan[s].hosts < Len(Hosts)
  BY <1>2 DEF ScanType, Searching
<1>4. Bound(s) = Claims(PortsOf(s) \cup ToSet(scan[s].run))
                   \cup {<<scan[s].port, Hosts[i]>> : i \in 1 .. scan[s].hosts + 1}
  BY <1>2, <1>3, OneMoreAddress DEF Bound, Trying
<1>5. Bound(s) \subseteq Nat \X Addresses
  <2>1. claimed[s] \subseteq Nat \X Addresses
    BY <1>2 DEF ChainTypeOK
  <2> QED
    BY <1>3, <2>1, OneMoreAddress DEF Bound
<1>6. ASSUME LastAddress(s)
      PROVE  Bound(s) = Claims(PortsOf(s) \cup ToSet(FoundRange(s)))
  <2>1. {<<scan[s].port, Hosts[i]>> : i \in 1 .. scan[s].hosts + 1} = {scan[s].port} \X ToSet(Hosts)
    BY <1>3, <1>6, OneMoreAddress DEF LastAddress
  <2>2. ToSet(FoundRange(s)) = ToSet(scan[s].run) \cup {scan[s].port}
    BY <1>2, PortsType
  <2> QED
    BY <1>4, <2>1, <2>2 DEF Claims
<1> QED
  BY <1>1, <1>4, <1>5, <1>6

LEMMA BindsStep ==
  ASSUME IInv, NEW s \in Adapters, Scans(s), Binds(s)
  PROVE  IInv'
<1>1. /\ phase[s] = "launching" /\ CanBind(s)
      /\ claimed' = [claimed EXCEPT ![s] = Bound(s)]
      /\ scan' = [scan EXCEPT ![s] =
                    IF LastAddress(s)
                    THEN [scan[s] EXCEPT !.port = scan[s].port + 1, !.hosts = 0, !.run = FoundRange(s)]
                    ELSE [scan[s] EXCEPT !.hosts = scan[s].hosts + 1]]
      /\ UNCHANGED <<net, avoid, granted, phase, mail, enrolled, usedPorts, blind>>
  BY DEF Scans, Binds, treeVars
<1>2. /\ scan[s].range # "none" /\ scan[s].port \notin avoid[s]
      /\ Bound(s) \subseteq Nat \X Addresses
      /\ Bound(s) = Claims(PortsOf(s) \cup ToSet(scan[s].run))
                      \cup {<<scan[s].port, Hosts[i]>> : i \in 1 .. scan[s].hosts + 1}
      /\ LastAddress(s) => Bound(s) = Claims(PortsOf(s) \cup ToSet(FoundRange(s)))
  BY <1>1, BoundFacts
<1>3. HasServer(s) /\ ChainTypeOK /\ scan[s] \in ScanType /\ Searching(s)
  BY <1>1, <1>2, SearchFacts
<1>4. /\ ToSet(FoundRange(s)) = ToSet(scan[s].run) \cup {scan[s].port}
      /\ FoundRange(s) \in Seq(Nat) /\ ToSet(scan[s].run) \subseteq Nat
  BY <1>3, PortsType
<1>5. Hosts' = Hosts /\ PortsOf(s)' = PortsOf(s)
  BY <1>1 DEF Hosts, PortsOf
<1>6. claimed'[s] = Bound(s) /\ claimed' = [claimed EXCEPT ![s] = claimed'[s]]
  BY <1>1, <1>3 DEF ChainTypeOK
<1>7. phase' = [phase EXCEPT ![s] = "launching"] /\ phase'[s] = "launching"
  BY <1>1, <1>3 DEF ChainTypeOK
<1>8. scan[s].port \in Nat /\ scan[s].hosts \in Nat /\ Len(Hosts) \in Nat
  BY <1>3, HostsFacts DEF ScanType
<1>9. CASE LastAddress(s)
  <2>1. /\ scan' = [scan EXCEPT ![s] = scan'[s]] /\ scan'[s] \in ScanType
        /\ scan'[s].range = scan[s].range /\ scan'[s].port = scan[s].port + 1
        /\ scan'[s].hosts = 0 /\ scan'[s].run = FoundRange(s)
    <3> DEFINE next == [scan[s] EXCEPT !.port = scan[s].port + 1, !.hosts = 0, !.run = FoundRange(s)]
    <3>1. scan' = [scan EXCEPT ![s] = next]
      BY <1>1, <1>9
    <3>2. /\ next \in ScanType /\ next.range = scan[s].range /\ next.port = scan[s].port + 1
          /\ next.hosts = 0 /\ next.run = FoundRange(s)
      <4> DEFINE sc == scan[s]
                 p  == scan[s].port + 1
                 q  == FoundRange(s)
      <4>1. sc \in ScanType /\ p \in Nat /\ q \in Seq(Nat)
        BY <1>3, <1>4, <1>8
      <4>2. next = [sc EXCEPT !.port = p, !.hosts = 0, !.run = q]
        OBVIOUS
      <4> HIDE DEF next, sc, p, q
      <4>3. next \in ScanType
        BY <4>1, <4>2 DEF ScanType
      <4>4. next.range = sc.range /\ next.port = p
        BY <4>1, <4>2 DEF ScanType
      <4>5. next.hosts = 0 /\ next.run = q
        BY <4>1, <4>2 DEF ScanType
      <4> QED
        BY <4>3, <4>4, <4>5 DEF sc, p, q
    <3> HIDE DEF next
    <3>3. scan'[s] = next /\ scan' = [scan EXCEPT ![s] = scan'[s]]
      BY <1>3, <3>1 DEF ChainTypeOK
    <3> QED
      BY <3>2, <3>3
  <2>2. Searching(s)'
    <3>1. \A p \in ToSet(scan'[s].run) : p < scan'[s].port /\ p \notin avoid'[s]
      BY <1>1, <1>2, <1>3, <1>4, <1>8, <2>1 DEF Searching
    <3> QED
      BY <1>1, <1>3, <1>5, <1>7, <1>8, <2>1, <3>1 DEF Searching, Early
  <2>3. Holds(s)'
    <3>1. Trying(scan[s])' = {}
      BY <2>1 DEF Trying
    <3> QED
      BY <1>2, <1>5, <1>6, <1>9, <2>1, <3>1 DEF Holds, Claims
  <2> QED
    BY <1>1, <1>2, <1>6, <1>7, <2>1, <2>2, <2>3, SearchStep
<1>10. CASE ~LastAddress(s)
  <2>1. /\ scan' = [scan EXCEPT ![s] = scan'[s]] /\ scan'[s] \in ScanType
        /\ scan'[s].range = scan[s].range /\ scan'[s].port = scan[s].port
        /\ scan'[s].hosts = scan[s].hosts + 1 /\ scan'[s].run = scan[s].run
    <3> DEFINE next == [scan[s] EXCEPT !.hosts = scan[s].hosts + 1]
    <3>1. scan' = [scan EXCEPT ![s] = next]
      BY <1>1, <1>10
    <3>2. scan[s].run \in Seq(Nat)
      BY <1>3 DEF ScanType
    <3>3. /\ next \in ScanType /\ next.range = scan[s].range /\ next.port = scan[s].port
          /\ next.hosts = scan[s].hosts + 1 /\ next.run = scan[s].run
      BY <1>3, <1>8, <3>2 DEF ScanType
    <3> HIDE DEF next
    <3>4. scan'[s] = next /\ scan' = [scan EXCEPT ![s] = scan'[s]]
      BY <1>3, <3>1 DEF ChainTypeOK
    <3> QED
      BY <3>3, <3>4
  <2>2. scan'[s].hosts < Len(Hosts)
    BY <1>3, <1>8, <1>10, <2>1 DEF Searching, LastAddress
  <2>3. Searching(s)'
    BY <1>1, <1>2, <1>3, <1>5, <1>7, <2>1, <2>2 DEF Searching, Early
  <2>4. Holds(s)'
    <3>1. Trying(scan[s])' = {<<scan[s].port, Hosts[i]>> : i \in 1 .. scan[s].hosts + 1}
      BY <1>5, <2>1 DEF Trying
    <3> QED
      BY <1>2, <1>5, <1>6, <2>1, <3>1 DEF Holds, Claims
  <2> QED
    BY <1>1, <1>2, <1>6, <1>7, <2>1, <2>3, <2>4, SearchStep
<1> QED
  BY <1>9, <1>10

\* What is given back when a port is skipped is not among what the session keeps: the
\* addresses tried are of a port it was not granted, and so are those of a broken run.
LEMMA SkipsStep ==
  ASSUME IInv, NEW s \in Adapters, Scans(s), Skips(s)
  PROVE  IInv'
<1> DEFINE breaks == Consecutive(scan[s].range) /\ scan[s].run # << >>
           run    == IF breaks THEN << >> ELSE scan[s].run
           back   == IF breaks THEN Claims(ToSet(scan[s].run)) ELSE {}
<1>1. /\ phase[s] = "launching" /\ scan[s].range # "none"
      /\ claimed' = [claimed EXCEPT ![s] = claimed[s] \ (Trying(scan[s]) \cup back)]
      /\ scan' = [scan EXCEPT ![s] = [scan[s] EXCEPT !.port = scan[s].port + 1, !.hosts = 0, !.run = run]]
      /\ UNCHANGED <<net, avoid, granted, phase, mail, enrolled, usedPorts, blind>>
  BY DEF Scans, Skips, treeVars
<1>2. /\ HasServer(s) /\ ChainTypeOK /\ scan[s] \in ScanType /\ Searching(s)
      /\ claimed[s] = Claims(PortsOf(s) \cup ToSet(scan[s].run)) \cup Trying(scan[s])
  BY <1>1, SearchFacts
<1>3. ToSet(scan[s].run) \subseteq Nat /\ PortsOf(s) \subseteq Nat /\ ToSet(<< >>) = {}
  BY <1>2, PortsType DEF ToSet
<1>4. Hosts' = Hosts /\ PortsOf(s)' = PortsOf(s)
  BY <1>1 DEF Hosts, PortsOf
<1>5. phase' = [phase EXCEPT ![s] = "launching"] /\ phase'[s] = "launching"
  BY <1>1, <1>2 DEF ChainTypeOK
<1>6. scan[s].port \in Nat /\ scan[s].hosts \in Nat /\ Len(Hosts) \in Nat /\ Len(Hosts) > 0
  BY <1>2, HostsFacts DEF ScanType
<1>7. run \in Seq(Nat) /\ ToSet(run) \subseteq ToSet(scan[s].run)
  BY <1>2, <1>3 DEF ScanType
<1>8. /\ scan' = [scan EXCEPT ![s] = scan'[s]] /\ scan'[s] \in ScanType
      /\ scan'[s].range = scan[s].range /\ scan'[s].port = scan[s].port + 1
      /\ scan'[s].hosts = 0 /\ scan'[s].run = run
      /\ claimed'[s] = claimed[s] \ (Trying(scan[s]) \cup back)
      /\ claimed' = [claimed EXCEPT ![s] = claimed'[s]]
  <2> DEFINE next == [scan[s] EXCEPT !.port = scan[s].port + 1, !.hosts = 0, !.run = run]
  <2>1. scan' = [scan EXCEPT ![s] = next]
    BY <1>1
  <2> HIDE DEF run, back
  <2>2. /\ next \in ScanType /\ next.range = scan[s].range /\ next.port = scan[s].port + 1
        /\ next.hosts = 0 /\ next.run = run
    <3> DEFINE sc == scan[s]
               p  == scan[s].port + 1
    <3>1. sc \in ScanType /\ p \in Nat /\ run \in Seq(Nat)
      BY <1>2, <1>6, <1>7
    <3>2. next = [sc EXCEPT !.port = p, !.hosts = 0, !.run = run]
      OBVIOUS
    <3> HIDE DEF next, sc, p
    <3>3. next \in ScanType
      BY <3>1, <3>2 DEF ScanType
    <3>4. next.range = sc.range /\ next.port = p
      BY <3>1, <3>2 DEF ScanType
    <3>5. next.hosts = 0 /\ next.run = run
      BY <3>1, <3>2 DEF ScanType
    <3> QED
      BY <3>3, <3>4, <3>5 DEF sc, p
  <2> HIDE DEF next
  <2>3. scan'[s] = next /\ scan' = [scan EXCEPT ![s] = scan'[s]]
    BY <1>2, <2>1 DEF ChainTypeOK
  <2>4. /\ claimed'[s] = claimed[s] \ (Trying(scan[s]) \cup back)
        /\ claimed' = [claimed EXCEPT ![s] = claimed'[s]]
    BY <1>1, <1>2 DEF ChainTypeOK
  <2> QED
    BY <2>2, <2>3, <2>4
<1>9. claimed'[s] \subseteq Nat \X Addresses
  BY <1>2, <1>8 DEF ChainTypeOK
<1>10. Searching(s)'
  <2>1. \A p \in ToSet(run) : p < scan[s].port + 1 /\ p \notin avoid[s]
    BY <1>2, <1>3, <1>6, <1>7 DEF Searching
  <2> HIDE DEF run
  <2> QED
    BY <1>1, <1>2, <1>4, <1>5, <1>6, <1>8, <2>1 DEF Searching, Early
<1>11. Trying(scan[s]) \cap Claims(PortsOf(s) \cup ToSet(scan[s].run)) = {}
  <2>1. CASE scan[s].hosts = 0
    <3>1. 1 .. scan[s].hosts = {}
      BY <2>1
    <3> QED
      BY <3>1 DEF Trying
  <2>2. CASE scan[s].hosts > 0
    <3>1. scan[s].port \notin PortsOf(s) \cup ToSet(scan[s].run)
      BY <1>2, <1>6, <2>2 DEF Searching
    <3> QED
      BY <3>1 DEF Trying, Claims
  <2>3. scan[s].hosts = 0 \/ scan[s].hosts > 0
    BY <1>6
  <2> QED
    BY <2>1, <2>2, <2>3
<1>12. Claims(PortsOf(s)) \cap Claims(ToSet(scan[s].run)) = {}
  <2>1. PortsOf(s) \cap ToSet(scan[s].run) = {}
    BY <1>2 DEF Searching
  <2> QED
    BY <2>1 DEF Claims
<1>13. Claims(PortsOf(s) \cup ToSet(scan[s].run)) = Claims(PortsOf(s)) \cup Claims(ToSet(scan[s].run))
  BY DEF Claims
<1>14. claimed'[s] = Claims(PortsOf(s) \cup ToSet(run))
  <2>1. CASE breaks
    <3>1. back = Claims(ToSet(scan[s].run)) /\ ToSet(run) = {}
      BY <1>3, <2>1
    <3> HIDE DEF run, back, breaks
    <3>2. PortsOf(s) \cup ToSet(run) = PortsOf(s)
      BY <3>1
    <3> QED
      BY <1>2, <1>8, <1>11, <1>12, <1>13, <3>1, <3>2
  <2>2. CASE ~breaks
    <3>1. back = {} /\ run = scan[s].run
      BY <2>2
    <3> HIDE DEF run, back, breaks
    <3> QED
      BY <1>2, <1>8, <1>11, <3>1
  <2> QED
    BY <2>1, <2>2
<1>15. Holds(s)'
  <2>1. Trying(scan[s])' = {}
    BY <1>8 DEF Trying
  <2> HIDE DEF run
  <2> QED
    BY <1>1, <1>4, <1>8, <1>14, <2>1 DEF Holds, Claims
<1> QED
  BY <1>1, <1>5, <1>8, <1>9, <1>10, <1>15, SearchStep

\* A range is granted: its ports are none of those to be avoided, so they are no other
\* session's that the session was told of; and they are announced.
LEMMA AllocatedStep ==
  ASSUME IInv, NEW s \in Adapters, Allocated(s)
  PROVE  IInv'
<1> DEFINE found == ToSet(FoundRange(s))
           event == Event("ports", s)
<1>1. /\ phase[s] = "launching" /\ CanBind(s) /\ LastAddress(s)
      /\ granted' = [granted EXCEPT ![s] = Append(@, FoundRange(s))]
      /\ avoid' = [avoid EXCEPT ![s] = @ \cup found]
      /\ scan' = [scan EXCEPT ![s] = IF @.range = "gdb" THEN StartOf("rtt") ELSE NoScan]
      /\ claimed' = [claimed EXCEPT ![s] = IF scan[s].range = "gdb" THEN Bound(s) ELSE {}]
      /\ Tell(s, event)
      /\ phase' = IF scan[s].range = "rtt" THEN [phase EXCEPT ![s] = "released"] ELSE phase
      /\ UNCHANGED <<net, enrolled, usedPorts, blind>>
  BY DEF Allocated, Finds, Enter, treeVars
<1>2. /\ scan[s].range # "none" /\ scan[s].port \notin avoid[s]
      /\ Bound(s) \subseteq Nat \X Addresses
      /\ Bound(s) = Claims(PortsOf(s) \cup found)
  BY <1>1, BoundFacts
<1>3. HasServer(s) /\ ChainTypeOK /\ scan[s] \in ScanType /\ Searching(s)
  BY <1>1, <1>2, SearchFacts
<1>4. /\ found = ToSet(scan[s].run) \cup {scan[s].port} /\ found \subseteq Nat
      /\ FoundRange(s) \in Seq(Nat)
  BY <1>3, PortsType
<1>5. found \cap avoid[s] = {}
  BY <1>2, <1>3, <1>4 DEF Searching
<1>6. \/ scan[s].range = "gdb" /\ granted[s] = << >>
      \/ scan[s].range = "rtt" /\ Len(granted[s]) = 1
  BY <1>1, <1>3 DEF Searching
<1>7. Len(granted[s]) < 2 /\ granted[s] \in Seq(Seq(Nat))
  <2>1. granted[s] \in Seq(Seq(Nat))
    BY <1>3 DEF ChainTypeOK
  <2>2. Len(granted[s]) < 2
    <3>1. CASE granted[s] = << >>
      <4>1. Len(<< >>) = 0
        OBVIOUS
      <4>2. Len(granted[s]) = 0
        BY <3>1, <4>1, Zenon
      <4> QED
        BY <4>2
    <3>2. CASE Len(granted[s]) = 1
      BY <3>2
    <3> QED
      BY <1>6, <3>1, <3>2
  <2> QED
    BY <2>1, <2>2
<1>8. /\ Append(granted[s], FoundRange(s)) \in Seq(Seq(Nat))
      /\ ToSet(Append(granted[s], FoundRange(s))) = ToSet(granted[s]) \cup {FoundRange(s)}
      /\ Len(Append(granted[s], FoundRange(s))) = Len(granted[s]) + 1
  BY <1>4, <1>7, AppendedSet, AppendProperties
<1>9. /\ granted' \in [Adapters -> Seq(Seq(Nat))]
      /\ granted'[s] = Append(granted[s], FoundRange(s))
      /\ \A t \in Adapters \ {s} : granted'[t] = granted[t]
  BY <1>1, <1>3, <1>8 DEF ChainTypeOK
<1>10. /\ PortsOf(s)' = PortsOf(s) \cup found
       /\ \A t \in Adapters \ {s} : PortsOf(t)' = PortsOf(t)
  BY <1>8, <1>9 DEF PortsOf
<1>11. /\ event \in EventType /\ event.kind = "ports" /\ event.ports = found
  BY <1>3, EventIsEvent
<1>12. /\ mail' \in [Adapters -> Seq(EventType)]
       /\ \A t \in Adapters : ToSet(mail[t]) \subseteq ToSet(mail'[t])
       /\ \A t \in Adapters : ToSet(mail'[t]) \subseteq ToSet(mail[t]) \cup IF t = s THEN {event} ELSE {}
       /\ event \in ToSet(mail'[s])
  BY <1>1, <1>3, <1>11, MailTold
<1>13. /\ avoid' \in [Adapters -> SUBSET Nat] /\ avoid'[s] = avoid[s] \cup found
       /\ \A t \in Adapters \ {s} : avoid'[t] = avoid[t]
  BY <1>1, <1>3, <1>4 DEF ChainTypeOK
<1>14. /\ phase' \in [Adapters -> Phases]
       /\ phase'[s] = IF scan[s].range = "rtt" THEN "released" ELSE "launching"
       /\ \A t \in Adapters \ {s} : phase'[t] = phase[t]
  BY <1>1, <1>3 DEF ChainTypeOK, Phases
<1>15. /\ NoScan \in ScanType /\ NoScan.range = "none" /\ NoScan.hosts = 0
       /\ ToSet(NoScan.run) = {}
  BY DEF NoScan, ScanType, ToSet
<1>16. /\ scan' \in [Adapters -> ScanType]
       /\ scan'[s] = IF scan[s].range = "gdb" THEN StartOf("rtt") ELSE NoScan
       /\ \A t \in Adapters \ {s} : scan'[t] = scan[t]
  BY <1>1, <1>3, <1>15, StartOfFacts DEF ChainTypeOK
<1>17. /\ claimed' \in [Adapters -> SUBSET (Nat \X Addresses)]
       /\ claimed'[s] = IF scan[s].range = "gdb" THEN Bound(s) ELSE {}
       /\ \A t \in Adapters \ {s} : claimed'[t] = claimed[t]
  BY <1>1, <1>2, <1>3 DEF ChainTypeOK
<1> HIDE DEF found, event
<1>18. ChainTypeOK'
  BY <1>1, <1>3, <1>9, <1>12, <1>13, <1>14, <1>16, <1>17 DEF ChainTypeOK
<1>19. AnnouncedInv'
  <2> SUFFICES ASSUME NEW t \in Adapters, NEW p \in PortsOf(t)' PROVE Announced(t, p)'
    BY DEF AnnouncedInv
  <2>1. CASE p \in PortsOf(t)
    BY <1>1, <1>12, <2>1 DEF IInv, AnnouncedInv, Announced
  <2>2. CASE t = s /\ p \in found
    BY <1>11, <1>12, <2>2 DEF Announced
  <2> QED
    BY <1>10, <2>1, <2>2
<1>20. EnrolledInv'
  <2>1. \A t \in Adapters : phase[t] = "over" => phase'[t] = "over"
    BY <1>1, <1>14
  <2> QED
    BY <1>1, <1>11, <1>12, <2>1, EnrolledKept DEF IInv
<1>21. Searching(s)' /\ Holds(s)'
  <2>1. Hosts' = Hosts /\ Len(Hosts) > 0
    BY <1>1, HostsFacts DEF Hosts
  <2>2. PortsOf(s)' \subseteq avoid'[s]
    BY <1>3, <1>10, <1>13 DEF Searching
  <2>3. CASE scan[s].range = "gdb"
    <3>1. /\ scan'[s].range = "rtt" /\ scan'[s].hosts = 0 /\ ToSet(scan'[s].run) = {}
          /\ Trying(scan[s])' = {}
      <4>1. scan'[s] = StartOf("rtt")
        BY <1>16, <2>3
      <4> QED
        BY <4>1, StartOfFacts DEF Trying
    <3>2. Len(granted'[s]) = 1 /\ phase'[s] = "launching" /\ claimed'[s] = Bound(s)
      BY <1>6, <1>8, <1>9, <1>14, <1>17, <2>3
    <3>3. Searching(s)'
      BY <1>3, <2>1, <2>2, <3>1, <3>2 DEF Searching, Early
    <3>4. Holds(s)'
      BY <1>2, <1>10, <2>1, <3>1, <3>2 DEF Holds, Claims
    <3> QED
      BY <3>3, <3>4
  <2>4. CASE scan[s].range = "rtt"
    <3>1. scan'[s] = NoScan /\ phase'[s] = "released" /\ claimed'[s] = {}
      BY <1>14, <1>16, <1>17, <2>4
    <3>2. Searching(s)'
      BY <1>3, <1>15, <2>1, <2>2, <3>1 DEF Searching, Early
    <3>3. Holds(s)'
      BY <1>15, <3>1 DEF Holds
    <3> QED
      BY <3>2, <3>3
  <2> QED
    BY <1>6, <2>3, <2>4
<1>22. ASSUME NEW t \in Adapters PROVE Searching(t)' /\ Holds(t)'
  <2>1. CASE t # s
    BY <1>1, <1>9, <1>13, <1>14, <1>16, <1>17, <2>1, OthersSearch
  <2> QED
    BY <1>21, <2>1
<1>23. ApartInv'
  <2>1. \A t \in Adapters : Lives(t)' => Lives(t)
    BY <1>1, <1>14 DEF Lives, Running
  <2>2. ASSUME NEW t \in Adapters, t # s PROVE Clear(t, s) => Clear(t, s)'
    BY <1>5, <1>9, <1>10, <1>13, <2>2 DEF Clear
  <2>3. \A t \in Adapters : ~Clear(s, t)
    BY <1>7 DEF Clear
  <2>4. ASSUME NEW a \in Adapters, NEW b \in Adapters, a # s, b # s
        PROVE  Clear(a, b) => Clear(a, b)'
    BY <1>9, <1>10, <1>13, <2>4 DEF Clear
  <2>5. ASSUME NEW a \in Adapters, NEW b \in Adapters, a # b, Lives(a)', Lives(b)',
               HasServer(a), HasServer(b)
        PROVE  a \in blind'[b] \/ b \in blind'[a] \/ Clear(a, b)' \/ Clear(b, a)'
    <3>1. a \in blind[b] \/ b \in blind[a] \/ Clear(a, b) \/ Clear(b, a)
      BY <2>1, <2>5 DEF IInv, ApartInv
    <3> QED
      BY <1>1, <2>2, <2>3, <2>4, <2>5, <3>1
  <2> QED
    BY <2>5 DEF ApartInv
<1> QED
  BY <1>18, <1>19, <1>20, <1>22, <1>23 DEF IInv, ScanInv, HoldsWhatItGathers, Holds

-----------------------------------------------------------------------------

LEMMA ChainInitIInv ==
  ASSUME ChainInit
  PROVE  IInv
<1> USE DEF ChainInit, ScanInit
<1>1. /\ NoScan \in ScanType /\ NoScan.range = "none" /\ NoScan.hosts = 0
      /\ ToSet(NoScan.run) = {}
  BY DEF NoScan, ScanType, ToSet
<1>2. ASSUME NEW s \in Adapters
      PROVE  /\ granted[s] = << >> /\ PortsOf(s) = {} /\ scan[s] = NoScan /\ claimed[s] = {}
             /\ mail[s] = << >> /\ ToSet(mail[s]) = {}
             /\ phase[s] \in {"off", "absent"}
  BY DEF PortsOf, ToSet
<1>3. ChainTypeOK
  <2>1. /\ claimed \in [Adapters -> SUBSET (Nat \X Addresses)]
        /\ avoid \in [Adapters -> SUBSET Nat] /\ scan \in [Adapters -> ScanType]
    BY <1>1
  <2>2. granted \in [Adapters -> Seq(Seq(Nat))] /\ mail \in [Adapters -> Seq(EventType)]
    BY EmptySeq
  <2>3. phase \in [Adapters -> Phases]
    BY DEF Phases
  <2>4. /\ enrolled \subseteq Adapters /\ usedPorts \in [Adapters -> SUBSET Nat]
        /\ blind \in [Adapters -> SUBSET Adapters]
    OBVIOUS
  <2> QED
    BY <2>1, <2>2, <2>3, <2>4 DEF ChainTypeOK
<1>4. ScanInv
  <2> HIDE DEF ChainInit, ScanInit
  <2>1. Len(Hosts) > 0
    BY HostsFacts
  <2> QED
    BY <1>1, <1>2, <2>1 DEF ScanInv, Searching
<1>5. HoldsWhatItGathers
  BY <1>1, <1>2 DEF HoldsWhatItGathers
<1>6. AnnouncedInv /\ EnrolledInv
  BY <1>2 DEF AnnouncedInv, EnrolledInv
<1>7. ApartInv
  BY <1>2 DEF ApartInv, Lives, Running
<1> QED
  BY <1>3, <1>4, <1>5, <1>6, <1>7 DEF IInv

LEMMA ChainNextIInv ==
  ASSUME IInv, [ChainNext]_chainVars
  PROVE  IInv'
<1>1. CASE UNCHANGED chainVars
  BY <1>1, SearchUntouched, AnnouncedKept, EnrolledKept, ApartKept
     DEF chainVars, scanVars, treeVars, IInv, ChainTypeOK, Lives, Running
<1>2. ASSUME NEW s \in Adapters, Scans(s) PROVE IInv'
  BY <1>2, BindsStep, SkipsStep DEF Scans, Searches
<1>3. ASSUME NEW s \in Adapters, Quits(s) PROVE IInv'
  BY <1>3, FinishStep DEF Quits
<1>4. ASSUME NEW s \in Adapters, Fails(s) PROVE IInv'
  BY <1>4, FinishStep DEF Fails, scanVars
<1>5. ASSUME NEW s \in Adapters, ComesUp(s) PROVE IInv'
  BY <1>2, <1>5, ResolvedStep, LaunchedStep, AllocatedStep, ServerUpStep, GdbUpStep DEF ComesUp
<1>6. ASSUME NEW s \in Adapters, Extension(s) PROVE IInv'
  BY <1>6, ShownStep, PortsUsedStep, LaunchesChainedStep, TerminatingStep, RemovedStep DEF Extension
<1>7. ASSUME ChainProgress PROVE IInv'
  BY <1>4, <1>5, <1>6, <1>7, DisconnectsStep, ExitsStep DEF ChainProgress
<1> QED
  BY <1>1, <1>3, <1>7 DEF ChainNext

\* Whatever the search meets on its way, a session listens on the ports it has gathered
\* and been granted, on each address it takes for separate, and on nothing else.
THEOREM SearchHoldsWhatItGathers == ChainSpec => []HoldsWhatItGathers
<1>1. IInv => HoldsWhatItGathers
  BY DEF IInv
<1> QED
  BY <1>1, ChainInitIInv, ChainNextIInv, PTL DEF ChainSpec

\* Two sessions that live at the same time have no port in common, in whatever order they
\* launch each other, search, are announced and end, unless one was resolved while the
\* ports of the other were still to be found or to be heard of.
THEOREM PortsStayApart == ChainSpec => []PortsKeptApart
<1>1. IInv => PortsKeptApart
  <2> SUFFICES ASSUME IInv, NEW s \in Adapters, NEW t \in Adapters, s # t, Lives(s), Lives(t),
                      PortsOf(s) \cap PortsOf(t) # {}
               PROVE  s \in blind[t] \/ t \in blind[s]
    BY DEF PortsKeptApart
  <2>1. ASSUME NEW a \in Adapters, ~HasServer(a) PROVE PortsOf(a) = {}
    <3>1. granted[a] = << >>
      BY <2>1 DEF IInv, ScanInv, Searching
    <3> QED
      BY <3>1 DEF PortsOf, ToSet
  <2>2. ~Clear(s, t) /\ ~Clear(t, s)
    BY DEF Clear
  <2> QED
    BY <2>1, <2>2 DEF IInv, ApartInv
<1> QED
  BY <1>1, ChainInitIInv, ChainNextIInv, PTL DEF ChainSpec

-----------------------------------------------------------------------------
(* Children that end with their parent *)

Leaving == {"leaving", "over"}
Ending  == {"ending", "leaving", "over"}
Begun   == {"launching", "released", "served", "up"} \cup Ending

\* What a session says last that its children hear of is that it is about to end.
LastWord(p) ==
  \A i \in 1 .. Len(mail[p]) : mail[p][i].kind = "terminating" =>
    /\ phase[p] \in Leaving
    /\ \A j \in i + 1 .. Len(mail[p]) : mail[p][j].kind \notin {"server", "gdb"}

Quiet(p, kinds) == \A e \in ToSet(mail[p]) : e.kind \notin kinds

\* When the extension has heard that the parent ends, the child ends too, or was not in
\* the tree, or has yet to be launched and will not be.
Follows(s) ==
  LET p == ParentOf(s)
  IN  phase[p] \in Leaving /\ Quiet(p, {"terminating"}) =>
        \/ s \in missed
        \/ phase[s] \in Ending
        \/ phase[s] \in {"absent", "off"} /\ Quiet(p, {"server", "gdb"})

TreeInv == /\ tree \subseteq Adapters \X Adapters
           /\ \A e \in tree : phase[e[2]] \in Begun

FollowInv ==
  /\ \A p \in Adapters : LastWord(p)
  /\ TreeInv
  /\ \A s \in Managed : Follows(s)

LEMMA Family ==
  ASSUME NEW s \in Adapters, IsChild(s)
  PROVE  /\ ParentOf(s) \in Adapters /\ s \in Children(ParentOf(s))
         /\ \A p \in Adapters : s \in Children(p) => p = ParentOf(s)
BY FamilyAssumption DEF IsChild, ParentOf

LEMMA ManagedAreChildren ==
  ASSUME NEW s \in Managed
  PROVE  s \in Adapters /\ IsChild(s)
BY FamilyAssumption, ChainAssumption DEF IsChild

LEMMA ParentLaunches ==
  ASSUME NEW p \in Adapters, NEW s \in Children(p)
  PROVE  Launches[p] # << >>
<1>1. ToSet(<< >>) = {}
  BY DEF ToSet
<1> QED BY <1>1 DEF Children

\* A further event, and the first that is taken, in the mail of one session.
LEMMA WordAdded ==
  ASSUME NEW p \in Adapters, NEW e \in EventType, mail[p] \in Seq(EventType), LastWord(p),
         mail'[p] = Append(mail[p], e),
         phase[p] \in Leaving => phase'[p] \in Leaving,
         e.kind = "terminating" => phase'[p] \in Leaving,
         e.kind \in {"server", "gdb"} => phase[p] \notin Leaving
  PROVE  LastWord(p)'
<1> DEFINE q == mail[p]
           r == mail'[p]
<1>1. /\ Len(q) \in Nat /\ Len(r) = Len(q) + 1
      /\ \A i \in 1 .. Len(q) : r[i] = q[i]
      /\ r[Len(q) + 1] = e
  BY AppendProperties, LenProperties
<1> SUFFICES ASSUME NEW i \in 1 .. Len(r), r[i].kind = "terminating"
             PROVE  /\ phase'[p] \in Leaving
                    /\ \A j \in i + 1 .. Len(r) : r[j].kind \notin {"server", "gdb"}
  BY DEF LastWord
<1>2. CASE i = Len(q) + 1
  <2>1. i + 1 .. Len(r) = {}
    BY <1>1, <1>2
  <2> QED BY <1>1, <1>2, <2>1
<1>3. CASE i # Len(q) + 1
  <2>1. i \in 1 .. Len(q) /\ q[i].kind = "terminating"
    BY <1>1, <1>3
  <2>2. /\ phase[p] \in Leaving
        /\ \A j \in i + 1 .. Len(q) : q[j].kind \notin {"server", "gdb"}
    BY <2>1 DEF LastWord
  <2>3. ASSUME NEW j \in i + 1 .. Len(r)
        PROVE  r[j].kind \notin {"server", "gdb"}
    <3>1. CASE j = Len(q) + 1
      BY <1>1, <2>2, <3>1
    <3>2. CASE j # Len(q) + 1
      <4>1. j \in i + 1 .. Len(q) /\ j \in 1 .. Len(q)
        BY <1>1, <2>1, <3>2
      <4> QED BY <1>1, <2>2, <4>1
    <3> QED BY <3>1, <3>2
  <2> QED BY <2>2, <2>3
<1> QED BY <1>2, <1>3

LEMMA WordTaken ==
  ASSUME NEW p \in Adapters, mail[p] \in Seq(EventType), mail[p] # << >>, LastWord(p),
         mail'[p] = Tail(mail[p]),
         phase[p] \in Leaving => phase'[p] \in Leaving
  PROVE  /\ LastWord(p)'
         /\ Head(mail[p]).kind = "terminating" =>
              \A e \in ToSet(mail'[p]) : e.kind \notin {"server", "gdb"}
<1> DEFINE q == mail[p]
           r == mail'[p]
<1>1. /\ r \in Seq(EventType) /\ Len(q) \in Nat /\ Len(r) = Len(q) - 1 /\ Len(r) \in Nat
      /\ \A i \in 1 .. Len(r) : r[i] = q[i + 1]
      /\ Head(q) = q[1] /\ 1 \in 1 .. Len(q)
  BY HeadTailProperties, EmptySeq, LenProperties
<1>2. ASSUME NEW i \in 1 .. Len(r), r[i].kind = "terminating"
      PROVE  /\ phase'[p] \in Leaving
             /\ \A j \in i + 1 .. Len(r) : r[j].kind \notin {"server", "gdb"}
  <2>1. i + 1 \in 1 .. Len(q) /\ q[i + 1].kind = "terminating"
    BY <1>1, <1>2
  <2>2. /\ phase[p] \in Leaving
        /\ \A j \in (i + 1) + 1 .. Len(q) : q[j].kind \notin {"server", "gdb"}
    BY <2>1 DEF LastWord
  <2>3. ASSUME NEW j \in i + 1 .. Len(r)
        PROVE  r[j].kind \notin {"server", "gdb"}
    <3>1. j \in 1 .. Len(r) /\ j + 1 \in (i + 1) + 1 .. Len(q)
      BY <1>1
    <3> QED BY <1>1, <2>2, <3>1
  <2> QED BY <2>2, <2>3
<1>3. ASSUME q[1].kind = "terminating", NEW e \in ToSet(r)
      PROVE  e.kind \notin {"server", "gdb"}
  <2>1. PICK j \in 1 .. Len(r) : e = r[j]
    BY <1>1, LenProperties DEF ToSet
  <2>2. j + 1 \in 1 + 1 .. Len(q) /\ e = q[j + 1]
    BY <1>1, <2>1
  <2> QED BY <1>1, <1>3, <2>2 DEF LastWord
<1> QED BY <1>1, <1>2, <1>3 DEF LastWord

LEMMA WordStays ==
  ASSUME NEW p, LastWord(p), mail'[p] = mail[p],
         phase[p] \in Leaving => phase'[p] \in Leaving
  PROVE  LastWord(p)'
BY DEF LastWord

\* One session goes on, and may say so.
LEMMA OneGoesOn ==
  ASSUME ChainTypeOK, FollowInv, NEW s \in Adapters, NEW e \in EventType,
         UNCHANGED <<tree, missed>>,
         \A t \in Adapters : t # s => phase'[t] = phase[t] /\ mail'[t] = mail[t],
         mail'[s] = mail[s] \/ mail'[s] = Append(mail[s], e),
         e.kind = "terminating" /\ mail'[s] # mail[s] => phase'[s] \in Leaving,
         e.kind \in {"server", "gdb"} => phase[s] \notin Leaving,
         phase[s] \in Leaving => phase'[s] \in Leaving,
         phase[s] \in Ending => phase'[s] \in Ending,
         phase[s] \in Begun => phase'[s] \in Begun,
         phase[s] \in {"absent", "off"} /\ IsChild(s) => phase'[s] = phase[s],
         phase'[s] \in Leaving /\ phase[s] \notin Leaving =>
           Launches[s] = << >> \/ (e.kind = "terminating" /\ mail'[s] = Append(mail[s], e))
  PROVE  FollowInv'
<1>1. /\ \A p \in Adapters : mail[p] \in Seq(EventType) /\ LastWord(p)
      /\ TreeInv
  BY DEF ChainTypeOK, FollowInv
<1>2. ASSUME NEW p \in Adapters
      PROVE  LastWord(p)'
  <2>1. CASE mail'[p] = mail[p]
    BY <1>1, <2>1, WordStays
  <2>2. CASE mail'[p] # mail[p]
    <3>1. p = s /\ mail'[p] = Append(mail[p], e)
      BY <2>2
    <3> QED BY <1>1, <2>2, <3>1, WordAdded
  <2> QED BY <2>1, <2>2
<1>3. TreeInv'
  BY <1>1 DEF TreeInv
<1>4. ToSet(mail[s]) \subseteq ToSet(mail'[s])
      /\ ToSet(mail'[s]) \subseteq ToSet(mail[s]) \cup {e}
      /\ (mail'[s] = Append(mail[s], e) => e \in ToSet(mail'[s]))
  <2>1. ToSet(Append(mail[s], e)) = ToSet(mail[s]) \cup {e}
    BY <1>1, AppendedSet
  <2>2. CASE mail'[s] = mail[s] /\ mail'[s] # Append(mail[s], e)
    BY <2>2
  <2>3. CASE mail'[s] = Append(mail[s], e)
    BY <2>1, <2>3
  <2> QED BY <2>2, <2>3
<1>5. ASSUME NEW c \in Managed
      PROVE  Follows(c)'
  <2> DEFINE p == ParentOf(c)
  <2>1. c \in Adapters /\ IsChild(c) /\ p \in Adapters /\ c \in Children(p) /\ Launches[p] # << >>
    BY ManagedAreChildren, Family, ParentLaunches
  <2>2. Follows(c)
    BY DEF FollowInv
  <2> SUFFICES ASSUME phase'[p] \in Leaving, Quiet(p, {"terminating"})'
               PROVE  \/ c \in missed
                      \/ phase'[c] \in Ending
                      \/ phase'[c] \in {"absent", "off"} /\ Quiet(p, {"server", "gdb"})'
    BY DEF Follows
  <2>3. phase[p] \in Leaving
    <3>1. CASE p = s
      BY <1>4, <2>1, <3>1 DEF Quiet
    <3>2. CASE p # s
      BY <2>1, <3>2
    <3> QED BY <3>1, <3>2
  <2>4. Quiet(p, {"terminating"})
    BY <1>4, <2>1 DEF Quiet
  <2>5. \/ c \in missed
        \/ phase[c] \in Ending
        \/ phase[c] \in {"absent", "off"} /\ Quiet(p, {"server", "gdb"})
    BY <2>2, <2>3, <2>4 DEF Follows
  <2>6. CASE phase[c] \in Ending
    BY <2>1, <2>6
  <2>7. CASE phase[c] \in {"absent", "off"} /\ Quiet(p, {"server", "gdb"})
    <3>1. phase'[c] = phase[c]
      BY <2>1, <2>7
    <3>2. Quiet(p, {"server", "gdb"})'
      BY <1>4, <2>1, <2>3, <2>7 DEF Quiet
    <3> QED BY <2>7, <3>1, <3>2
  <2> QED BY <2>5, <2>6, <2>7
<1> QED BY <1>2, <1>3, <1>5 DEF FollowInv

\* The mail of one session is taken, and nobody goes on.
LEMMA MailIsTaken ==
  ASSUME ChainTypeOK, NEW s \in Adapters, NEW kind, Arrives(s, kind)
  PROVE  /\ mail[s] \in Seq(EventType) /\ mail[s] # << >> /\ mail'[s] = Tail(mail[s])
         /\ Head(mail[s]).kind = kind
         /\ ToSet(mail[s]) = {Head(mail[s])} \cup ToSet(mail'[s])
         /\ \A t \in Adapters : t # s => mail'[t] = mail[t]
<1>1. mail \in [Adapters -> Seq(EventType)] /\ mail[s] # << >>
  BY DEF ChainTypeOK, Arrives
<1>2. mail' = [mail EXCEPT ![s] = Tail(mail[s])] /\ Head(mail[s]).kind = kind
  BY DEF Arrives
<1> QED BY <1>1, <1>2, TailSet

\* Mail is taken that is not of the end, the tree loses branches, and who goes on goes on
\* from "off", at the word of its parent.
LEMMA MailTakenFollows ==
  ASSUME ChainTypeOK, FollowInv, NEW s \in Adapters, NEW kind, Arrives(s, kind),
         kind # "terminating", tree' \subseteq tree, missed' = missed,
         \A t \in Adapters :
           \/ phase'[t] = phase[t]
           \/ /\ phase[t] = "off" /\ phase'[t] = "due"
              /\ kind \in {"server", "gdb"} /\ t \in Children(s)
  PROVE  FollowInv'
<1>1. /\ mail[s] \in Seq(EventType) /\ mail[s] # << >> /\ mail'[s] = Tail(mail[s])
      /\ Head(mail[s]).kind = kind
      /\ ToSet(mail[s]) = {Head(mail[s])} \cup ToSet(mail'[s])
      /\ \A t \in Adapters : t # s => mail'[t] = mail[t]
  BY MailIsTaken
<1>2. \A t \in Adapters : /\ phase[t] \in Leaving <=> phase'[t] \in Leaving
                          /\ phase[t] \in Ending => phase'[t] \in Ending
                          /\ phase[t] \in Begun => phase'[t] \in Begun
  BY DEF Leaving, Ending, Begun
<1>3. \A p \in Adapters : LastWord(p)'
  BY <1>1, <1>2, WordTaken, WordStays DEF FollowInv
<1>4. TreeInv'
  BY <1>2 DEF FollowInv, TreeInv
<1>5. ASSUME NEW c \in Managed
      PROVE  Follows(c)'
  <2> DEFINE p == ParentOf(c)
  <2>1. c \in Adapters /\ p \in Adapters /\ \A q \in Adapters : c \in Children(q) => q = p
    BY ManagedAreChildren, Family
  <2>2. Follows(c)
    BY DEF FollowInv
  <2> SUFFICES ASSUME phase'[p] \in Leaving, Quiet(p, {"terminating"})'
               PROVE  \/ c \in missed
                      \/ phase'[c] \in Ending
                      \/ phase'[c] \in {"absent", "off"} /\ Quiet(p, {"server", "gdb"})'
    BY DEF Follows
  <2>3. phase[p] \in Leaving /\ Quiet(p, {"terminating"})
    BY <1>1, <1>2, <2>1 DEF Quiet
  <2>4. \/ c \in missed
        \/ phase[c] \in Ending
        \/ phase[c] \in {"absent", "off"} /\ Quiet(p, {"server", "gdb"})
    BY <2>2, <2>3 DEF Follows
  <2>5. CASE phase[c] \in {"absent", "off"} /\ Quiet(p, {"server", "gdb"})
    <3>1. Quiet(p, {"server", "gdb"})'
      BY <1>1, <2>1, <2>5 DEF Quiet
    <3>2. phase'[c] = phase[c]
      <4> SUFFICES ASSUME phase'[c] # phase[c]
                   PROVE  FALSE
        OBVIOUS
      <4>1. kind \in {"server", "gdb"} /\ p = s
        BY <2>1
      <4> QED BY <1>1, <2>5, <4>1 DEF Quiet
    <3> QED BY <2>5, <3>1, <3>2
  <2> QED BY <1>2, <2>1, <2>4, <2>5
<1> QED BY <1>3, <1>4, <1>5 DEF FollowInv

\* What a session does of itself: its search, its server, its gdb, its end.
LEMMA ComingUpFollows ==
  ASSUME ChainTypeOK, FollowInv, NEW s \in Adapters, ComesUp(s)
  PROVE  FollowInv'
<1> USE DEF Leaving, Ending, Begun
<1>1. phase \in [Adapters -> Phases] /\ mail \in [Adapters -> Seq(EventType)]
  BY DEF ChainTypeOK
<1>2. /\ Event("ports", s) \in EventType /\ Event("ports", s).kind = "ports"
      /\ Event("server", s) \in EventType /\ Event("server", s).kind = "server"
      /\ Event("gdb", s) \in EventType /\ Event("gdb", s).kind = "gdb"
  BY EventIsEvent
<1>3. CASE Resolved(s)
  <2>1. /\ phase' = [phase EXCEPT ![s] = "resolved"] /\ UNCHANGED <<mail, tree, missed>>
        /\ phase[s] = "due" \/ (phase[s] = "off" /\ ~IsChild(s))
    BY <1>3 DEF Resolved, Enter, treeVars
  <2> QED BY <1>1, <1>2, <2>1, OneGoesOn
<1>4. CASE Launched(s)
  <2>1. /\ phase' = [phase EXCEPT ![s] = "launching"] /\ UNCHANGED <<mail, tree, missed>>
        /\ phase[s] = "resolved"
    BY <1>4 DEF Launched, Enter, treeVars
  <2> QED BY <1>1, <1>2, <2>1, OneGoesOn
<1>5. CASE Scans(s)
  <2>1. UNCHANGED <<phase, mail, tree, missed>>
    BY <1>5 DEF Scans, treeVars
  <2> QED BY <1>1, <1>2, <2>1, OneGoesOn
<1>6. CASE Allocated(s)
  <2>1. /\ phase[s] = "launching" /\ UNCHANGED <<tree, missed>>
        /\ phase' = [phase EXCEPT ![s] = "released"] \/ phase' = phase
        /\ mail' = [mail EXCEPT ![s] = Append(mail[s], Event("ports", s))]
    BY <1>6 DEF Allocated, Enter, Tell, treeVars
  <2> QED BY <1>1, <1>2, <2>1, OneGoesOn
<1>7. CASE ServerUp(s)
  <2>1. /\ phase[s] \in {"released", "launching"} /\ UNCHANGED <<tree, missed>>
        /\ phase' = [phase EXCEPT ![s] = "served"]
        /\ mail' = mail \/ mail' = [mail EXCEPT ![s] = Append(mail[s], Event("server", s))]
    BY <1>7 DEF ServerUp, Enter, TellChain, Tell, treeVars
  <2> QED BY <1>1, <1>2, <2>1, OneGoesOn
<1>8. CASE GdbUp(s)
  <2>1. /\ phase[s] = "served" /\ UNCHANGED <<tree, missed>>
        /\ phase' = [phase EXCEPT ![s] = "up"]
        /\ mail' = mail \/ mail' = [mail EXCEPT ![s] = Append(mail[s], Event("gdb", s))]
    BY <1>8 DEF GdbUp, Enter, TellChain, Tell, treeVars
  <2> QED BY <1>1, <1>2, <2>1, OneGoesOn
<1> QED BY <1>3, <1>4, <1>5, <1>6, <1>7, <1>8 DEF ComesUp

LEMMA EndingFollows ==
  ASSUME ChainTypeOK, FollowInv, NEW s \in Adapters,
         Quits(s) \/ Fails(s) \/ Disconnects(s) \/ Exits(s)
  PROVE  FollowInv'
<1> USE DEF Leaving, Ending, Begun
<1>1. phase \in [Adapters -> Phases] /\ mail \in [Adapters -> Seq(EventType)]
  BY DEF ChainTypeOK
<1>2. /\ Event("ports", s) \in EventType /\ Event("ports", s).kind = "ports"
      /\ Event("terminating", s) \in EventType /\ Event("terminating", s).kind = "terminating"
      /\ Event("terminated", s) \in EventType /\ Event("terminated", s).kind = "terminated"
  BY EventIsEvent
<1>3. CASE Quits(s) \/ Fails(s)
  <2>1. /\ phase[s] \in {"launching", "released", "served", "up"}
        /\ phase' = [phase EXCEPT ![s] = "ending"] /\ UNCHANGED <<mail, tree, missed>>
    BY <1>3 DEF Quits, Fails, Finish, Running, Enter, treeVars
  <2> QED BY <1>1, <1>2, <2>1, OneGoesOn
<1>4. CASE Disconnects(s)
  <2>1. /\ phase[s] = "ending" /\ phase' = [phase EXCEPT ![s] = "leaving"]
        /\ UNCHANGED <<tree, missed>>
        /\ \/ Launches[s] = << >> /\ mail' = mail
           \/ mail' = [mail EXCEPT ![s] = Append(mail[s], Event("terminating", s))]
    BY <1>4 DEF Disconnects, Enter, TellChain, Tell, treeVars
  <2> QED BY <1>1, <1>2, <2>1, OneGoesOn
<1>5. CASE Exits(s)
  <2>1. /\ phase[s] = "leaving" /\ phase' = [phase EXCEPT ![s] = "over"]
        /\ UNCHANGED <<tree, missed>>
        /\ mail' = [mail EXCEPT ![s] = Append(mail[s], Event("terminated", s))]
    BY <1>5 DEF Exits, Enter, Tell, treeVars
  <2> QED BY <1>1, <1>2, <2>1, OneGoesOn
<1> QED BY <1>3, <1>4, <1>5

\* The parent's word that it is about to end reaches those in the tree; of the rest, those
\* that are launched already are missed, and the others are never launched.
LEMMA TerminatingFollows ==
  ASSUME ChainTypeOK, FollowInv, NEW s \in Adapters, Terminating(s)
  PROVE  FollowInv'
<1>1. /\ Arrives(s, "terminating")
      /\ phase' = [c \in Adapters |-> IF c \in Below(s) /\ Running(c) THEN "ending" ELSE phase[c]]
      /\ missed' = missed \cup {c \in Children(s) : phase[c] \notin {"absent", "off"} /\ <<s, c>> \notin tree}
      /\ tree' = tree
  BY DEF Terminating, treeVars
<1>2. /\ mail[s] \in Seq(EventType) /\ mail[s] # << >> /\ mail'[s] = Tail(mail[s])
      /\ Head(mail[s]).kind = "terminating"
      /\ ToSet(mail[s]) = {Head(mail[s])} \cup ToSet(mail'[s])
      /\ \A t \in Adapters : t # s => mail'[t] = mail[t]
  BY <1>1, MailIsTaken
<1>3. \A t \in Adapters : /\ phase[t] \in Leaving <=> phase'[t] \in Leaving
                          /\ phase[t] \in Ending => phase'[t] \in Ending
                          /\ phase[t] \in Begun => phase'[t] \in Begun
                          /\ phase[t] \in {"absent", "off"} => phase'[t] = phase[t]
  BY <1>1 DEF Leaving, Ending, Begun, Running
<1>4. \A p \in Adapters : LastWord(p)'
  BY <1>2, <1>3, WordTaken, WordStays DEF FollowInv
<1>5. TreeInv'
  BY <1>1, <1>3 DEF FollowInv, TreeInv
<1>6. \A e \in ToSet(mail'[s]) : e.kind \notin {"server", "gdb"}
  BY <1>2, <1>3, WordTaken DEF FollowInv
<1>7. ASSUME NEW c \in Managed
      PROVE  Follows(c)'
  <2> DEFINE p == ParentOf(c)
  <2>1. c \in Adapters /\ p \in Adapters /\ c \in Children(p)
    BY ManagedAreChildren, Family
  <2>2. Follows(c)
    BY DEF FollowInv
  <2> SUFFICES ASSUME phase'[p] \in Leaving, Quiet(p, {"terminating"})'
               PROVE  \/ c \in missed'
                      \/ phase'[c] \in Ending
                      \/ phase'[c] \in {"absent", "off"} /\ Quiet(p, {"server", "gdb"})'
    BY DEF Follows
  <2>3. CASE p = s
    <3>1. CASE phase[c] \in {"absent", "off"}
      BY <1>3, <1>6, <2>1, <2>3, <3>1 DEF Quiet
    <3>2. CASE phase[c] \notin {"absent", "off"} /\ <<s, c>> \notin tree
      BY <1>1, <2>1, <2>3, <3>2
    <3>3. CASE <<s, c>> \in tree
      <4>1. phase[c] \in Begun /\ c \in Below(s)
        BY <2>1, <3>3 DEF FollowInv, TreeInv, Below
      <4> QED BY <1>1, <2>1, <4>1 DEF Begun, Ending, Running
    <3> QED BY <3>1, <3>2, <3>3
  <2>4. CASE p # s
    BY <1>1, <1>2, <1>3, <2>1, <2>2, <2>4 DEF Follows, Quiet
  <2> QED BY <2>3, <2>4
<1> QED BY <1>4, <1>5, <1>7 DEF FollowInv

LEMMA ExtensionFollows ==
  ASSUME ChainTypeOK, FollowInv, NEW s \in Adapters, Extension(s)
  PROVE  FollowInv'
<1>1. CASE Shown(s)
  <2>1. /\ phase[s] \in Begun /\ UNCHANGED <<phase, mail, missed>>
        /\ \/ tree' = tree
           \/ s \in Managed /\ tree' = tree \cup {<<ParentOf(s), s>>}
    BY <1>1 DEF Shown, Running, Begun, Ending
  <2>2. TreeInv'
    BY <2>1, ManagedAreChildren, Family DEF FollowInv, TreeInv
  <2>3. \A p \in Adapters : LastWord(p)'
    BY <2>1, WordStays DEF FollowInv
  <2>4. \A c \in Managed : Follows(c)'
    BY <2>1 DEF FollowInv, Follows, Quiet
  <2> QED BY <2>2, <2>3, <2>4 DEF FollowInv
<1>2. CASE PortsUsed(s)
  <2>1. Arrives(s, "ports") /\ UNCHANGED <<phase, tree, missed>>
    BY <1>2 DEF PortsUsed
  <2> QED BY <2>1, MailTakenFollows
<1>3. CASE LaunchesChained(s)
  <2>1. PICK kind \in {"server", "gdb"} :
          /\ Arrives(s, kind) /\ UNCHANGED <<tree, missed>>
          /\ phase' = [c \in Adapters |->
                         IF c \in Chained(s, kind) /\ phase[c] = "off" THEN "due" ELSE phase[c]]
    BY <1>3 DEF LaunchesChained
  <2>2. Chained(s, kind) \subseteq Children(s)
    BY DEF Chained, Children, ToSet
  <2> QED BY <2>1, <2>2, MailTakenFollows
<1>4. CASE Removed(s)
  <2>1. Arrives(s, "terminated") /\ UNCHANGED <<phase, missed>> /\ tree' \subseteq tree
    BY <1>4 DEF Removed
  <2> QED BY <2>1, MailTakenFollows
<1> QED BY <1>1, <1>2, <1>3, <1>4, TerminatingFollows DEF Extension

LEMMA ChainFollows ==
  ASSUME ChainTypeOK, FollowInv, [ChainNext]_chainVars
  PROVE  FollowInv'
<1>1. CASE UNCHANGED chainVars
  <2>1. UNCHANGED <<phase, mail, tree, missed>>
    BY <1>1 DEF chainVars, treeVars
  <2>2. \A p \in Adapters : LastWord(p)'
    BY <2>1, WordStays DEF FollowInv
  <2> QED BY <2>1, <2>2 DEF FollowInv, TreeInv, Follows, Quiet
<1>2. CASE ChainNext
  BY <1>2, ComingUpFollows, EndingFollows, ExtensionFollows DEF ChainNext, ChainProgress
<1> QED BY <1>1, <1>2

LEMMA ChainInitFollows ==
  ASSUME ChainInit
  PROVE  FollowInv
<1>1. /\ \A s \in Adapters : mail[s] = << >> /\ phase[s] \in {"off", "absent"}
      /\ tree = {}
  BY DEF ChainInit
<1>2. \A p \in Adapters : LastWord(p)
  BY <1>1 DEF LastWord
<1>3. \A c \in Managed : Follows(c)
  BY <1>1, ManagedAreChildren, Family DEF Follows, Leaving
<1> QED BY <1>1, <1>2, <1>3 DEF FollowInv, TreeInv

\* When all is still, a session whose parent is over is over as well, in whatever order the
\* two came up, were announced and ended, unless it was launched and not yet in the tree
\* when the extension heard that its parent ends (endChainedConfigs).
THEOREM ChildrenEndWithTheirParent == ChainSpec => []ChildrenFollow
<1>1. IInv /\ FollowInv => ChildrenFollow
  <2> SUFFICES ASSUME FollowInv, Still, NEW s \in Managed,
                      phase[s] = "up", phase[ParentOf(s)] = "over"
               PROVE  s \in missed
    BY DEF ChildrenFollow
  <2>1. ParentOf(s) \in Adapters /\ Follows(s)
    BY ManagedAreChildren, Family DEF FollowInv
  <2>2. Quiet(ParentOf(s), {"terminating"})
    BY <2>1 DEF Still, Quiet, ToSet
  <2> QED BY <2>1, <2>2 DEF Follows, Leaving, Ending
<1>2. ChainInit => IInv /\ FollowInv
  BY ChainInitIInv, ChainInitFollows
<1>3. IInv /\ FollowInv /\ [ChainNext]_chainVars => (IInv /\ FollowInv)'
  BY ChainNextIInv, ChainFollows DEF IInv
<1> QED
  BY <1>1, <1>2, <1>3, PTL DEF ChainSpec

=============================================================================
