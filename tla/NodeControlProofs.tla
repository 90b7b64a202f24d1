-------------------------- MODULE NodeControlProofs --------------------------
(***************************************************************************)
(* Theorems about NodeControl, for any sockets, flags, catalogue changes   *)
(* and length of the wire.                                                 *)
(***************************************************************************)
EXTENDS NodeControl, TLAPS

-----------------------------------------------------------------------------
(* Frames, and what a sequence of them tells.                              *)

LEMMA FrameTypes ==
    /\ \A flags \in Settings : RegisterAck(flags) \in Frame
    /\ \A f \in Flags, v \in BOOLEAN : Update(f, v) \in Frame
    /\ \A v \in Versions : SyncRequired(v) \in Frame
BY DEF RegisterAck, Update, SyncRequired, Frame, Settings, Unsaid

LEMMA Appended ==
    ASSUME NEW w \in Seq(Frame), NEW frame \in Frame
    PROVE  /\ Append(w, frame) \in Seq(Frame)
           /\ Len(Append(w, frame)) = Len(w) + 1
           /\ DOMAIN w = 1 .. Len(w) /\ Len(w) \in Nat
           /\ DOMAIN Append(w, frame) = 1 .. (Len(w) + 1)
           /\ \A i \in 1 .. Len(w) : Append(w, frame)[i] = w[i]
           /\ Append(w, frame)[Len(w) + 1] = frame
OBVIOUS

LEMMA AfterHead ==
    ASSUME NEW w \in Seq(Frame), w # <<>>
    PROVE  /\ Head(w) \in Frame /\ Head(w) = w[1]
           /\ Tail(w) \in Seq(Frame)
           /\ Len(w) \in Nat \ {0} /\ Len(Tail(w)) = Len(w) - 1
           /\ DOMAIN w = 1 .. Len(w)
           /\ DOMAIN Tail(w) = 1 .. (Len(w) - 1)
           /\ \A i \in 1 .. (Len(w) - 1) : Tail(w)[i] = w[i + 1]
OBVIOUS

\* A frame that speaks of a flag is the last word on it; any other leaves it.
LEMMA TellsAppended ==
    ASSUME NEW w \in Seq(Frame), NEW frame \in Frame, NEW b, NEW f \in Flags, NEW v
    PROVE  /\ frame.says[f] = None /\ Tells(w, b, f, v) => Tells(Append(w, frame), b, f, v)
           /\ frame.says[f] = v /\ v # None => Tells(Append(w, frame), b, f, v)
<1> DEFINE u == Append(w, frame)
           n == Len(w)
<1>1. /\ Len(u) = n + 1 /\ DOMAIN w = 1 .. n /\ n \in Nat /\ DOMAIN u = 1 .. (n + 1)
      /\ \A i \in 1 .. n : u[i] = w[i]
      /\ u[n + 1] = frame
  BY Appended
<1> HIDE DEF u, n
<1>2. ASSUME frame.says[f] = None, Tells(w, b, f, v) PROVE Tells(u, b, f, v)
  <2>1. CASE b[f] = v /\ \A i \in DOMAIN w : w[i].says[f] = None
    <3>1. \A i \in DOMAIN u : u[i].says[f] = None
      BY <1>1, <1>2, <2>1
    <3> QED BY <2>1, <3>1 DEF Tells
  <2>2. ASSUME NEW i \in DOMAIN w, w[i].says[f] = v, v # None,
               \A j \in (i + 1) .. Len(w) : w[j].says[f] = None
        PROVE  Tells(u, b, f, v)
    <3>1. i \in DOMAIN u /\ u[i].says[f] = v
      BY <1>1, <2>2
    <3>2. \A j \in (i + 1) .. Len(u) : u[j].says[f] = None
      BY <1>1, <1>2, <2>2 DEF n
    <3> QED BY <2>2, <3>1, <3>2 DEF Tells
  <2> QED BY <1>2, <2>1, <2>2 DEF Tells
<1>3. ASSUME frame.says[f] = v, v # None PROVE Tells(u, b, f, v)
  <2>1. n + 1 \in DOMAIN u /\ u[n + 1].says[f] = v
    BY <1>1, <1>3
  <2>2. \A j \in (n + 1 + 1) .. Len(u) : u[j].says[f] = None
    BY <1>1
  <2> QED BY <1>3, <2>1, <2>2 DEF Tells
<1> QED BY <1>2, <1>3 DEF u

\* Reading a frame changes nothing of what the node will go by in the end.
LEMMA TellsRead ==
    ASSUME NEW w \in Seq(Frame), w # <<>>, NEW b, NEW c, NEW f \in Flags, NEW v,
           Tells(w, b, f, v),
           c[f] = IF Head(w).says[f] = None THEN b[f] ELSE Head(w).says[f]
    PROVE  Tells(Tail(w), c, f, v)
<1> DEFINE u == Tail(w)
           n == Len(w)
<1>1. /\ Head(w) = w[1] /\ n \in Nat \ {0} /\ Len(u) = n - 1
      /\ DOMAIN w = 1 .. n /\ DOMAIN u = 1 .. (n - 1)
      /\ \A i \in 1 .. (n - 1) : u[i] = w[i + 1]
  BY AfterHead
<1> HIDE DEF u
<1>2. CASE b[f] = v /\ \A i \in DOMAIN w : w[i].says[f] = None
  <2>1. \A i \in DOMAIN u : u[i].says[f] = None
    BY <1>1, <1>2
  <2>2. c[f] = v
    BY <1>1, <1>2
  <2> QED BY <2>1, <2>2 DEF Tells, u
<1>3. ASSUME NEW i \in DOMAIN w, w[i].says[f] = v, v # None,
             \A j \in (i + 1) .. Len(w) : w[j].says[f] = None
      PROVE  Tells(u, c, f, v)
  <2>1. CASE i = 1
    <3>1. c[f] = v
      BY <1>1, <1>3, <2>1
    <3>2. \A j \in DOMAIN u : u[j].says[f] = None
      BY <1>1, <1>3, <2>1
    <3> QED BY <3>1, <3>2 DEF Tells
  <2>2. CASE i # 1
    <3>1. i - 1 \in DOMAIN u /\ u[i - 1].says[f] = v
      BY <1>1, <1>3, <2>2
    <3>2. \A j \in (i - 1 + 1) .. Len(u) : u[j].says[f] = None
      BY <1>1, <1>3, <2>2
    <3> QED BY <1>3, <3>1, <3>2 DEF Tells
  <2> QED BY <2>1, <2>2
<1> QED BY <1>2, <1>3 DEF Tells, u

LEMMA ListsAppended ==
    ASSUME NEW w \in Seq(Frame), NEW frame \in Frame, NEW h, NEW v
    PROVE  /\ Lists(w, h, v) => Lists(Append(w, frame), h, v)
           /\ frame.version # None /\ frame.version >= v => Lists(Append(w, frame), h, v)
<1> DEFINE u == Append(w, frame)
           n == Len(w)
<1>1. /\ DOMAIN w = 1 .. n /\ n \in Nat /\ DOMAIN u = 1 .. (n + 1)
      /\ \A i \in 1 .. n : u[i] = w[i]
      /\ u[n + 1] = frame
  BY Appended
<1> HIDE DEF u, n
<1>2. ASSUME Lists(w, h, v) PROVE Lists(u, h, v)
  <2>1. \A i \in DOMAIN w : i \in DOMAIN u /\ u[i] = w[i]
    BY <1>1
  <2> QED BY <1>2, <2>1 DEF Lists
<1>3. ASSUME frame.version # None /\ frame.version >= v PROVE Lists(u, h, v)
  <2>1. n + 1 \in DOMAIN u
    BY <1>1
  <2> QED BY <1>1, <1>3, <2>1 DEF Lists
<1> QED BY <1>2, <1>3 DEF u

LEMMA OrderedAppended ==
    ASSUME NEW w \in Seq(Frame), NEW frame \in Frame, NEW h \in Versions \cup {None},
           NEW now \in Versions, Ordered(w, h, now), frame.version \in {now, None}
    PROVE  Ordered(Append(w, frame), h, now)
<1> DEFINE u == Append(w, frame)
           n == Len(w)
<1>1. /\ DOMAIN w = 1 .. n /\ n \in Nat /\ DOMAIN u = 1 .. (n + 1)
      /\ \A i \in 1 .. n : u[i] = w[i]
      /\ u[n + 1] = frame
  BY Appended
<1>2. now \in Nat /\ (h # None => h <= now)
  BY NodeControlAssumption DEF Ordered, Versions
<1> HIDE DEF u, n
<1>3. ASSUME NEW i \in DOMAIN u, u[i].version # None
      PROVE  /\ u[i].version <= now
             /\ h # None => h <= u[i].version
             /\ \A j \in 1 .. i : u[j].version # None => u[j].version <= u[i].version
  <2>1. CASE i \in 1 .. n
    <3>1. /\ w[i].version <= now
          /\ h # None => h <= w[i].version
          /\ \A j \in 1 .. i : w[j].version # None => w[j].version <= w[i].version
      BY <1>1, <1>3, <2>1 DEF Ordered
    <3>2. u[i] = w[i] /\ \A j \in 1 .. i : u[j] = w[j]
      BY <1>1, <2>1
    <3> QED BY <3>1, <3>2
  <2>2. CASE i = n + 1
    <3>1. u[i].version = now
      BY <1>1, <1>3, <2>2
    <3>2. ASSUME NEW j \in 1 .. i, u[j].version # None PROVE u[j].version <= now
      <4>1. CASE j = i
        BY <1>2, <3>1, <4>1
      <4>2. CASE j # i
        <5>1. j \in 1 .. n /\ u[j] = w[j]
          BY <1>1, <2>2, <4>2
        <5> QED BY <1>1, <3>2, <5>1 DEF Ordered
      <4> QED BY <4>1, <4>2
    <3> QED BY <1>2, <3>1, <3>2
  <2> QED BY <1>1, <2>1, <2>2
<1> QED BY <1>2, <1>3 DEF Ordered, u

\* What a node has read is no older than what it had, and no newer than what it
\* will read.
LEMMA OrderedRead ==
    ASSUME NEW w \in Seq(Frame), w # <<>>, NEW h \in Versions \cup {None}, NEW g,
           NEW now \in Versions, Ordered(w, h, now),
           g = IF Head(w).version = None THEN h ELSE Head(w).version
    PROVE  /\ Ordered(Tail(w), g, now)
           /\ h # None => g # None /\ h <= g
           /\ \A v \in Versions : Lists(w, h, v) => Lists(Tail(w), g, v)
<1> DEFINE u == Tail(w)
           n == Len(w)
<1>1. /\ Head(w) = w[1] /\ n \in Nat \ {0}
      /\ DOMAIN w = 1 .. n /\ DOMAIN u = 1 .. (n - 1)
      /\ \A i \in 1 .. (n - 1) : u[i] = w[i + 1]
      /\ Head(w) \in Frame
  BY AfterHead
<1> HIDE DEF u, n
<1>2. /\ h # None => h <= now
      /\ \A i \in DOMAIN w : w[i].version # None =>
            /\ w[i].version <= now
            /\ h # None => h <= w[i].version
            /\ \A j \in 1 .. i : w[j].version # None => w[j].version <= w[i].version
  BY DEF Ordered
<1>3. 1 \in DOMAIN w
  BY <1>1
<1>4. /\ g \in Versions \cup {None} /\ (g # None => g <= now)
      /\ h # None => g # None /\ h <= g
  <2>1. \A v \in Versions : v <= v
    BY NodeControlAssumption DEF Versions
  <2> QED BY <1>1, <1>2, <1>3, <2>1 DEF Frame
<1>5. ASSUME NEW i \in DOMAIN u, u[i].version # None
      PROVE  /\ u[i].version <= now
             /\ g # None => g <= u[i].version
             /\ \A j \in 1 .. i : u[j].version # None => u[j].version <= u[i].version
  <2>1. i + 1 \in DOMAIN w /\ u[i] = w[i + 1] /\ i \in Nat
    BY <1>1
  <2>2. g # None => g <= u[i].version
    <3>1. 1 \in 1 .. (i + 1)
      BY <2>1
    <3> QED BY <1>1, <1>2, <1>5, <2>1, <3>1
  <2>3. ASSUME NEW j \in 1 .. i, u[j].version # None PROVE u[j].version <= u[i].version
    <3>1. j + 1 \in 1 .. (i + 1) /\ u[j] = w[j + 1]
      BY <1>1
    <3> QED BY <1>2, <1>5, <2>1, <2>3, <3>1
  <2> QED BY <1>2, <1>5, <2>1, <2>2, <2>3
<1>6. ASSUME NEW v \in Versions, Lists(w, h, v) PROVE Lists(u, g, v)
  <2>1. CASE h # None /\ h >= v
    <3>1. h \in Nat /\ v \in Nat /\ g \in Nat
      BY <1>4, <2>1, NodeControlAssumption DEF Versions
    <3>2. g # None /\ g >= v
      BY <1>4, <2>1, <3>1
    <3> QED BY <3>2 DEF Lists
  <2>2. ASSUME NEW i \in DOMAIN w, w[i].version # None, w[i].version >= v
        PROVE  Lists(u, g, v)
    <3>1. CASE i = 1
      BY <1>1, <2>2, <3>1 DEF Lists
    <3>2. CASE i # 1
      <4>1. i - 1 \in DOMAIN u /\ u[i - 1] = w[i]
        BY <1>1, <3>2
      <4> QED BY <2>2, <4>1 DEF Lists
    <3> QED BY <3>1, <3>2
  <2> QED BY <1>6, <2>1, <2>2 DEF Lists
<1> QED BY <1>4, <1>5, <1>6 DEF Ordered, u

\* A connection that carries nothing and has read nothing.
LEMMA Silent ==
    ASSUME NEW now
    PROVE  Ordered(<<>>, None, now)
BY DEF Ordered

-----------------------------------------------------------------------------
(* The invariant, socket by socket.                                        *)

Knows(s) ==
    \A f \in Flags : /\ pc[s] \in {"greeting", "serving"} /\ Live(s)
                     /\ <<s, f>> \notin missed
                     => Tells(wire[s], belief[s], f, row[f])

Honoured(s) ==
    /\ pc[s] = "serving" /\ Live(s)
    /\ \A v \in since[s] .. catalog : ~Empty(v)
    => Lists(wire[s], held[s], since[s])

Waits(s) ==
    Live(s) =>
        /\ since[s] # None /\ since[s] <= catalog
        /\ pc[s] = "replacing" =>
              /\ read[s] # None
              /\ \A f \in Flags : <<s, f>> \notin missed => read[s][f] = row[f]

Roomy(s) ==
    /\ pc[s] \in {"idle", "replacing"} => Len(wire[s]) <= MaxWire
    /\ pc[s] = "greeting" => Len(wire[s]) <= MaxWire + 1

SocketInv(s) ==
    /\ Roomy(s) /\ Waits(s) /\ Knows(s) /\ Honoured(s)
    /\ Ordered(wire[s], held[s], catalog)

LEMMA InvBySocket ==
    /\ Inv <=> \A s \in Sockets : SocketInv(s)
    /\ Inv' <=> \A s \in Sockets : SocketInv(s)'
BY DEF Inv, SocketInv, Roomy, Waits, Knows, Honoured, WireHasRoom, Waiting, KnowsFlags,
       SyncHonoured

LEMMA SocketTypes ==
    ASSUME TypeOK, NEW s \in Sockets
    PROVE  /\ wire[s] \in Seq(Frame) /\ Len(wire[s]) \in Nat
           /\ held[s] \in Versions \cup {None} /\ since[s] \in Versions \cup {None}
           /\ read[s] \in Settings \cup {None}
           /\ catalog \in Versions /\ catalog \in Nat /\ MaxWire \in Nat
           /\ Len(wire[s]) <= MaxWire + 2
           /\ since[s] # None => since[s] \in Nat
BY NodeControlAssumption DEF TypeOK, Versions

\* A connection that a step does not touch, while flags that it has missed, or
\* that it is told, change, and the catalogue.
LEMMA Untouched ==
    ASSUME TypeOK, NEW s \in Sockets, SocketInv(s),
           pc'[s] = pc[s], line'[s] = line[s], read'[s] = read[s], since'[s] = since[s],
           wire'[s] = wire[s], belief'[s] = belief[s], held'[s] = held[s],
           catalog' \in {catalog, catalog + 1},
           \A f \in Flags : Live(s) /\ <<s, f>> \notin missed'
                               => <<s, f>> \notin missed /\ row'[f] = row[f]
    PROVE  SocketInv(s)'
<1>1. Live(s)' = Live(s)
  BY DEF Live
<1>2. /\ catalog \in Nat /\ (since[s] # None => since[s] \in Nat)
      /\ held[s] \in Versions \cup {None} /\ wire[s] \in Seq(Frame)
  BY SocketTypes
<1>3. Roomy(s)'
  BY DEF SocketInv, Roomy
<1>4. Waits(s)'
  BY <1>1, <1>2 DEF SocketInv, Waits
<1>5. Knows(s)'
  BY <1>1 DEF SocketInv, Knows
<1>6. Honoured(s)'
  <2> SUFFICES ASSUME pc[s] = "serving", Live(s), \A v \in since[s] .. catalog' : ~Empty(v)
               PROVE  Lists(wire[s], held[s], since[s])
    BY <1>1 DEF Honoured
  <2>1. since[s] \in Nat
    BY <1>2 DEF SocketInv, Waits
  <2>2. \A v \in since[s] .. catalog : v \in since[s] .. catalog'
    BY <1>2, <2>1
  <2> QED BY <2>2 DEF SocketInv, Honoured
<1>7. Ordered(wire[s], held[s], catalog')
  <2>1. \A v \in Versions : v <= catalog => v <= catalog'
    BY <1>2, NodeControlAssumption DEF Versions
  <2>2. Ordered(wire[s], held[s], catalog)
    BY DEF SocketInv
  <2>3. \A i \in DOMAIN wire[s] : wire[s][i].version \in Versions \cup {None}
    <3>1. \A i \in DOMAIN wire[s] : wire[s][i] \in Frame
      BY <1>2
    <3> QED BY <3>1 DEF Frame
  <2> QED BY <1>2, <2>1, <2>2, <2>3 DEF Ordered
<1> QED BY <1>3, <1>4, <1>5, <1>6, <1>7 DEF SocketInv

\* A connection that carries nothing any more.
LEMMA Dead ==
    ASSUME NEW s \in Sockets, ~Live(s)', wire'[s] = <<>>, held'[s] = None
    PROVE  SocketInv(s)'
BY Silent, NodeControlAssumption DEF SocketInv, Roomy, Waits, Knows, Honoured

\* A connection that is sent a frame: what the frame does not say of a flag the
\* node knows already.
LEMMA Sent ==
    ASSUME TypeOK, NEW s \in Sockets, SocketInv(s), NEW frame \in Frame,
           frame.version \in {catalog, None},
           wire'[s] = Append(wire[s], frame),
           line'[s] = line[s], since'[s] = since[s], belief'[s] = belief[s],
           held'[s] = held[s], catalog' = catalog,
           pc[s] # "idle",
           Roomy(s)', Waits(s)',
           \A f \in Flags :
              Live(s) /\ pc'[s] \in {"greeting", "serving"} /\ <<s, f>> \notin missed' =>
                 \/ frame.says[f] # None /\ frame.says[f] = row'[f]
                 \/ /\ frame.says[f] = None /\ pc[s] \in {"greeting", "serving"}
                    /\ <<s, f>> \notin missed /\ row'[f] = row[f],
           \/ pc'[s] = pc[s]
           \/ pc'[s] = "greeting"
           \/ pc'[s] = "serving" /\ frame.version = catalog
    PROVE  SocketInv(s)'
<1>1. Live(s)' => Live(s)
  BY DEF Live
<1>2. /\ wire[s] \in Seq(Frame) /\ held[s] \in Versions \cup {None}
      /\ catalog \in Versions /\ catalog \in Nat
  BY SocketTypes
<1>3. Knows(s)'
  <2> SUFFICES ASSUME NEW f \in Flags, pc'[s] \in {"greeting", "serving"}, Live(s),
                      <<s, f>> \notin missed'
               PROVE  Tells(Append(wire[s], frame), belief[s], f, row'[f])
    BY <1>1 DEF Knows
  <2>1. CASE frame.says[f] # None /\ frame.says[f] = row'[f]
    BY <1>2, <2>1, TellsAppended
  <2>2. CASE /\ frame.says[f] = None /\ pc[s] \in {"greeting", "serving"}
             /\ <<s, f>> \notin missed /\ row'[f] = row[f]
    <3>1. Tells(wire[s], belief[s], f, row[f])
      BY <2>2 DEF SocketInv, Knows
    <3> QED BY <1>2, <2>2, <3>1, TellsAppended
  <2> QED BY <2>1, <2>2
<1>4. Honoured(s)'
  <2> SUFFICES ASSUME pc'[s] = "serving", Live(s), \A v \in since[s] .. catalog : ~Empty(v)
               PROVE  Lists(Append(wire[s], frame), held[s], since[s])
    BY <1>1 DEF Honoured
  <2>1. CASE pc[s] = "serving"
    <3>1. Lists(wire[s], held[s], since[s])
      BY <2>1 DEF SocketInv, Honoured
    <3> QED BY <1>2, <3>1, ListsAppended
  <2>2. CASE frame.version = catalog
    <3>1. since[s] \in Nat /\ since[s] <= catalog /\ catalog # None
      BY <1>2, SocketTypes, NodeControlAssumption DEF SocketInv, Waits
    <3>2. frame.version # None /\ frame.version >= since[s]
      BY <1>2, <2>2, <3>1
    <3> QED BY <1>2, <3>2, ListsAppended
  <2> QED BY <2>1, <2>2
<1>5. Ordered(Append(wire[s], frame), held[s], catalog)
  <2>1. Ordered(wire[s], held[s], catalog)
    BY DEF SocketInv
  <2> QED BY <1>2, <2>1, OrderedAppended
<1> QED BY <1>3, <1>4, <1>5 DEF SocketInv

-----------------------------------------------------------------------------
(* Initially, and the steps of a connection.                               *)

LEMMA TypeOKInit == Init => TypeOK
<1> SUFFICES ASSUME Init PROVE TypeOK
  OBVIOUS
<1>1. <<>> \in Seq(Frame) /\ Len(<<>>) = 0
  OBVIOUS
<1>2. wire \in [Sockets -> Seq(Frame)] /\ \A s \in Sockets : Len(wire[s]) <= MaxWire + 2
  BY <1>1, NodeControlAssumption DEF Init
<1>3. belief \in [Sockets -> [Flags -> BOOLEAN \cup {None}]]
  BY DEF Init, Unsaid
<1>4. catalog \in Versions
  BY NodeControlAssumption DEF Init, Versions
<1> QED BY <1>2, <1>3, <1>4 DEF Init, TypeOK

LEMMA InvInit == Init => Inv
<1> SUFFICES ASSUME Init, NEW s \in Sockets PROVE SocketInv(s)
  BY InvBySocket
<1>1. pc[s] = "idle" /\ wire[s] = <<>> /\ held[s] = None
  BY DEF Init
<1> QED
  BY <1>1, Silent, NodeControlAssumption
     DEF SocketInv, Roomy, Waits, Knows, Honoured, Live

LEMMA HelloStep ==
    ASSUME TypeOK, Inv, NEW s \in Sockets, Hello(s)
    PROVE  TypeOK' /\ Inv'
<1> DEFINE frame == RegisterAck(row)
<1>1. /\ frame \in Frame /\ frame.version = None
      /\ \A f \in Flags : frame.says[f] = row[f] /\ row[f] # None
  BY FrameTypes, NodeControlAssumption DEF TypeOK, RegisterAck, Settings
<1>2. /\ pc[s] = "idle" /\ conn' = s
      /\ since' = [since EXCEPT ![s] = catalog]
      /\ wire' = [wire EXCEPT ![s] = Append(@, frame)]
      /\ pc' = [pc EXCEPT ![s] = "greeting"]
      /\ UNCHANGED <<row, catalog, line, read, belief, held, missed>>
  BY DEF Hello, Send, data, node
<1> HIDE DEF frame
<1>3. SocketInv(s) /\ \A x \in Sockets : SocketInv(x)
  BY InvBySocket
<1>4. /\ wire[s] \in Seq(Frame) /\ Len(wire[s]) \in Nat /\ Len(wire[s]) <= MaxWire
      /\ MaxWire \in Nat /\ catalog \in Versions /\ catalog \in Nat
      /\ held[s] \in Versions \cup {None}
  BY <1>2, <1>3, SocketTypes DEF SocketInv, Roomy
<1>5. /\ Append(wire[s], frame) \in Seq(Frame)
      /\ Len(Append(wire[s], frame)) = Len(wire[s]) + 1
  BY <1>1, <1>4, Appended
<1>6. /\ wire' \in [Sockets -> Seq(Frame)] /\ wire'[s] = Append(wire[s], frame)
      /\ pc'[s] = "greeting" /\ since'[s] = catalog
      /\ \A x \in Sockets \ {s} : wire'[x] = wire[x] /\ pc'[x] = pc[x] /\ since'[x] = since[x]
  BY <1>2, <1>5 DEF TypeOK
<1>7. TypeOK'
  <2>1. ASSUME NEW x \in Sockets PROVE Len(wire'[x]) <= MaxWire + 2
    <3>1. CASE x = s
      BY <1>4, <1>5, <1>6, <3>1
    <3>2. CASE x # s
      BY <1>6, <3>2 DEF TypeOK
    <3> QED BY <3>1, <3>2
  <2>2. /\ pc' \in [Sockets -> {"idle", "replacing", "greeting", "serving"}]
        /\ since' \in [Sockets -> Versions \cup {None}]
    BY <1>2, <1>4 DEF TypeOK
  <2> QED BY <1>2, <1>6, <2>1, <2>2 DEF TypeOK
<1>8. ASSUME NEW x \in Sockets PROVE SocketInv(x)'
  <2>1. CASE x # s
    BY <1>2, <1>3, <1>6, <2>1, Untouched
  <2>2. CASE x = s
    <3>1. Roomy(s)'
      BY <1>4, <1>5, <1>6 DEF Roomy
    <3>2. Waits(s)'
      BY <1>2, <1>4, <1>6, NodeControlAssumption DEF Waits
    <3>3. Knows(s)'
      BY <1>1, <1>2, <1>4, <1>6, TellsAppended DEF Knows
    <3>4. Honoured(s)'
      BY <1>6 DEF Honoured
    <3>5. Ordered(wire'[s], held[s], catalog)
      BY <1>1, <1>3, <1>4, <1>6, OrderedAppended DEF SocketInv
    <3> QED BY <1>2, <2>2, <3>1, <3>2, <3>3, <3>4, <3>5 DEF SocketInv
  <2> QED BY <2>1, <2>2
<1> QED BY <1>7, <1>8, InvBySocket

LEMMA HelloReplacesStep ==
    ASSUME TypeOK, Inv, NEW s \in Sockets, HelloReplaces(s)
    PROVE  TypeOK' /\ Inv'
<1>1. /\ pc[s] = "idle" /\ conn \in Sockets /\ conn' = s
      /\ read' = [read EXCEPT ![s] = row, ![conn] = None]
      /\ since' = [since EXCEPT ![s] = catalog, ![conn] = None]
      /\ line' = [line EXCEPT ![conn] = "cut"]
      /\ wire' = [x \in Sockets |-> IF x \in {conn} THEN <<>> ELSE wire[x]]
      /\ belief' = [x \in Sockets |-> IF x \in {conn} THEN Unsaid ELSE belief[x]]
      /\ held' = [x \in Sockets |-> IF x \in {conn} THEN None ELSE held[x]]
      /\ missed' = {m \in missed : m[1] \notin {conn}}
      /\ pc' = [pc EXCEPT ![s] = "replacing"]
      /\ row' = row /\ catalog' = catalog
  BY DEF HelloReplaces, Silence, data, TypeOK
<1>2. TypeOK'
  <2>1. <<>> \in Seq(Frame) /\ Len(<<>>) = 0
    OBVIOUS
  <2>2. wire' \in [Sockets -> Seq(Frame)] /\ \A x \in Sockets : Len(wire'[x]) <= MaxWire + 2
    BY <1>1, <2>1, NodeControlAssumption DEF TypeOK
  <2>3. belief' \in [Sockets -> [Flags -> BOOLEAN \cup {None}]]
    BY <1>1 DEF TypeOK, Unsaid
  <2>4. held' \in [Sockets -> Versions \cup {None}]
    BY <1>1 DEF TypeOK
  <2>5. /\ read' \in [Sockets -> Settings \cup {None}]
        /\ since' \in [Sockets -> Versions \cup {None}]
    BY <1>1 DEF TypeOK
  <2>6. /\ line' \in [Sockets -> {"open", "cut"}]
        /\ pc' \in [Sockets -> {"idle", "replacing", "greeting", "serving"}]
        /\ missed' \subseteq Sockets \X Flags
    BY <1>1 DEF TypeOK
  <2> QED BY <1>1, <2>2, <2>3, <2>4, <2>5, <2>6 DEF TypeOK
<1>3. ASSUME NEW x \in Sockets PROVE SocketInv(x)'
  <2>1. CASE x = conn
    <3>1. line'[x] = "cut" /\ wire'[x] = <<>> /\ held'[x] = None
      BY <1>1, <2>1 DEF TypeOK
    <3> QED BY <3>1, Dead DEF Live
  <2>2. CASE x # conn
    <3>1. SocketInv(x)
      BY InvBySocket
    <3>2. /\ line'[x] = line[x] /\ wire'[x] = wire[x] /\ belief'[x] = belief[x]
          /\ held'[x] = held[x]
          /\ \A f \in Flags : <<x, f>> \notin missed' => <<x, f>> \notin missed
      BY <1>1, <2>2 DEF TypeOK
    <3>3. CASE x # s
      <4>1. pc'[x] = pc[x] /\ read'[x] = read[x] /\ since'[x] = since[x]
        BY <1>1, <2>2, <3>3 DEF TypeOK
      <4> QED BY <1>1, <3>1, <3>2, <4>1, Untouched
    <3>4. CASE x = s
      <4>1. pc'[x] = "replacing" /\ read'[x] = row /\ since'[x] = catalog
        BY <1>1, <2>2, <3>4 DEF TypeOK
      <4>2. Roomy(x)'
        BY <1>1, <3>1, <3>2, <3>4, <4>1 DEF SocketInv, Roomy
      <4>3. Waits(x)'
        <5>1. catalog \in Nat /\ catalog # None /\ row # None
          BY SocketTypes, NodeControlAssumption, NoSettingsAssumption DEF TypeOK
        <5>2. row' = row /\ catalog' = catalog /\ catalog <= catalog
          BY <1>1, <5>1
        <5> QED BY <4>1, <5>1, <5>2 DEF Waits
      <4> QED BY <1>1, <3>1, <3>2, <4>1, <4>2, <4>3 DEF SocketInv, Knows, Honoured
    <3> QED BY <3>3, <3>4
  <2> QED BY <2>1, <2>2
<1> QED BY <1>2, <1>3, InvBySocket

\* A frame to one connection leaves the wire well-typed.
LEMMA SentTypes ==
    ASSUME TypeOK, NEW s \in Sockets, NEW frame \in Frame, Send(s, frame),
           Len(wire[s]) <= MaxWire + 1
    PROVE  /\ wire' \in [Sockets -> Seq(Frame)]
           /\ \A x \in Sockets : Len(wire'[x]) <= MaxWire + 2
           /\ wire'[s] = Append(wire[s], frame) /\ Len(wire'[s]) = Len(wire[s]) + 1
           /\ \A x \in Sockets \ {s} : wire'[x] = wire[x]
<1>1. /\ wire[s] \in Seq(Frame) /\ Len(wire[s]) \in Nat /\ MaxWire \in Nat
  BY SocketTypes
<1>2. Append(wire[s], frame) \in Seq(Frame) /\ Len(Append(wire[s], frame)) = Len(wire[s]) + 1
  BY <1>1, Appended
<1>3. /\ wire' \in [Sockets -> Seq(Frame)]
      /\ wire'[s] = Append(wire[s], frame)
      /\ \A x \in Sockets \ {s} : wire'[x] = wire[x]
  BY <1>2 DEF Send, TypeOK
<1>4. ASSUME NEW x \in Sockets PROVE Len(wire'[x]) <= MaxWire + 2
  <2>1. CASE x = s
    BY <1>1, <1>2, <1>3, <2>1
  <2>2. CASE x # s
    BY <1>3, <2>2 DEF TypeOK
  <2> QED BY <2>1, <2>2
<1> QED BY <1>2, <1>3, <1>4

LEMMA AckStep ==
    ASSUME TypeOK, Inv, NEW s \in Sockets, Ack(s)
    PROVE  TypeOK' /\ Inv'
<1> DEFINE frame == RegisterAck(read[s])
<1>1. /\ pc[s] = "replacing" /\ line[s] = "open" /\ Send(s, frame)
      /\ read' = [read EXCEPT ![s] = None]
      /\ pc' = [pc EXCEPT ![s] = "greeting"]
      /\ UNCHANGED <<row, catalog, conn, line, since, belief, held, missed>>
  BY DEF Ack, data, node
<1>2. SocketInv(s) /\ Live(s)
  BY <1>1, InvBySocket DEF Live
<1>3. /\ read[s] \in Settings /\ since[s] # None /\ since[s] <= catalog
      /\ \A f \in Flags : <<s, f>> \notin missed => read[s][f] = row[f]
      /\ Len(wire[s]) <= MaxWire
  BY <1>1, <1>2, SocketTypes DEF SocketInv, Waits, Roomy
<1>4. /\ frame \in Frame /\ frame.version = None
      /\ \A f \in Flags : frame.says[f] = read[s][f] /\ frame.says[f] # None
  BY <1>3, FrameTypes, NodeControlAssumption DEF RegisterAck, Settings
<1> HIDE DEF frame
<1>5. /\ MaxWire \in Nat /\ Len(wire[s]) \in Nat
  BY SocketTypes
<1>6. Len(wire[s]) <= MaxWire + 1
  BY <1>3, <1>5
<1>7. /\ wire' \in [Sockets -> Seq(Frame)]
      /\ \A x \in Sockets : Len(wire'[x]) <= MaxWire + 2
      /\ wire'[s] = Append(wire[s], frame) /\ Len(wire'[s]) = Len(wire[s]) + 1
      /\ \A x \in Sockets \ {s} : wire'[x] = wire[x]
  BY <1>1, <1>4, <1>6, SentTypes
<1>8. /\ pc'[s] = "greeting"
      /\ pc' \in [Sockets -> {"idle", "replacing", "greeting", "serving"}]
      /\ read' \in [Sockets -> Settings \cup {None}]
      /\ \A x \in Sockets \ {s} : pc'[x] = pc[x] /\ read'[x] = read[x]
  BY <1>1 DEF TypeOK
<1>9. TypeOK'
  BY <1>1, <1>7, <1>8 DEF TypeOK
<1>10. ASSUME NEW x \in Sockets PROVE SocketInv(x)'
  <2>1. CASE x # s
    BY <1>1, <1>7, <1>8, <2>1, InvBySocket, Untouched
  <2>2. CASE x = s
    <3>1. Roomy(s)'
      BY <1>3, <1>5, <1>7, <1>8 DEF Roomy
    <3>2. Waits(s)'
      BY <1>1, <1>3, <1>8 DEF Waits
    <3> QED BY <1>1, <1>2, <1>3, <1>4, <1>7, <1>8, <2>2, <3>1, <3>2, Sent
  <2> QED BY <2>1, <2>2
<1> QED BY <1>9, <1>10, InvBySocket

LEMMA GreetStep ==
    ASSUME TypeOK, Inv, NEW s \in Sockets, Greet(s)
    PROVE  TypeOK' /\ Inv'
<1> DEFINE frame == SyncRequired(catalog)
<1>1. /\ pc[s] = "greeting" /\ line[s] = "open"
      /\ IF ~Empty(since[s]) /\ ~Empty(catalog) THEN Send(s, frame) ELSE wire' = wire
      /\ pc' = [pc EXCEPT ![s] = "serving"]
      /\ UNCHANGED <<row, catalog, conn, line, read, since, belief, held, missed>>
  BY DEF Greet, data, local, node
<1>2. SocketInv(s) /\ Live(s)
  BY <1>1, InvBySocket DEF Live
<1>3. /\ since[s] \in Nat /\ since[s] <= catalog /\ since[s] # None
      /\ catalog \in Versions /\ catalog \in Nat
      /\ Len(wire[s]) <= MaxWire + 1
  BY <1>1, <1>2, SocketTypes DEF SocketInv, Waits, Roomy
<1>4. /\ frame \in Frame /\ frame.version = catalog
      /\ \A f \in Flags : frame.says[f] = None
  BY <1>3, FrameTypes DEF SyncRequired, Unsaid
<1> HIDE DEF frame
<1>5. /\ pc'[s] = "serving"
      /\ pc' \in [Sockets -> {"idle", "replacing", "greeting", "serving"}]
      /\ \A x \in Sockets \ {s} : pc'[x] = pc[x]
  BY <1>1 DEF TypeOK
<1>6. Roomy(s)' /\ Waits(s)'
  BY <1>1, <1>2, <1>5 DEF Roomy, SocketInv, Waits
<1>7. CASE Send(s, frame)
  <2>1. /\ wire' \in [Sockets -> Seq(Frame)]
        /\ \A x \in Sockets : Len(wire'[x]) <= MaxWire + 2
        /\ wire'[s] = Append(wire[s], frame)
        /\ \A x \in Sockets \ {s} : wire'[x] = wire[x]
    BY <1>3, <1>4, <1>7, SentTypes
  <2>2. TypeOK'
    BY <1>1, <1>5, <2>1 DEF TypeOK
  <2>3. ASSUME NEW x \in Sockets PROVE SocketInv(x)'
    <3>1. CASE x # s
      BY <1>1, <1>5, <2>1, <3>1, InvBySocket, Untouched
    <3>2. CASE x = s
      BY <1>1, <1>2, <1>4, <1>5, <1>6, <2>1, <3>2, Sent
    <3> QED BY <3>1, <3>2
  <2> QED BY <2>2, <2>3, InvBySocket
<1>8. CASE wire' = wire /\ (Empty(since[s]) \/ Empty(catalog))
  <2>1. TypeOK'
    BY <1>1, <1>5, <1>8 DEF TypeOK
  <2>2. ASSUME NEW x \in Sockets PROVE SocketInv(x)'
    <3>1. CASE x # s
      BY <1>1, <1>5, <1>8, <3>1, InvBySocket, Untouched
    <3>2. CASE x = s
      <4>1. Honoured(s)'
        <5>1. since[s] \in since[s] .. catalog /\ catalog \in since[s] .. catalog
          BY <1>3
        <5> QED BY <1>1, <1>8, <5>1 DEF Honoured
      <4>2. Knows(s)'
        BY <1>1, <1>2, <1>5, <1>8 DEF SocketInv, Knows, Live
      <4> QED BY <1>1, <1>2, <1>6, <1>8, <3>2, <4>1, <4>2 DEF SocketInv
    <3> QED BY <3>1, <3>2
  <2> QED BY <2>1, <2>2, InvBySocket
<1> QED BY <1>1, <1>7, <1>8

\* A connection ends, for the node or for its handler; so they all do in a crash.
LEMMA DropStep ==
    ASSUME TypeOK, Inv, NEW S \in SUBSET Sockets, Drop(S), row' = row, catalog' = catalog,
           conn' \in Sockets \cup {None},
           pc' \in [Sockets -> {"idle", "replacing", "greeting", "serving"}],
           line' \in [Sockets -> {"open", "cut"}],
           \A s \in S : ~Live(s)',
           \A s \in Sockets \ S : pc'[s] = pc[s] /\ line'[s] = line[s]
    PROVE  TypeOK' /\ Inv'
<1>1. /\ read' = [x \in Sockets |-> IF x \in S THEN None ELSE read[x]]
      /\ since' = [x \in Sockets |-> IF x \in S THEN None ELSE since[x]]
      /\ wire' = [x \in Sockets |-> IF x \in S THEN <<>> ELSE wire[x]]
      /\ belief' = [x \in Sockets |-> IF x \in S THEN Unsaid ELSE belief[x]]
      /\ held' = [x \in Sockets |-> IF x \in S THEN None ELSE held[x]]
      /\ missed' = {m \in missed : m[1] \notin S}
  BY DEF Drop, Silence
<1>2. TypeOK'
  <2>1. <<>> \in Seq(Frame) /\ Len(<<>>) = 0
    OBVIOUS
  <2>2. wire' \in [Sockets -> Seq(Frame)] /\ \A x \in Sockets : Len(wire'[x]) <= MaxWire + 2
    BY <1>1, <2>1, NodeControlAssumption DEF TypeOK
  <2>3. belief' \in [Sockets -> [Flags -> BOOLEAN \cup {None}]]
    BY <1>1 DEF TypeOK, Unsaid
  <2>4. /\ held' \in [Sockets -> Versions \cup {None}]
        /\ read' \in [Sockets -> Settings \cup {None}]
        /\ since' \in [Sockets -> Versions \cup {None}]
        /\ missed' \subseteq Sockets \X Flags
    BY <1>1 DEF TypeOK
  <2> QED BY <2>2, <2>3, <2>4 DEF TypeOK
<1>3. ASSUME NEW x \in Sockets PROVE SocketInv(x)'
  <2>1. CASE x \in S
    BY <1>1, <2>1, Dead
  <2>2. CASE x \notin S
    <3>1. SocketInv(x)
      BY InvBySocket
    <3>2. \A f \in Flags : <<x, f>> \notin missed' => <<x, f>> \notin missed
      BY <1>1, <2>2
    <3>3. /\ pc'[x] = pc[x] /\ line'[x] = line[x] /\ read'[x] = read[x]
          /\ since'[x] = since[x] /\ wire'[x] = wire[x] /\ belief'[x] = belief[x]
          /\ held'[x] = held[x]
      BY <1>1, <2>2
    <3> QED BY <3>1, <3>2, <3>3, Untouched
  <2> QED BY <2>1, <2>2
<1> QED BY <1>2, <1>3, InvBySocket

LEMMA CutStep ==
    ASSUME TypeOK, Inv, NEW s \in Sockets, Cut(s)
    PROVE  TypeOK' /\ Inv'
<1>1. /\ line' = [line EXCEPT ![s] = "cut"] /\ Drop({s})
      /\ row' = row /\ catalog' = catalog /\ conn' = conn /\ pc' = pc
  BY DEF Cut, data
<1>2. /\ line' \in [Sockets -> {"open", "cut"}] /\ line'[s] = "cut"
      /\ \A x \in Sockets \ {s} : line'[x] = line[x]
      /\ conn' \in Sockets \cup {None}
      /\ pc' \in [Sockets -> {"idle", "replacing", "greeting", "serving"}]
  BY <1>1 DEF TypeOK
<1>3. ~Live(s)'
  BY <1>2 DEF Live
<1> QED BY <1>1, <1>2, <1>3, DropStep

LEMMA LeaveStep ==
    ASSUME TypeOK, Inv, NEW s \in Sockets, Leave(s)
    PROVE  TypeOK' /\ Inv'
<1>1. /\ pc' = [pc EXCEPT ![s] = "idle"] /\ line' = [line EXCEPT ![s] = "open"]
      /\ Drop({s}) /\ conn' = None /\ row' = row /\ catalog' = catalog
  BY DEF Leave, data
<1>2. /\ line' \in [Sockets -> {"open", "cut"}] /\ pc'[s] = "idle"
      /\ pc' \in [Sockets -> {"idle", "replacing", "greeting", "serving"}]
      /\ \A x \in Sockets \ {s} : line'[x] = line[x] /\ pc'[x] = pc[x]
  BY <1>1 DEF TypeOK
<1>3. ~Live(s)'
  BY <1>2 DEF Live
<1> QED BY <1>1, <1>2, <1>3, DropStep

LEMMA CrashStep ==
    ASSUME TypeOK, Inv, Crash
    PROVE  TypeOK' /\ Inv'
<1>1. /\ conn' = None /\ pc' = [x \in Sockets |-> "idle"] /\ line' = [x \in Sockets |-> "open"]
      /\ Drop(Sockets) /\ row' = row /\ catalog' = catalog
  BY DEF Crash, data
<1>2. \A x \in Sockets : ~Live(x)'
  BY <1>1 DEF Live
<1> QED BY <1>1, <1>2, DropStep

\* A frame that is read moves what it tells from the wire to the node.
LEMMA ReadStep ==
    ASSUME TypeOK, Inv, NEW s \in Sockets, Read(s)
    PROVE  TypeOK' /\ Inv' /\ (held[s] # None => held'[s] # None /\ held[s] <= held'[s])
<1> DEFINE frame == Head(wire[s])
           b == [f \in Flags |-> IF frame.says[f] = None THEN belief[s][f] ELSE frame.says[f]]
           g == IF frame.version = None THEN held[s] ELSE frame.version
<1>1. /\ Live(s) /\ wire[s] # <<>>
      /\ belief' = [belief EXCEPT ![s] = b]
      /\ held' = [held EXCEPT ![s] = g]
      /\ wire' = [wire EXCEPT ![s] = Tail(wire[s])]
      /\ UNCHANGED <<row, catalog, conn, pc, line, read, since, missed>>
  BY DEF Read, data, local
<1>2. /\ wire[s] \in Seq(Frame) /\ held[s] \in Versions \cup {None}
      /\ catalog \in Versions /\ belief[s] \in [Flags -> BOOLEAN \cup {None}]
      /\ MaxWire \in Nat /\ Len(wire[s]) <= MaxWire + 2
      /\ since[s] \in Versions \cup {None}
  BY SocketTypes DEF TypeOK
<1>3. /\ frame \in Frame /\ Tail(wire[s]) \in Seq(Frame)
      /\ Len(wire[s]) \in Nat \ {0} /\ Len(Tail(wire[s])) = Len(wire[s]) - 1
  BY <1>1, <1>2, AfterHead
<1>4. b \in [Flags -> BOOLEAN \cup {None}] /\ g \in Versions \cup {None}
  BY <1>2, <1>3 DEF Frame
<1>5. SocketInv(s)
  BY InvBySocket
<1>6. /\ Ordered(Tail(wire[s]), g, catalog)
      /\ held[s] # None => g # None /\ held[s] <= g
      /\ \A v \in Versions : Lists(wire[s], held[s], v) => Lists(Tail(wire[s]), g, v)
  <2> DEFINE w == wire[s]
             h == held[s]
  <2>1. Ordered(w, h, catalog) /\ w \in Seq(Frame) /\ w # <<>> /\ h \in Versions \cup {None}
    BY <1>1, <1>2, <1>5 DEF SocketInv
  <2>2. g = IF Head(w).version = None THEN h ELSE Head(w).version
    OBVIOUS
  <2> HIDE DEF w, h, g
  <2>3. /\ Ordered(Tail(w), g, catalog)
        /\ h # None => g # None /\ h <= g
        /\ \A v \in Versions : Lists(w, h, v) => Lists(Tail(w), g, v)
    BY <1>2, <2>1, <2>2, OrderedRead
  <2> QED BY <2>3 DEF w, h
<1>7. \A f \in Flags : Tells(wire[s], belief[s], f, row[f]) => Tells(Tail(wire[s]), b, f, row[f])
  BY <1>1, <1>2, TellsRead
<1> HIDE DEF frame, b, g
<1>8. /\ wire'[s] = Tail(wire[s]) /\ belief'[s] = b /\ held'[s] = g
      /\ \A x \in Sockets \ {s} :
            wire'[x] = wire[x] /\ belief'[x] = belief[x] /\ held'[x] = held[x]
      /\ wire' \in [Sockets -> Seq(Frame)]
      /\ belief' \in [Sockets -> [Flags -> BOOLEAN \cup {None}]]
      /\ held' \in [Sockets -> Versions \cup {None}]
  BY <1>1, <1>3, <1>4 DEF TypeOK
<1>9. TypeOK'
  <2>1. ASSUME NEW x \in Sockets PROVE Len(wire'[x]) <= MaxWire + 2
    <3>1. CASE x = s
      BY <1>2, <1>3, <1>8, <3>1
    <3>2. CASE x # s
      BY <1>8, <3>2 DEF TypeOK
    <3> QED BY <3>1, <3>2
  <2> QED BY <1>1, <1>8, <2>1 DEF TypeOK
<1>10. ASSUME NEW x \in Sockets PROVE SocketInv(x)'
  <2>1. CASE x # s
    BY <1>1, <1>8, <2>1, InvBySocket, Untouched
  <2>2. CASE x = s
    <3>1. Roomy(s)'
      BY <1>1, <1>2, <1>3, <1>5, <1>8 DEF SocketInv, Roomy
    <3>2. Waits(s)'
      BY <1>1, <1>5 DEF SocketInv, Waits, Live
    <3>3. Knows(s)'
      BY <1>1, <1>5, <1>7, <1>8 DEF SocketInv, Knows, Live
    <3>4. Honoured(s)'
      BY <1>1, <1>2, <1>5, <1>6, <1>8 DEF SocketInv, Honoured, Live, Waits
    <3>5. Ordered(wire[s], held[s], catalog)'
      BY <1>1, <1>6, <1>8
    <3> QED BY <2>2, <3>1, <3>2, <3>3, <3>4, <3>5 DEF SocketInv
  <2> QED BY <2>1, <2>2
<1> QED BY <1>6, <1>8, <1>9, <1>10, InvBySocket

-----------------------------------------------------------------------------
(* The steps of the admins.                                                *)

\* A frame for the node goes to the registered connection or nowhere.
LEMMA SendToNodeTypes ==
    ASSUME TypeOK, NEW frame \in Frame, SendToNode(frame)
    PROVE  /\ wire' \in [Sockets -> Seq(Frame)]
           /\ \A x \in Sockets : Len(wire'[x]) <= MaxWire + 2
           /\ \A x \in Sockets :
                 \/ wire'[x] = wire[x] /\ (x = conn => line[x] # "open")
                 \/ /\ wire'[x] = Append(wire[x], frame) /\ x = conn
                    /\ Len(wire[x]) < MaxWire /\ Len(wire'[x]) = Len(wire[x]) + 1
<1>1. CASE conn # None /\ line[conn] = "open"
  <2>1. conn \in Sockets /\ Len(wire[conn]) < MaxWire /\ Send(conn, frame)
    BY <1>1 DEF SendToNode, TypeOK
  <2>2. Len(wire[conn]) <= MaxWire + 1
    BY <2>1, SocketTypes
  <2> QED BY <2>1, <2>2, SentTypes
<1>2. CASE ~(conn # None /\ line[conn] = "open")
  <2>1. wire' = wire
    BY <1>2 DEF SendToNode
  <2>2. \A x \in Sockets : x = conn => line[x] # "open"
    BY <1>2, NodeControlAssumption
  <2> QED BY <2>1, <2>2 DEF TypeOK
<1> QED BY <1>1, <1>2

LEMMA ChangeFlagStep ==
    ASSUME TypeOK, Inv, NEW f \in Flags, NEW v \in BOOLEAN, ChangeFlag(f, v)
    PROVE  TypeOK' /\ Inv'
<1> DEFINE frame == Update(f, v)
<1>1. /\ row' = [row EXCEPT ![f] = v] /\ SendToNode(frame)
      /\ missed' = {m \in missed : m # <<conn, f>>} \cup (Missing(f, v) \X {f})
      /\ UNCHANGED <<catalog, conn, pc, line, read, since, belief, held>>
  BY DEF ChangeFlag, SetFlag, Note, local, node
<1>2. /\ frame \in Frame /\ frame.version = None /\ frame.says[f] = v /\ v # None
      /\ \A g \in Flags \ {f} : frame.says[g] = None
  BY FrameTypes, NodeControlAssumption DEF Update, Unsaid
<1> HIDE DEF frame
<1>3. /\ wire' \in [Sockets -> Seq(Frame)]
      /\ \A x \in Sockets : Len(wire'[x]) <= MaxWire + 2
      /\ \A x \in Sockets :
            \/ wire'[x] = wire[x] /\ (x = conn => line[x] # "open")
            \/ /\ wire'[x] = Append(wire[x], frame) /\ x = conn
               /\ Len(wire[x]) < MaxWire /\ Len(wire'[x]) = Len(wire[x]) + 1
  BY <1>1, <1>2, SendToNodeTypes
<1>4. row' \in Settings /\ row'[f] = v /\ \A g \in Flags \ {f} : row'[g] = row[g]
  BY <1>1 DEF TypeOK, Settings
<1>5. TypeOK'
  <2>1. missed' \subseteq Sockets \X Flags
    BY <1>1 DEF TypeOK, Missing
  <2> QED BY <1>1, <1>3, <1>4, <2>1 DEF TypeOK
<1>6. ASSUME NEW x \in Sockets, NEW g \in Flags, Live(x), <<x, g>> \notin missed'
      PROVE  /\ g # f => <<x, g>> \notin missed
             /\ g = f => x = conn /\ (pc[x] = "replacing" => read[x][f] = v)
  <2>1. CASE g # f
    BY <1>1, <1>6, <2>1
  <2>2. CASE g = f
    <3>1. x \notin Missing(f, v)
      BY <1>1, <1>6, <2>2
    <3> QED BY <1>6, <2>2, <3>1 DEF Missing
  <2> QED BY <2>1, <2>2
<1>7. ASSUME NEW x \in Sockets PROVE SocketInv(x)'
  <2>1. SocketInv(x)
    BY InvBySocket
  <2>2. CASE wire'[x] = wire[x] /\ (x = conn => line[x] # "open")
    <3>1. \A g \in Flags : Live(x) /\ <<x, g>> \notin missed'
                              => <<x, g>> \notin missed /\ row'[g] = row[g]
      BY <1>4, <1>6, <2>2 DEF Live
    <3> QED BY <1>1, <2>1, <2>2, <3>1, Untouched
  <2>3. CASE /\ wire'[x] = Append(wire[x], frame)
             /\ Len(wire[x]) < MaxWire /\ Len(wire'[x]) = Len(wire[x]) + 1
    <3>1. Roomy(x)'
      <4>1. Len(wire[x]) \in Nat /\ MaxWire \in Nat
        BY SocketTypes
      <4>2. Len(wire'[x]) <= MaxWire /\ Len(wire'[x]) <= MaxWire + 1
        BY <2>3, <4>1
      <4> QED BY <4>2 DEF Roomy
    <3>2. Waits(x)'
      <4> SUFFICES ASSUME Live(x)
                   PROVE  /\ since[x] # None /\ since[x] <= catalog
                          /\ pc[x] = "replacing" =>
                                /\ read[x] # None
                                /\ \A g \in Flags : <<x, g>> \notin missed'
                                                       => read[x][g] = row'[g]
        BY <1>1 DEF Waits, Live
      <4>1. /\ since[x] # None /\ since[x] <= catalog
            /\ pc[x] = "replacing" =>
                  /\ read[x] # None
                  /\ \A g \in Flags : <<x, g>> \notin missed => read[x][g] = row[g]
        BY <2>1 DEF SocketInv, Waits
      <4> QED BY <1>4, <1>6, <4>1
    <3>3. CASE pc[x] # "idle"
      <4>1. \A g \in Flags :
              Live(x) /\ pc'[x] \in {"greeting", "serving"} /\ <<x, g>> \notin missed' =>
                 \/ frame.says[g] # None /\ frame.says[g] = row'[g]
                 \/ /\ frame.says[g] = None /\ pc[x] \in {"greeting", "serving"}
                    /\ <<x, g>> \notin missed /\ row'[g] = row[g]
        BY <1>1, <1>2, <1>4, <1>6
      <4> QED BY <1>1, <1>2, <2>1, <2>3, <3>1, <3>2, <3>3, <4>1, Sent
    <3>4. CASE pc[x] = "idle"
      <4>1. Ordered(wire'[x], held[x], catalog)
        BY <1>2, <2>1, <2>3, OrderedAppended, SocketTypes DEF SocketInv
      <4> QED BY <1>1, <3>1, <3>2, <3>4, <4>1 DEF SocketInv, Knows, Honoured, Live
    <3> QED BY <3>3, <3>4
  <2> QED BY <1>3, <2>2, <2>3
<1> QED BY <1>5, <1>7, InvBySocket

LEMMA ProvisionStep ==
    ASSUME TypeOK, Inv, NEW new \in Settings, Provision(new)
    PROVE  TypeOK' /\ Inv'
<1>1. /\ row' = new
      /\ missed' = missed \cup {m \in Sockets \X Flags : Live(m[1]) /\ new[m[2]] # row[m[2]]}
      /\ UNCHANGED <<catalog, conn, pc, line, read, since, wire, belief, held>>
  BY DEF Provision, local, node
<1>2. TypeOK'
  BY <1>1 DEF TypeOK
<1>3. ASSUME NEW x \in Sockets PROVE SocketInv(x)'
  <2>1. \A g \in Flags : Live(x) /\ <<x, g>> \notin missed'
                            => <<x, g>> \notin missed /\ row'[g] = row[g]
    BY <1>1
  <2> QED BY <1>1, <2>1, InvBySocket, Untouched
<1> QED BY <1>2, <1>3, InvBySocket

LEMMA ChangeCatalogStep ==
    ASSUME TypeOK, Inv, ChangeCatalog
    PROVE  TypeOK' /\ Inv'
<1>1. /\ catalog' = catalog + 1 /\ catalog < MaxChanges
      /\ UNCHANGED <<row, conn, pc, line, read, since, wire, belief, held, missed>>
  BY DEF ChangeCatalog, local, node
<1>2. catalog' \in Versions
  BY <1>1, NodeControlAssumption DEF TypeOK, Versions
<1>3. TypeOK'
  BY <1>1, <1>2 DEF TypeOK
<1>4. ASSUME NEW x \in Sockets PROVE SocketInv(x)'
  BY <1>1, InvBySocket, Untouched
<1> QED BY <1>3, <1>4, InvBySocket

LEMMA RequestSyncStep ==
    ASSUME TypeOK, Inv, RequestSync
    PROVE  TypeOK' /\ Inv'
<1> DEFINE frame == SyncRequired(catalog)
<1>1. /\ SendToNode(frame)
      /\ UNCHANGED <<row, catalog, conn, pc, line, read, since, belief, held, missed>>
  BY DEF RequestSync, data, local, node
<1>2. /\ frame \in Frame /\ frame.version = catalog
      /\ \A g \in Flags : frame.says[g] = None
  BY FrameTypes DEF SyncRequired, Unsaid, TypeOK
<1> HIDE DEF frame
<1>3. /\ wire' \in [Sockets -> Seq(Frame)]
      /\ \A x \in Sockets : Len(wire'[x]) <= MaxWire + 2
      /\ \A x \in Sockets :
            \/ wire'[x] = wire[x]
            \/ /\ wire'[x] = Append(wire[x], frame)
               /\ Len(wire[x]) < MaxWire /\ Len(wire'[x]) = Len(wire[x]) + 1
  BY <1>1, <1>2, SendToNodeTypes
<1>4. TypeOK'
  BY <1>1, <1>3 DEF TypeOK
<1>5. ASSUME NEW x \in Sockets PROVE SocketInv(x)'
  <2>1. SocketInv(x)
    BY InvBySocket
  <2>2. CASE wire'[x] = wire[x]
    BY <1>1, <2>1, <2>2, Untouched
  <2>3. CASE /\ wire'[x] = Append(wire[x], frame)
             /\ Len(wire[x]) < MaxWire /\ Len(wire'[x]) = Len(wire[x]) + 1
    <3>1. Roomy(x)'
      <4>1. Len(wire[x]) \in Nat /\ MaxWire \in Nat
        BY SocketTypes
      <4>2. Len(wire'[x]) <= MaxWire /\ Len(wire'[x]) <= MaxWire + 1
        BY <2>3, <4>1
      <4> QED BY <4>2 DEF Roomy
    <3>2. Waits(x)'
      BY <1>1, <2>1 DEF SocketInv, Waits, Live
    <3>3. CASE pc[x] # "idle"
      BY <1>1, <1>2, <2>1, <2>3, <3>1, <3>2, <3>3, Sent
    <3>4. CASE pc[x] = "idle"
      <4>1. Ordered(wire'[x], held[x], catalog)
        BY <1>2, <2>1, <2>3, OrderedAppended, SocketTypes DEF SocketInv
      <4> QED BY <1>1, <3>1, <3>2, <3>4, <4>1 DEF SocketInv, Knows, Honoured, Live
    <3> QED BY <3>3, <3>4
  <2> QED BY <1>3, <2>2, <2>3
<1> QED BY <1>4, <1>5, InvBySocket

-----------------------------------------------------------------------------
(* Theorems.                                                               *)

LEMMA InvStep ==
    ASSUME TypeOK, Inv, [Next]_vars
    PROVE  TypeOK' /\ Inv'
<1>1. CASE UNCHANGED vars
  <2>1. TypeOK'
    BY <1>1 DEF vars, TypeOK
  <2>2. ASSUME NEW x \in Sockets PROVE SocketInv(x)'
    BY <1>1, InvBySocket, Untouched DEF vars
  <2> QED BY <2>1, <2>2, InvBySocket
<1>2. CASE Next
  BY <1>2, HelloStep, HelloReplacesStep, AckStep, GreetStep, CutStep, LeaveStep, ReadStep,
     ChangeFlagStep, ProvisionStep, ChangeCatalogStep, RequestSyncStep, CrashStep DEF Next
<1> QED BY <1>1, <1>2

\* The type invariant, with the room that is left on the wire
\* (endpoint.py:34-69, nodes.py:171-220).
THEOREM TypeCorrect == Spec => []TypeOK
BY TypeOKInit, InvInit, InvStep, PTL DEF Spec

\* What each connection has been told, and is about to be, agrees with the row
\* and the catalogue (endpoint.py:34-69).
THEOREM Consistent == Spec => []Inv
BY TypeOKInit, InvInit, InvStep, PTL DEF Spec

\* A registered node goes by the flags of its row once it has read its frames,
\* for any number of flags, connections and changes, unless it missed a change
\* (nodes.py:171-220, endpoint.py:34-53).
THEOREM FlagsAreTold == Spec => []KnowsFlags
<1>1. Inv => KnowsFlags
  BY DEF Inv
<1> QED BY <1>1, Consistent, PTL

\* A node that was told to sync gets a list no older than that, or there was a
\* catalogue with no active spot (endpoint.py:40-69).
THEOREM SyncIsHonoured == Spec => []SyncHonoured
<1>1. Inv => SyncHonoured
  BY DEF Inv
<1> QED BY <1>1, Consistent, PTL

\* The lists come in the order of the catalogue (endpoint.py:55-69,
\* playback_service.py:42-56).
THEOREM ListsComeInOrder == Spec => SyncsInOrder
<1> DEFINE Rises == \A s \in Sockets :
                       held[s] # None /\ held'[s] # None => held[s] <= held'[s]
<1>1. ASSUME TypeOK, Inv, [Next]_vars PROVE [Rises]_vars
  <2>1. \A s \in Sockets : held[s] # None => held[s] <= held[s]
    <3>1. \A v \in Versions : v <= v
      BY NodeControlAssumption DEF Versions
    <3> QED BY <1>1, <3>1 DEF TypeOK
  <2> DEFINE Kept == \A s \in Sockets : held'[s] \in {held[s], None}
  <2>2. Kept => Rises
    BY <2>1
  <2>3. ASSUME NEW s \in Sockets, Read(s) PROVE Rises
    <3>1. held[s] # None => held'[s] # None /\ held[s] <= held'[s]
      BY <1>1, <2>3, ReadStep
    <3>2. \A x \in Sockets \ {s} : held'[x] = held[x]
      BY <1>1, <2>3 DEF Read, TypeOK
    <3> QED BY <2>1, <3>1, <3>2
  <2>4. held' = held => Kept
    OBVIOUS
  <2>5. ASSUME NEW S, Silence(S) PROVE Kept
    BY <2>5 DEF Silence
  <2> HIDE DEF Rises, Kept
  <2>6. ASSUME NEW s \in Sockets, Hello(s) \/ Ack(s) \/ Greet(s) PROVE Rises
    BY <2>2, <2>4, <2>6 DEF Hello, Ack, Greet, node
  <2>7. ASSUME NEW s \in Sockets, HelloReplaces(s) \/ Cut(s) \/ Leave(s) PROVE Rises
    BY <2>2, <2>5, <2>7 DEF HelloReplaces, Cut, Leave, Drop
  <2>8. ASSUME NEW f \in Flags, NEW v \in BOOLEAN, ChangeFlag(f, v) PROVE Rises
    BY <2>2, <2>4, <2>8 DEF ChangeFlag, node
  <2>9. ASSUME NEW new \in Settings, Provision(new) PROVE Rises
    BY <2>2, <2>4, <2>9 DEF Provision, node
  <2>10. CASE ChangeCatalog \/ RequestSync
    BY <2>2, <2>4, <2>10 DEF ChangeCatalog, RequestSync, node
  <2>11. CASE Crash
    BY <2>2, <2>5, <2>11 DEF Crash, Drop
  <2> QED
    BY <1>1, <2>3, <2>6, <2>7, <2>8, <2>9, <2>10, <2>11 DEF Next
<1> QED BY <1>1, TypeCorrect, Consistent, PTL DEF SyncsInOrder, Spec

=============================================================================
