---------------------------- MODULE IsoTpProofs ----------------------------
(***************************************************************************)
(* Type correctness of IsoTp and its three safety properties, for messages *)
(* of any length, any sequence number modulus and any number of exchanges  *)
(* and faults.  Delivery says where the one message of the exchange may be *)
(* as long as the gateway has not fallen behind; Recovery says that it is  *)
(* somewhere, and whole, once exchanges have failed without a new fault.   *)
(***************************************************************************)
EXTENDS IsoTp, SequenceTheorems, TLAPS

(* RANGES                                                                  *)
Pieces     == (0 .. MaxExchanges) \X Sizes \X Nat
Assemblies == [on : BOOLEAN, total : Sizes, got : Seq(Pieces), due : BOOLEAN, raced : BOOLEAN]
Messages   == [total : Sizes, got : Seq(Pieces) \ {<< >>}]
Sendings   == [st : {"idle", "wait", "send"}, ex : 0 .. MaxExchanges, size : Sizes, next : Nat,
               due : BOOLEAN, old : BOOLEAN]
Clients    == [pc : {"idle", "fc", "send", "answer", "cfs"}, ex : 0 .. MaxExchanges, size : Sizes,
               next : Nat, in : Assemblies]

(* A first frame announces more than a single frame holds.                 *)
LongFirsts(s) == \A k \in DOMAIN s : s[k].pci = "FF" => s[k].size > 0

Unfinished(r) == r.on => Len(r.got) \in 1 .. r.total
Underway      == tx.st # "idle" => tx.next \in 1 .. tx.size

Wire == /\ toNode \in Seq(Frames) /\ LongFirsts(toNode) /\ Len(toNode) <= Depth
        /\ toClient \in Seq(Frames) /\ LongFirsts(toClient)

Above == /\ client \in Clients /\ answer \in [ex : 0 .. MaxExchanges, got : Seq(Pieces)]
         /\ behind \in BOOLEAN

Below == /\ node \in Nodes /\ diag \in {"loop", "main"}
         /\ rx \in Assemblies /\ Unfinished(rx)
         /\ tx \in Sendings /\ Underway
         /\ inbox \in Seq(Messages) /\ Len(inbox) <= QueueDepth

(* An exchange fails once.                                                 *)
Counted ==
  /\ budget \in 0 .. MaxFaults /\ fails \in Nat
  /\ IF client.pc = "idle" THEN fails <= client.ex ELSE fails < client.ex

Typed == Wire /\ Above /\ Below /\ Counted
-----------------------------------------------------------------------------
(* FRAMES AND SEQUENCES OF THEM                                            *)

LEMMA Parameters ==
  /\ Sizes \subseteq Nat /\ 0 \in Sizes /\ Nodes \subseteq {"boot", "app"}
  /\ SnMod \in Nat \ {0, 1} /\ MailboxDepth \in Nat \ {0} /\ QueueDepth \in Nat \ {0}
  /\ MaxExchanges \in Nat /\ MaxFaults \in Nat /\ Depth \in Nat \ {0}
BY ParametersAssumption DEF Depth

LEMMA WithoutOne ==
  ASSUME NEW S, NEW s \in Seq(S), NEW k \in DOMAIN s
  PROVE  /\ Without(s, k) \in Seq(S) /\ Len(Without(s, k)) = Len(s) - 1
         /\ \A j \in 1 .. Len(s) - 1 : Without(s, k)[j] = IF j < k THEN s[j] ELSE s[j + 1]
<1> DEFINE a == SubSeq(s, 1, k - 1)
           b == SubSeq(s, k + 1, Len(s))
<1>1. k \in 1 .. Len(s) /\ Len(s) \in Nat
  BY LenProperties
<1>2. a \in Seq(S) /\ Len(a) = k - 1 /\ \A j \in 1 .. k - 1 : a[j] = s[j]
  <2>1. \A i \in 1 .. k - 1 : s[i] \in S
    BY <1>1, ElementOfSeq
  <2> QED BY <1>1, <2>1, SubSeqProperties
<1>3. b \in Seq(S) /\ Len(b) = Len(s) - k /\ \A j \in 1 .. Len(s) - k : b[j] = s[k + j]
  <2>1. \A i \in k + 1 .. Len(s) : s[i] \in S
    BY <1>1, ElementOfSeq
  <2>2. /\ b \in Seq(S)
        /\ Len(b) = IF k + 1 <= Len(s) THEN Len(s) - (k + 1) + 1 ELSE 0
        /\ \A j \in 1 .. Len(s) - (k + 1) + 1 : b[j] = s[k + 1 + j - 1]
    BY <1>1, <2>1, SubSeqProperties
  <2> QED BY <1>1, <2>2
<1> HIDE DEF a, b
<1>4. /\ a \o b \in Seq(S) /\ Len(a \o b) = Len(a) + Len(b)
      /\ \A j \in 1 .. Len(a) + Len(b) : (a \o b)[j] = IF j <= Len(a) THEN a[j] ELSE b[j - Len(a)]
  BY <1>2, <1>3, ConcatProperties
<1>5. Len(a) + Len(b) = Len(s) - 1
  BY <1>1, <1>2, <1>3
<1>6. ASSUME NEW j \in 1 .. Len(s) - 1
      PROVE  (a \o b)[j] = IF j < k THEN s[j] ELSE s[j + 1]
  <2>1. (a \o b)[j] = IF j <= k - 1 THEN a[j] ELSE b[j - (k - 1)]
    BY <1>2, <1>4, <1>5
  <2>2. CASE j < k
    <3>1. j <= k - 1 /\ j \in 1 .. k - 1
      BY <1>1, <2>2
    <3>2. a[j] = s[j]
      BY <1>2, <3>1
    <3> QED BY <2>1, <2>2, <3>1, <3>2
  <2>3. CASE ~(j < k)
    <3>1. j - (k - 1) \in 1 .. Len(s) - k /\ ~(j <= k - 1) /\ k + (j - (k - 1)) = j + 1
      BY <1>1, <2>3
    <3>2. b[j - (k - 1)] = s[k + (j - (k - 1))]
      BY <1>3, <3>1
    <3> QED BY <2>1, <2>3, <3>1, <3>2
  <2> QED BY <2>2, <2>3
<1> QED BY <1>1, <1>2, <1>3, <1>4, <1>5, <1>6 DEF Without, a, b

LEMMA TailOne ==
  ASSUME NEW S, NEW s \in Seq(S), s # << >>
  PROVE  /\ Head(s) \in S /\ Head(s) = s[1] /\ Tail(s) \in Seq(S)
         /\ Len(s) \in Nat \ {0} /\ Len(Tail(s)) = Len(s) - 1 /\ 1 \in DOMAIN s
         /\ \A j \in 1 .. Len(s) - 1 : Tail(s)[j] = s[j + 1] /\ j + 1 \in DOMAIN s
<1>1. Len(s) \in Nat /\ Len(s) # 0 /\ DOMAIN s = 1 .. Len(s)
  BY LenProperties, EmptySeq
<1>2. /\ Head(s) \in S /\ Tail(s) \in Seq(S) /\ Len(Tail(s)) = Len(s) - 1
      /\ \A i \in 1 .. Len(Tail(s)) : Tail(s)[i] = s[i + 1]
  BY HeadTailProperties
<1> QED BY <1>1, <1>2

LEMMA AppendOne ==
  ASSUME NEW S, NEW s \in Seq(S), NEW x \in S
  PROVE  /\ Append(s, x) \in Seq(S) /\ Append(s, x) # << >>
         /\ Len(s) \in Nat /\ Len(Append(s, x)) = Len(s) + 1
         /\ \A j \in 1 .. Len(s) : Append(s, x)[j] = s[j]
         /\ Append(s, x)[Len(s) + 1] = x
BY AppendProperties, LenProperties

LEMMA Singleton ==
  ASSUME NEW S, NEW x \in S
  PROVE  /\ <<x>> \in Seq(S) /\ <<x>> # << >> /\ Len(<<x>>) = 1
         /\ Head(<<x>>) = x /\ Tail(<<x>>) = << >> /\ <<x>>[1] = x /\ DOMAIN <<x>> = {1}
OBVIOUS

LEMMA FrameType ==
  /\ FC(CTS) \in Frames /\ FC(OVFLW) \in Frames
  /\ FC(CTS).pci = "FC" /\ FC(OVFLW).pci = "FC"
  /\ \A ex \in 0 .. MaxExchanges, size \in Sizes :
       /\ Opening(ex, size) \in Frames
       /\ Opening(ex, size).pci = (IF size = 0 THEN "SF" ELSE "FF") /\ Opening(ex, size).size = size
       /\ \A i \in Nat : CF(ex, size, i) \in Frames /\ CF(ex, size, i).pci = "CF"
BY Parameters DEF FC, CTS, OVFLW, Frame, Frames, Opening, CF

LEMMA NothingType == Nothing \in Assemblies /\ ~Nothing.on
BY Parameters, EmptySeq DEF Nothing, Assemblies

LEMMA PieceType ==
  ASSUME NEW f \in Frames
  PROVE  Piece(f) \in Pieces
BY DEF Piece, Pieces, Frames

LEMMA BegunType ==
  ASSUME NEW r, NEW f \in Frames
  PROVE  /\ Begun(r, f) \in Assemblies /\ Begun(r, f).on
         /\ Begun(r, f).total = f.size /\ Begun(r, f).got = <<Piece(f)>>
         /\ ~Begun(r, f).due /\ ~Begun(r, f).raced
<1>1. <<Piece(f)>> \in Seq(Pieces)
  BY PieceType, Singleton
<1>2. f.size \in Sizes
  BY DEF Frames
<1> QED BY <1>1, <1>2 DEF Begun, Nothing, Assemblies

LEMMA ExtendedType ==
  ASSUME NEW r \in Assemblies, NEW f \in Frames
  PROVE  /\ Extended(r, f) \in Assemblies /\ Extended(r, f).on = r.on
         /\ Extended(r, f).total = r.total /\ Extended(r, f).got = Append(r.got, Piece(f))
         /\ ~Extended(r, f).due /\ ~Extended(r, f).raced
         /\ Len(Extended(r, f).got) = Len(r.got) + 1 /\ Extended(r, f).got \in Seq(Pieces) \ {<< >>}
<1>1. r.got \in Seq(Pieces)
  BY DEF Assemblies
<1>2. Append(r.got, Piece(f)) \in Seq(Pieces) /\ Append(r.got, Piece(f)) # << >>
      /\ Len(Append(r.got, Piece(f))) = Len(r.got) + 1
  BY <1>1, PieceType, AppendOne
<1> QED BY <1>2 DEF Extended, Assemblies

LEMMA FirstsAppend ==
  ASSUME NEW s \in Seq(Frames), LongFirsts(s), NEW f \in Frames, f.pci = "FF" => f.size > 0
  PROVE  Append(s, f) \in Seq(Frames) /\ LongFirsts(Append(s, f))
<1>1. /\ Append(s, f) \in Seq(Frames) /\ Len(Append(s, f)) = Len(s) + 1 /\ Len(s) \in Nat
      /\ \A j \in 1 .. Len(s) : Append(s, f)[j] = s[j]
      /\ Append(s, f)[Len(s) + 1] = f
  BY AppendOne
<1>2. DOMAIN Append(s, f) = 1 .. Len(s) + 1 /\ DOMAIN s = 1 .. Len(s)
  BY <1>1, LenProperties
<1> SUFFICES ASSUME NEW k \in 1 .. Len(s) + 1, Append(s, f)[k].pci = "FF"
             PROVE  Append(s, f)[k].size > 0
  BY <1>1, <1>2 DEF LongFirsts
<1>3. CASE k = Len(s) + 1
  BY <1>1, <1>3
<1>4. CASE k # Len(s) + 1
  <2>1. k \in DOMAIN s /\ Append(s, f)[k] = s[k]
    BY <1>1, <1>2, <1>4
  <2> QED BY <2>1 DEF LongFirsts
<1> QED BY <1>3, <1>4

LEMMA FirstsTail ==
  ASSUME NEW s \in Seq(Frames), LongFirsts(s), s # << >>
  PROVE  /\ Head(s) \in Frames /\ (Head(s).pci = "FF" => Head(s).size > 0)
         /\ Tail(s) \in Seq(Frames) /\ LongFirsts(Tail(s)) /\ Len(Tail(s)) = Len(s) - 1
<1>1. /\ Head(s) \in Frames /\ Head(s) = s[1] /\ Tail(s) \in Seq(Frames)
      /\ Len(s) \in Nat \ {0} /\ Len(Tail(s)) = Len(s) - 1 /\ 1 \in DOMAIN s
      /\ \A j \in 1 .. Len(s) - 1 : Tail(s)[j] = s[j + 1] /\ j + 1 \in DOMAIN s
  BY TailOne
<1>2. DOMAIN Tail(s) = 1 .. Len(s) - 1
  BY <1>1, LenProperties
<1> QED BY <1>1, <1>2 DEF LongFirsts

LEMMA FirstsWithout ==
  ASSUME NEW s \in Seq(Frames), LongFirsts(s), NEW k \in DOMAIN s
  PROVE  /\ Without(s, k) \in Seq(Frames) /\ LongFirsts(Without(s, k))
         /\ Len(Without(s, k)) = Len(s) - 1
<1>1. /\ Without(s, k) \in Seq(Frames) /\ Len(Without(s, k)) = Len(s) - 1
      /\ \A j \in 1 .. Len(s) - 1 : Without(s, k)[j] = IF j < k THEN s[j] ELSE s[j + 1]
  BY WithoutOne
<1>2. DOMAIN Without(s, k) = 1 .. Len(s) - 1 /\ DOMAIN s = 1 .. Len(s) /\ Len(s) \in Nat
  BY <1>1, LenProperties
<1> SUFFICES ASSUME NEW j \in 1 .. Len(s) - 1, Without(s, k)[j].pci = "FF"
             PROVE  Without(s, k)[j].size > 0
  BY <1>1, <1>2 DEF LongFirsts
<1>3. j \in DOMAIN s /\ j + 1 \in DOMAIN s
  BY <1>2
<1> QED BY <1>1, <1>3 DEF LongFirsts

(* What a node that takes a frame may send at once.                        *)
LEMMA TookEach ==
  ASSUME NEW S, toClient \in Seq(S)
  PROVE  /\ Took(<< >>) => toNode' = Tail(toNode) /\ toClient' = toClient
         /\ \A f \in S : Took(<<f>>) => toNode' = Tail(toNode) /\ toClient' = Append(toClient, f)
<1>1. toClient \o << >> = toClient
  BY ConcatEmptySeq
<1>2. ASSUME NEW f \in S PROVE toClient \o <<f>> = Append(toClient, f)
  BY AppendIsConcat
<1> QED BY <1>1, <1>2 DEF Took

LEMMA TookWire ==
  ASSUME Wire, toNode # << >>, UNCHANGED node,
         Took(<< >>) \/ Took(<<FC(CTS)>>) \/ Took(<<FC(OVFLW)>>)
  PROVE  Wire'
<1>1. /\ Tail(toNode) \in Seq(Frames) /\ LongFirsts(Tail(toNode))
      /\ Len(Tail(toNode)) = Len(toNode) - 1 /\ Len(toNode) \in Nat
  BY FirstsTail, LenProperties DEF Wire
<1>2. /\ toNode' = Tail(toNode)
      /\ \/ toClient' = toClient
         \/ \E f \in {FC(CTS), FC(OVFLW)} : toClient' = Append(toClient, f)
  BY TookEach, FrameType DEF Wire
<1>3. toClient' \in Seq(Frames) /\ LongFirsts(toClient)'
  <2>1. CASE toClient' = toClient
    BY <2>1 DEF Wire, LongFirsts
  <2>2. CASE \E f \in {FC(CTS), FC(OVFLW)} : toClient' = Append(toClient, f)
    <3>1. PICK f \in {FC(CTS), FC(OVFLW)} : toClient' = Append(toClient, f)
      BY <2>2
    <3>2. Append(toClient, f) \in Seq(Frames) /\ LongFirsts(Append(toClient, f))
      BY <3>1, FrameType, FirstsAppend DEF Wire
    <3> QED BY <3>1, <3>2 DEF LongFirsts
  <2> QED BY <1>2, <2>1, <2>2
<1>4. LongFirsts(toNode)' /\ Len(toNode)' <= Depth'
  BY <1>1, <1>2, Parameters DEF Wire, LongFirsts, Depth
<1> QED BY <1>1, <1>2, <1>3, <1>4 DEF Wire

(* The gateway or the node sends one frame.                                *)
LEMMA ToNodeWire ==
  ASSUME Wire, NEW f \in Frames, f.pci = "FF" => f.size > 0, Len(toNode) < Depth,
         toNode' = Append(toNode, f), UNCHANGED <<node, toClient>>
  PROVE  Wire'
<1>1. Append(toNode, f) \in Seq(Frames) /\ LongFirsts(Append(toNode, f))
  BY FirstsAppend DEF Wire
<1>2. Len(Append(toNode, f)) = Len(toNode) + 1 /\ Len(toNode) \in Nat
  BY AppendOne DEF Wire
<1> QED BY <1>1, <1>2, Parameters DEF Wire, LongFirsts, Depth

LEMMA ToClientWire ==
  ASSUME Wire, NEW f \in Frames, f.pci = "FF" => f.size > 0,
         toClient' = Append(toClient, f), UNCHANGED <<node, toNode>>
  PROVE  Wire'
<1>1. Append(toClient, f) \in Seq(Frames) /\ LongFirsts(Append(toClient, f))
  BY FirstsAppend DEF Wire
<1> QED BY <1>1 DEF Wire, LongFirsts, Depth

-----------------------------------------------------------------------------
(* TYPE CORRECTNESS                                                        *)

LEMMA CostType ==
  ASSUME Counted, NEW n \in Nat, Cost(n), client'.pc = client.pc, client'.ex = client.ex,
         client \in Clients
  PROVE  Counted'
<1>1. budget' \in 0 .. MaxFaults /\ fails' \in {0, fails}
  BY Parameters DEF Counted, Cost
<1>2. client.ex \in Nat /\ 0 <= client.ex
  BY Parameters DEF Clients
<1> QED BY <1>1, <1>2 DEF Counted

LEMMA FreeType ==
  ASSUME Counted, Free, client'.pc = client.pc, client'.ex = client.ex
  PROVE  Counted'
BY DEF Counted, Free

LEMMA ClientType ==
  ASSUME Typed
  PROVE  /\ client.pc \in {"idle", "fc", "send", "answer", "cfs"} /\ client.ex \in 0 .. MaxExchanges
         /\ client.ex \in Nat /\ client.size \in Sizes /\ client.size \in Nat
         /\ client.next \in Nat /\ client.in \in Assemblies
<1>1. /\ client.pc \in {"idle", "fc", "send", "answer", "cfs"} /\ client.ex \in 0 .. MaxExchanges
      /\ client.size \in Sizes /\ client.next \in Nat /\ client.in \in Assemblies
  BY DEF Typed, Above, Clients
<1>2. client.ex \in Nat
  BY <1>1, Parameters
<1>3. client.size \in Nat
  BY <1>1, Parameters
<1> QED BY <1>1, <1>2, <1>3

LEMMA AskType ==
  ASSUME Typed, NEW size \in Sizes, Ask(size)
  PROVE  Typed'
<1>1. client.ex + 1 \in 0 .. MaxExchanges /\ client.ex + 1 \in Nat
  BY ClientType, Parameters DEF Ask
<1>2. Wire'
  BY <1>1, FrameType, ToNodeWire, Parameters DEF Ask, Typed
<1>3. client' \in Clients
  <2>1. (IF size = 0 THEN "answer" ELSE "fc") \in {"fc", "answer"}
    OBVIOUS
  <2> QED BY <1>1, <2>1 DEF Ask, Typed, Above, Clients
<1>4. << >> \in Seq(Pieces)
  BY EmptySeq
<1>5. Above'
  BY <1>3, <1>4, Parameters DEF Ask, Typed, Above
<1>6. tx' \in Sendings /\ Underway'
  BY DEF Ask, Typed, Below, Sendings, Underway
<1>7. Below'
  BY <1>6 DEF Ask, Typed, Below, Unfinished
<1>8. client'.pc # "idle" /\ client'.ex = client.ex + 1
  BY ClientType DEF Ask, Typed, Above, Clients
<1>9. fails' \in {0, fails} /\ budget' = budget
  BY DEF Ask
<1>10. Counted'
  BY <1>8, <1>9, ClientType DEF Typed, Counted, Ask
<1> QED BY <1>2, <1>5, <1>7, <1>10 DEF Typed

LEMMA NodeKept == Below /\ NodeUnchanged => Below'
BY DEF Below, NodeUnchanged, Unfinished, Underway

LEMMA SendCfType ==
  ASSUME Typed, SendCf
  PROVE  Typed'
<1>1. Wire'
  <2>1. /\ CF(client.ex, client.size, client.next) \in Frames
        /\ CF(client.ex, client.size, client.next).pci = "CF"
    BY ClientType, FrameType
  <2> QED BY <2>1, ToNodeWire DEF SendCf, NodeUnchanged, Typed
<1>2. client' \in Clients /\ client'.pc # "idle" /\ client'.ex = client.ex
  <2>1. client.next + 1 \in Nat
    BY ClientType
  <2>2. (IF client.next = client.size THEN "answer" ELSE client.pc) \in {"send", "answer"}
    BY DEF SendCf
  <2> QED BY <2>1, <2>2 DEF SendCf, Typed, Above, Clients
<1>3. Above'
  BY <1>2 DEF SendCf, Typed, Above
<1>4. Below'
  BY NodeKept DEF SendCf, Typed
<1>5. Counted'
  BY <1>2 DEF SendCf, Free, Typed, Counted
<1> QED BY <1>1, <1>3, <1>4, <1>5 DEF Typed

LEMMA RaisedType ==
  ASSUME Typed, NEW n \in Nat, Raised(n), client.pc # "idle"
  PROVE  Above' /\ Counted'
<1>1. client' \in Clients /\ client'.pc = "idle" /\ client'.ex = client.ex
  BY ClientType, NothingType DEF Raised, Typed, Above, Clients
<1>2. behind' \in BOOLEAN
  BY DEF Raised, Typed, Above, NodeQuiet
<1>3. fails' \in {1, fails + 1} /\ budget' \in 0 .. MaxFaults
  BY Parameters DEF Raised, Typed, Counted
<1>4. Counted'
  BY <1>1, <1>3, ClientType DEF Typed, Counted
<1> QED BY <1>1, <1>2, <1>4 DEF Typed, Above, Raised

LEMMA ReturnedType ==
  ASSUME Typed, NEW got \in Seq(Pieces), Returned(got), Free, UNCHANGED behind,
         client.pc # "idle"
  PROVE  Above' /\ Counted'
<1>1. client' \in Clients /\ client'.pc = "idle" /\ client'.ex = client.ex
  BY ClientType, NothingType DEF Returned, Typed, Above, Clients
<1>2. answer' \in [ex : 0 .. MaxExchanges, got : Seq(Pieces)]
  BY ClientType DEF Returned
<1>3. Counted'
  BY <1>1, ClientType DEF Free, Typed, Counted
<1> QED BY <1>1, <1>2, <1>3 DEF Typed, Above

LEMMA ClientReceivesType ==
  ASSUME Typed, ClientReceives
  PROVE  Typed'
<1> DEFINE f == Head(toClient)
           grown == Extended(client.in, f)
<1>1. /\ f \in Frames /\ (f.pci = "FF" => f.size > 0)
      /\ Tail(toClient) \in Seq(Frames) /\ LongFirsts(Tail(toClient))
  BY FirstsTail DEF ClientReceives, Typed, Wire
<1>2. Wire'
  <2>1. /\ toClient' \in Seq(Frames) /\ LongFirsts(toClient)'
    BY <1>1 DEF ClientReceives, LongFirsts
  <2>2. /\ toNode' \in Seq(Frames) /\ LongFirsts(toNode)' /\ Len(toNode)' <= Depth'
    <3>1. CASE toNode' = toNode
      BY <3>1 DEF ClientReceives, NodeUnchanged, Typed, Wire, LongFirsts, Depth
    <3>2. CASE Len(toNode) < Depth /\ toNode' = Append(toNode, FC(CTS))
      <4>1. /\ Append(toNode, FC(CTS)) \in Seq(Frames) /\ LongFirsts(Append(toNode, FC(CTS)))
            /\ Len(Append(toNode, FC(CTS))) = Len(toNode) + 1 /\ Len(toNode) \in Nat
        BY FrameType, FirstsAppend, AppendOne DEF Typed, Wire
      <4> QED BY <3>2, <4>1, Parameters DEF ClientReceives, NodeUnchanged, LongFirsts, Depth
    <3> QED BY <3>1, <3>2 DEF ClientReceives
  <2> QED BY <2>1, <2>2 DEF Wire
<1>3. Below'
  BY NodeKept DEF ClientReceives, Typed
<1>4. client.pc # "idle" /\ client.pc \in {"fc", "answer", "cfs"}
  BY DEF ClientReceives
<1>5. /\ Begun(client.in, f) \in Assemblies /\ grown \in Assemblies
      /\ grown.got \in Seq(Pieces) /\ <<Piece(f)>> \in Seq(Pieces)
  BY <1>1, ClientType, BegunType, ExtendedType, PieceType, Singleton
<1> HIDE DEF f, grown
<1>6. Above' /\ Counted'
  <2>1. CASE client' = [client EXCEPT !.pc = "send"] /\ UNCHANGED <<answer, behind>> /\ Free
    <3>1. client' \in Clients /\ client'.pc = "send" /\ client'.ex = client.ex
      BY <2>1, ClientType DEF Typed, Above, Clients
    <3> QED BY <1>4, <2>1, <3>1 DEF Typed, Above, Counted, Free
  <2>2. CASE Returned(<<Piece(f)>>) /\ UNCHANGED behind /\ Free
    BY <1>4, <1>5, <2>2, ReturnedType
  <2>3. CASE /\ client' = [client EXCEPT !.pc = "cfs", !.in = Begun(client.in, f)]
             /\ UNCHANGED <<answer, behind>> /\ Free
    <3>1. client' \in Clients /\ client'.pc = "cfs" /\ client'.ex = client.ex
      BY <1>5, <2>3, ClientType DEF Typed, Above, Clients
    <3> QED BY <1>4, <2>3, <3>1 DEF Typed, Above, Counted, Free
  <2>4. CASE Returned(grown.got) /\ UNCHANGED behind /\ Free
    BY <1>4, <1>5, <2>4, ReturnedType
  <2>5. CASE client' = [client EXCEPT !.in = grown] /\ UNCHANGED <<answer, behind>> /\ Free
    <3>1. client' \in Clients /\ client'.pc = client.pc /\ client'.ex = client.ex
      BY <1>5, <2>5, ClientType DEF Typed, Above, Clients
    <3> QED BY <2>5, <3>1 DEF Typed, Above, Counted, Free
  <2>6. CASE Raised(0)
    BY <1>4, <2>6, RaisedType
  <2> QED BY <2>1, <2>2, <2>3, <2>4, <2>5, <2>6 DEF ClientReceives, f, grown
<1> QED BY <1>2, <1>3, <1>6 DEF Typed

LEMMA ClientTimesOutType ==
  ASSUME Typed, ClientTimesOut
  PROVE  Typed'
<1>1. Wire'
  BY DEF ClientTimesOut, NodeUnchanged, Typed, Wire, LongFirsts, Depth
<1>2. Below'
  BY NodeKept DEF ClientTimesOut, Typed
<1>3. Above' /\ Counted'
  <2>1. PICK n \in {0, 1} : Raised(n)
    BY DEF ClientTimesOut
  <2> QED BY <2>1, RaisedType DEF ClientTimesOut
<1> QED BY <1>1, <1>2, <1>3 DEF Typed

LEMMA AboveKept ==
  ASSUME Typed, ClientUnchanged, Free \/ Cost(0) \/ Cost(1)
  PROVE  Above' /\ Counted'
<1>1. client \in Clients /\ client' = client
  BY DEF Typed, Above, ClientUnchanged
<1>2. Above'
  BY <1>1 DEF Typed, Above, ClientUnchanged
<1>3. Counted'
  BY <1>1, FreeType, CostType DEF Typed
<1> QED BY <1>2, <1>3

LEMMA NodeType ==
  ASSUME Typed
  PROVE  /\ rx \in Assemblies /\ Unfinished(rx) /\ rx.got \in Seq(Pieces) /\ Len(rx.got) \in Nat
         /\ rx.total \in Sizes /\ rx.total \in Nat /\ rx.on \in BOOLEAN
         /\ tx \in Sendings /\ Underway /\ tx.st \in {"idle", "wait", "send"}
         /\ tx.ex \in 0 .. MaxExchanges /\ tx.size \in Sizes /\ tx.size \in Nat /\ tx.next \in Nat
         /\ inbox \in Seq(Messages) /\ Len(inbox) \in Nat /\ Len(inbox) <= QueueDepth
<1>1. rx \in Assemblies /\ tx \in Sendings /\ inbox \in Seq(Messages) /\ Unfinished(rx)
      /\ Underway /\ Len(inbox) <= QueueDepth
  BY DEF Typed, Below
<1>2. rx.got \in Seq(Pieces) /\ rx.total \in Sizes /\ rx.on \in BOOLEAN
  BY <1>1 DEF Assemblies
<1>3. Len(rx.got) \in Nat /\ Len(inbox) \in Nat
  BY <1>1, <1>2, LenProperties
<1>4. /\ tx.st \in {"idle", "wait", "send"} /\ tx.ex \in 0 .. MaxExchanges
      /\ tx.size \in Sizes /\ tx.next \in Nat
  BY <1>1 DEF Sendings
<1>5. rx.total \in Nat
  BY <1>2, Parameters
<1>6. tx.size \in Nat
  BY <1>4, Parameters
<1> QED BY <1>1, <1>2, <1>3, <1>4, <1>5, <1>6

LEMMA NothingFinished == Unfinished(Nothing)
BY NothingType DEF Unfinished

LEMMA BegunUnfinished ==
  ASSUME NEW r, NEW f \in Frames, f.size > 0
  PROVE  Unfinished(Begun(r, f))
<1>1. Len(<<Piece(f)>>) = 1 /\ f.size \in Nat
  BY Singleton, PieceType, Parameters DEF Frames
<1>2. Begun(r, f).got = <<Piece(f)>> /\ Begun(r, f).total = f.size
  BY BegunType
<1>3. Len(Begun(r, f).got) = 1
  BY <1>1, <1>2
<1> QED BY <1>1, <1>2, <1>3 DEF Unfinished

LEMMA ExtendedUnfinished ==
  ASSUME NEW r \in Assemblies, NEW f \in Frames, r.on, Unfinished(r), ~Complete(Extended(r, f))
  PROVE  Unfinished(Extended(r, f))
<1>1. Len(r.got) \in 1 .. r.total /\ r.total \in Nat /\ Len(r.got) \in Nat
  <2>1. r.got \in Seq(Pieces) /\ r.total \in Sizes
    BY DEF Assemblies
  <2>2. Len(r.got) \in Nat
    BY <2>1, LenProperties
  <2>3. r.total \in Nat
    BY <2>1, Parameters
  <2> QED BY <2>2, <2>3 DEF Unfinished
<1> QED BY <1>1, ExtendedType DEF Unfinished, Complete

LEMMA MessageType ==
  ASSUME NEW size \in Sizes, NEW got \in Seq(Pieces), got # << >>
  PROVE  [total |-> size, got |-> got] \in Messages
BY DEF Messages

LEMMA AskedType ==
  ASSUME Typed, inbox # << >>
  PROVE  /\ Asked(Head(inbox)) \in 0 .. MaxExchanges
         /\ Tail(inbox) \in Seq(Messages) /\ Len(Tail(inbox)) <= QueueDepth
<1>1. /\ Head(inbox) \in Messages /\ Tail(inbox) \in Seq(Messages)
      /\ Len(Tail(inbox)) = Len(inbox) - 1
  BY NodeType, TailOne
<1>2. Head(inbox).got \in Seq(Pieces) /\ Head(inbox).got # << >>
  BY <1>1 DEF Messages
<1>3. Head(inbox).got[1] \in Pieces
  BY <1>2, TailOne
<1>4. Head(inbox).got[1][1] \in 0 .. MaxExchanges
  BY <1>3 DEF Pieces
<1>5. Len(inbox) - 1 <= QueueDepth
  BY NodeType, Parameters
<1> QED BY <1>1, <1>4, <1>5 DEF Asked

LEMMA QueuedType ==
  ASSUME Typed, NEW pdu \in Messages
  PROVE  Queued(pdu) \in Seq(Messages) /\ Len(Queued(pdu)) <= QueueDepth
<1>1. Append(inbox, pdu) \in Seq(Messages) /\ Len(Append(inbox, pdu)) = Len(inbox) + 1
  BY NodeType, AppendOne
<1> QED BY <1>1, NodeType, Parameters DEF Queued

LEMMA NodeHears ==
  ASSUME Typed, toNode # << >>
  PROVE  /\ Head(toNode) \in Frames
         /\ Head(toNode).pci = "FF" => Head(toNode).size > 0
         /\ Begun(rx, Head(toNode)) \in Assemblies
         /\ Extended(rx, Head(toNode)) \in Assemblies
         /\ Extended(rx, Head(toNode)).got \in Seq(Pieces) \ {<< >>}
         /\ <<Piece(Head(toNode))>> \in Seq(Pieces) \ {<< >>}
         /\ Head(toNode).pci = "FF" => Unfinished(Begun(rx, Head(toNode)))
         /\ rx.on /\ ~Complete(Extended(rx, Head(toNode))) => Unfinished(Extended(rx, Head(toNode)))
<1>1. Head(toNode) \in Frames /\ (Head(toNode).pci = "FF" => Head(toNode).size > 0)
  BY FirstsTail DEF Typed, Wire
<1>2. <<Piece(Head(toNode))>> \in Seq(Pieces) \ {<< >>}
  BY <1>1, PieceType, Singleton
<1>3. Begun(rx, Head(toNode)) \in Assemblies
  BY <1>1, BegunType
<1>4. /\ Extended(rx, Head(toNode)) \in Assemblies
      /\ Extended(rx, Head(toNode)).got \in Seq(Pieces) \ {<< >>}
  BY <1>1, NodeType, ExtendedType
<1>5. Head(toNode).pci = "FF" => Unfinished(Begun(rx, Head(toNode)))
  BY <1>1, BegunUnfinished
<1>6. rx.on /\ ~Complete(Extended(rx, Head(toNode))) => Unfinished(Extended(rx, Head(toNode)))
  BY <1>1, NodeType, ExtendedUnfinished
<1> QED BY <1>1, <1>2, <1>3, <1>4, <1>5, <1>6

(* The node's half of the state after a step of its own.                   *)
LEMMA BelowStep ==
  ASSUME Typed, UNCHANGED node, diag' \in {"loop", "main"},
         rx' \in Assemblies, Unfinished(rx)', tx' \in Sendings, Underway',
         inbox' \in Seq(Messages), Len(inbox)' <= QueueDepth
  PROVE  Below'
BY DEF Typed, Below

LEMMA AfterTook ==
  ASSUME Typed, UNCHANGED node, toNode # << >>, diag' \in {"loop", "main"},
         Took(<< >>) \/ Took(<<FC(CTS)>>) \/ Took(<<FC(OVFLW)>>),
         rx' \in Assemblies, Unfinished(rx)', tx' \in Sendings, Underway',
         inbox' \in Seq(Messages), Len(inbox)' <= QueueDepth,
         ClientUnchanged, Free \/ Cost(0) \/ Cost(1)
  PROVE  Typed'
<1>1. Wire'
  BY TookWire DEF Typed
<1> QED BY <1>1, AboveKept, BelowStep DEF Typed

LEMMA OneMessage ==
  ASSUME NEW m \in Messages
  PROVE  <<m>> \in Seq(Messages) /\ Len(<<m>>) <= QueueDepth
BY Singleton, Parameters

LEMMA BootReceivesType ==
  ASSUME Typed, BootReceives
  PROVE  Typed'
<1> DEFINE f == Head(toNode)
           grown == Extended(rx, f)
<1>1. toNode # << >> /\ inbox = << >>
  BY DEF BootReceives
<1>2. Took(<< >>) \/ Took(<<FC(CTS)>>)
  BY DEF BootReceives
<1>3. rx' \in Assemblies /\ Unfinished(rx)'
  <2>1. \/ rx' = Nothing \/ rx' = rx
        \/ rx' = Begun(rx, f) /\ f.pci = "FF"
        \/ rx' = grown /\ rx.on /\ ~Complete(grown)
    <3> HIDE DEF f, grown
    <3> QED BY DEF BootReceives, f, grown
  <2>2. rx' \in Assemblies /\ Unfinished(rx')
    BY <1>1, <2>1, NodeHears, NodeType, NothingType, NothingFinished
  <2> QED BY <2>2 DEF Unfinished
<1>4. inbox' \in Seq(Messages) /\ Len(inbox)' <= QueueDepth
  <2>1. \/ inbox' = inbox
        \/ inbox' = <<[total |-> 0, got |-> <<Piece(f)>>]>>
        \/ inbox' = <<[total |-> rx.total, got |-> grown.got]>>
    BY DEF BootReceives
  <2>2. [total |-> 0, got |-> <<Piece(f)>>] \in Messages
    BY <1>1, NodeHears, MessageType, Parameters
  <2>3. [total |-> rx.total, got |-> grown.got] \in Messages
    BY <1>1, NodeHears, NodeType, MessageType
  <2> QED BY <2>1, <2>2, <2>3, OneMessage, NodeType
<1>5. tx' \in Sendings /\ Underway' /\ UNCHANGED node /\ diag' \in {"loop", "main"}
  BY NodeType DEF BootReceives, Underway, Typed, Below
<1> QED BY <1>1, <1>2, <1>3, <1>4, <1>5, AfterTook DEF BootReceives

LEMMA IdleType == Idle \in Sendings /\ Idle.st = "idle"
BY Parameters DEF Idle, Sendings

LEMMA SendingType ==
  ASSUME NEW ex \in 0 .. MaxExchanges, NEW size \in Sizes, size # 0
  PROVE  /\ Sending(ex, size) \in Sendings /\ Sending(ex, size).st = "wait"
         /\ Sending(ex, size).ex = ex /\ Sending(ex, size).size = size /\ Sending(ex, size).next = 1
         /\ ~Sending(ex, size).due /\ ~Sending(ex, size).old
         /\ 1 \in 1 .. size
<1>1. size \in Nat /\ 1 \in 1 .. size /\ 1 \in Nat
  BY Parameters
<1> QED BY <1>1 DEF Sending, Idle, Sendings

LEMMA ServesType ==
  ASSUME Typed, inbox # << >>, inbox' = Served, UNCHANGED <<node, toNode, rx, diag>>,
         ClientUnchanged,
         \/ \E size \in Sizes :
               /\ toClient' = Append(toClient, Opening(Asked(Head(inbox)), size))
               /\ tx' \in {Idle, tx} \/ (tx' = Sending(Asked(Head(inbox)), size) /\ size # 0)
               /\ Free
         \/ (Free \/ Cost(1)) /\ UNCHANGED <<toClient, tx>>
  PROVE  Typed'
<1>1. inbox' \in Seq(Messages) /\ Len(inbox)' <= QueueDepth
  BY AskedType DEF Served
<1>2. diag' \in {"loop", "main"} /\ rx' \in Assemblies /\ Unfinished(rx)'
  BY NodeType DEF Typed, Below, Unfinished
<1>3. CASE \E size \in Sizes :
               /\ toClient' = Append(toClient, Opening(Asked(Head(inbox)), size))
               /\ tx' \in {Idle, tx} \/ (tx' = Sending(Asked(Head(inbox)), size) /\ size # 0)
               /\ Free
  <2>1. PICK size \in Sizes :
               /\ toClient' = Append(toClient, Opening(Asked(Head(inbox)), size))
               /\ tx' \in {Idle, tx} \/ (tx' = Sending(Asked(Head(inbox)), size) /\ size # 0)
               /\ Free
    BY <1>3
  <2>2. Asked(Head(inbox)) \in 0 .. MaxExchanges
    BY AskedType
  <2>3. Wire'
    <3>1. /\ Opening(Asked(Head(inbox)), size) \in Frames
          /\ Opening(Asked(Head(inbox)), size).pci = "FF" => Opening(Asked(Head(inbox)), size).size > 0
      BY <2>2, FrameType, Parameters
    <3> QED BY <2>1, <3>1, ToClientWire DEF Typed
  <2>4. tx' \in Sendings /\ Underway'
    <3>1. CASE tx' = Sending(Asked(Head(inbox)), size) /\ size # 0
      BY <2>2, <3>1, SendingType DEF Underway
    <3>2. CASE tx' = Idle
      BY <3>2, IdleType DEF Underway
    <3>3. CASE tx' = tx
      BY <3>3, NodeType DEF Underway
    <3> QED BY <2>1, <3>1, <3>2, <3>3
  <2> QED BY <1>1, <1>2, <2>1, <2>3, <2>4, AboveKept, BelowStep DEF Typed
<1>4. CASE (Free \/ Cost(1)) /\ UNCHANGED <<toClient, tx>>
  <2>1. tx' \in Sendings /\ Underway'
    BY <1>4, NodeType DEF Underway
  <2>2. Wire'
    BY <1>4 DEF Typed, Wire, LongFirsts, Depth
  <2> QED BY <1>1, <1>2, <1>4, <2>1, <2>2, AboveKept, BelowStep DEF Typed
<1> QED BY <1>3, <1>4

LEMMA BootServesType ==
  ASSUME Typed, BootServes
  PROVE  Typed'
<1>1. \/ \E size \in Sizes :
               /\ toClient' = Append(toClient, Opening(Asked(Head(inbox)), size))
               /\ tx' \in {Idle, tx} \/ (tx' = Sending(Asked(Head(inbox)), size) /\ size # 0)
               /\ Free
      \/ (Free \/ Cost(1)) /\ UNCHANGED <<toClient, tx>>
  BY DEF BootServes
<1> QED BY <1>1, ServesType DEF BootServes

LEMMA DiagServesType ==
  ASSUME Typed, DiagServes
  PROVE  Typed'
<1>1. \/ \E size \in Sizes :
               /\ toClient' = Append(toClient, Opening(Asked(Head(inbox)), size))
               /\ tx' \in {Idle, tx} \/ (tx' = Sending(Asked(Head(inbox)), size) /\ size # 0)
               /\ Free
      \/ (Free \/ Cost(1)) /\ UNCHANGED <<toClient, tx>>
  BY DEF DiagServes
<1> QED BY <1>1, ServesType DEF DiagServes

LEMMA BootWaitsCtsType ==
  ASSUME Typed, BootWaitsCts
  PROVE  Typed'
<1>1. tx' \in Sendings /\ Underway'
  <2>1. tx' = [tx EXCEPT !.st = "send"] \/ tx' = Idle
    BY DEF BootWaitsCts, AfterFrame
  <2>2. CASE tx' = [tx EXCEPT !.st = "send"]
    BY <2>2, NodeType DEF Sendings, Underway, BootWaitsCts
  <2>3. CASE tx' = Idle
    BY <2>3, IdleType DEF Underway
  <2> QED BY <2>1, <2>2, <2>3
<1>2. /\ inbox' \in Seq(Messages) /\ Len(inbox)' <= QueueDepth
      /\ diag' \in {"loop", "main"} /\ rx' \in Assemblies /\ Unfinished(rx)'
  BY NodeType DEF Typed, Below, Unfinished, BootWaitsCts
<1> QED BY <1>1, <1>2, AfterTook DEF BootWaitsCts

LEMMA AdvancedType ==
  ASSUME Typed, tx.st = "send"
  PROVE  /\ Advanced \in Sendings
         /\ Advanced.st # "idle" => Advanced.next \in 1 .. Advanced.size
         /\ NextCf \in Frames /\ NextCf.pci = "CF"
<1>1. tx \in Sendings /\ tx.next \in 1 .. tx.size /\ tx.size \in Nat /\ tx.next \in Nat
  BY NodeType DEF Underway
<1>2. ASSUME tx.next = tx.size PROVE Advanced = Idle
  BY <1>2 DEF Advanced
<1>3. ASSUME tx.next # tx.size
      PROVE  Advanced \in Sendings /\ Advanced.next \in 1 .. Advanced.size
  <2>1. tx.next + 1 \in 1 .. tx.size /\ tx.next + 1 \in Nat
    BY <1>1, <1>3
  <2>2. Advanced = [tx EXCEPT !.next = tx.next + 1]
    BY <1>3 DEF Advanced
  <2> QED BY <1>1, <2>1, <2>2 DEF Sendings
<1>4. NextCf \in Frames /\ NextCf.pci = "CF"
  BY NodeType, FrameType DEF NextCf
<1> QED BY <1>2, <1>3, <1>4, IdleType

LEMMA SendsCfType ==
  ASSUME Typed, tx.st = "send", UNCHANGED <<node, toNode, inbox>>, ClientUnchanged,
         diag' \in {"loop", "main"}, rx' \in {rx, Nothing},
         \/ toClient' = Append(toClient, NextCf) /\ tx' = Advanced /\ Free
         \/ Cost(1) /\ tx' \in {Idle, tx} /\ UNCHANGED toClient
  PROVE  Typed'
<1>1. inbox' \in Seq(Messages) /\ Len(inbox)' <= QueueDepth
  BY NodeType
<1>2. rx' \in Assemblies /\ Unfinished(rx')
  BY NodeType, NothingType, NothingFinished
<1>3. Unfinished(rx)'
  BY <1>2 DEF Unfinished
<1>4. tx' \in Sendings /\ Underway'
  BY AdvancedType, IdleType, NodeType DEF Underway
<1>5. Wire'
  <2>1. CASE toClient' = Append(toClient, NextCf)
    BY <2>1, AdvancedType, ToClientWire DEF Typed
  <2>2. CASE UNCHANGED toClient
    BY <2>2 DEF Typed, Wire, LongFirsts, Depth
  <2> QED BY <2>1, <2>2
<1> QED BY <1>1, <1>2, <1>3, <1>4, <1>5, AboveKept, BelowStep DEF Typed

LEMMA BootSendsCfType ==
  ASSUME Typed, BootSendsCf
  PROVE  Typed'
<1>1. diag' \in {"loop", "main"}
  BY DEF BootSendsCf, Typed, Below
<1> QED BY <1>1, SendsCfType DEF BootSendsCf

LEMMA QuietWire == Wire /\ UNCHANGED <<node, toNode, toClient>> => Wire'
BY DEF Wire, LongFirsts, Depth

LEMMA BootTimersType ==
  ASSUME Typed, BootTimers
  PROVE  Typed'
<1>1. tx' \in Sendings /\ Underway'
  <2>1. tx' = Idle \/ tx' = tx
    BY DEF BootTimers
  <2> QED BY <2>1, IdleType, NodeType DEF Underway
<1>2. rx' \in Assemblies /\ Unfinished(rx)'
  <2>1. rx' = Nothing \/ rx' = rx
    BY DEF BootTimers
  <2> QED BY <2>1, NothingType, NothingFinished, NodeType DEF Unfinished
<1>3. inbox' \in Seq(Messages) /\ Len(inbox)' <= QueueDepth /\ diag' \in {"loop", "main"}
  BY NodeType DEF BootTimers, Typed, Below
<1> QED
  BY <1>1, <1>2, <1>3, QuietWire, AboveKept, BelowStep DEF BootTimers, Typed

LEMMA StampedType ==
  ASSUME NEW r \in Assemblies, Unfinished(r), NEW race
  PROVE  /\ Stamped(r, race) \in Assemblies /\ Unfinished(Stamped(r, race))
         /\ Stamped(r, race).on = r.on /\ Stamped(r, race).total = r.total
         /\ Stamped(r, race).got = r.got /\ Stamped(r, race).due = r.due
         /\ Stamped(r, race).raced = (race = 1)
BY DEF Stamped, Assemblies, Unfinished

LEMMA RacedType == Raced \subseteq {0, 1}
BY DEF Raced

LEMMA AppReceivesType ==
  ASSUME Typed, AppReceives
  PROVE  Typed'
<1> DEFINE f == Head(toNode)
           grown == Extended(rx, f)
<1>1. toNode # << >> /\ UNCHANGED <<node, diag>> /\ ClientUnchanged
      /\ (AppReceivesSingle(f) \/ AppReceivesFirst(f)
            \/ AppReceivesConsecutive(f) \/ AppReceivesFlowControl(f))
  BY DEF AppReceives
<1>2. diag' \in {"loop", "main"}
  BY <1>1 DEF Typed, Below
<1>3. /\ Begun(rx, f) \in Assemblies /\ grown \in Assemblies
      /\ f.pci = "FF" => Unfinished(Begun(rx, f))
      /\ rx.on /\ ~Complete(grown) => Unfinished(grown)
      /\ [total |-> 0, got |-> <<Piece(f)>>] \in Messages
      /\ [total |-> rx.total, got |-> grown.got] \in Messages
  BY <1>1, NodeHears, NodeType, MessageType, Parameters
<1> HIDE DEF f, grown
<1>4. CASE AppReceivesSingle(f)
  <2>1. rx' = Nothing /\ rx' \in Assemblies /\ Unfinished(rx)'
    BY <1>4, NothingType, NothingFinished DEF AppReceivesSingle, Unfinished
  <2>2. inbox' \in Seq(Messages) /\ Len(inbox)' <= QueueDepth
    BY <1>3, <1>4, QueuedType DEF AppReceivesSingle
  <2>3. tx' \in Sendings /\ Underway'
    BY <1>4, NodeType DEF AppReceivesSingle, Underway
  <2> QED BY <1>1, <1>2, <1>4, <2>1, <2>2, <2>3, AfterTook DEF AppReceivesSingle
<1>5. CASE AppReceivesFirst(f)
  <2>1. f.pci = "FF"
    BY <1>5 DEF AppReceivesFirst
  <2>2. rx' \in Assemblies /\ Unfinished(rx')
    <3>1. rx' = Nothing \/ \E race \in Raced : rx' = Stamped(Begun(rx, f), race)
      BY <1>5 DEF AppReceivesFirst
    <3> QED BY <1>3, <2>1, <3>1, NothingType, NothingFinished, StampedType
  <2>3. (Free \/ Cost(0) \/ Cost(1)) /\ (Took(<<FC(OVFLW)>>) \/ Took(<<FC(CTS)>>) \/ Took(<< >>))
    BY <1>5, RacedType DEF AppReceivesFirst
  <2>4. tx' \in Sendings /\ Underway' /\ inbox' \in Seq(Messages) /\ Len(inbox)' <= QueueDepth
    BY <1>5, NodeType DEF AppReceivesFirst, Underway
  <2>5. Unfinished(rx)'
    BY <2>2 DEF Unfinished
  <2> QED BY <1>1, <1>2, <2>2, <2>3, <2>4, <2>5, AfterTook
<1>6. CASE AppReceivesConsecutive(f)
  <2>1. rx' \in Assemblies /\ Unfinished(rx')
    <3>1. \/ rx' = rx \/ rx' = Nothing
          \/ rx.on /\ ~Complete(grown) /\ \E race \in Raced : rx' = Stamped(grown, race)
      BY <1>6 DEF AppReceivesConsecutive, grown
    <3> QED BY <1>3, <3>1, NodeType, NothingType, NothingFinished, StampedType
  <2>2. (Free \/ Cost(0) \/ Cost(1)) /\ Took(<< >>) /\ UNCHANGED tx
    BY <1>6, RacedType DEF AppReceivesConsecutive
  <2>3. inbox' \in Seq(Messages) /\ Len(inbox)' <= QueueDepth
    <3>1. inbox' = inbox \/ inbox' = Queued([total |-> rx.total, got |-> grown.got])
      BY <1>6 DEF AppReceivesConsecutive, grown
    <3> QED BY <1>3, <3>1, QueuedType, NodeType
  <2>4. tx' \in Sendings /\ Underway' /\ Unfinished(rx)'
    BY <2>1, <2>2, NodeType DEF Underway, Unfinished
  <2> QED BY <1>1, <1>2, <2>1, <2>2, <2>3, <2>4, AfterTook
<1>7. CASE AppReceivesFlowControl(f)
  <2>1. tx' \in Sendings /\ Underway'
    <3>1. CASE tx' = tx
      BY <3>1, NodeType DEF Underway
    <3>2. CASE tx.st = "wait" /\ tx' = [tx EXCEPT !.st = "send", !.due = FALSE]
      BY <3>2, NodeType DEF Underway, Sendings
    <3> QED BY <1>7, <3>1, <3>2 DEF AppReceivesFlowControl
  <2>2. /\ rx' \in Assemblies /\ Unfinished(rx)'
        /\ inbox' \in Seq(Messages) /\ Len(inbox)' <= QueueDepth
    BY <1>7, NodeType DEF AppReceivesFlowControl, Unfinished
  <2> QED BY <1>1, <1>2, <1>7, <2>1, <2>2, AfterTook DEF AppReceivesFlowControl
<1> QED BY <1>1, <1>4, <1>5, <1>6, <1>7

LEMMA DiagSamplesType ==
  ASSUME Typed, DiagSamples
  PROVE  Typed'
<1>1. Below'
  BY DEF DiagSamples, Typed, Below, Unfinished, Underway
<1> QED BY <1>1, QuietWire, AboveKept DEF DiagSamples, Typed

LEMMA DiagMainType ==
  ASSUME Typed, DiagMain
  PROVE  Typed'
<1>1. rx' \in {rx, Nothing} /\ diag' \in {"loop", "main"}
  BY DEF DiagMain
<1>2. CASE \/ tx.st = "send" /\ toClient' = Append(toClient, NextCf) /\ tx' = Advanced /\ Free
           \/ tx.st = "send" /\ Cost(1) /\ UNCHANGED <<toClient, tx>>
  BY <1>1, <1>2, SendsCfType DEF DiagMain
<1>3. CASE tx' = (IF NBsElapsed THEN Idle ELSE tx) /\ UNCHANGED toClient /\ Free
  <2>1. tx' \in Sendings /\ Underway'
    BY <1>3, NodeType, IdleType DEF Underway
  <2>2. rx' \in Assemblies /\ Unfinished(rx)'
    BY <1>1, NodeType, NothingType, NothingFinished DEF Unfinished
  <2>3. inbox' \in Seq(Messages) /\ Len(inbox)' <= QueueDepth
    BY NodeType DEF DiagMain
  <2> QED BY <1>1, <1>3, <2>1, <2>2, <2>3, QuietWire, AboveKept, BelowStep DEF DiagMain, Typed
<1> QED BY <1>2, <1>3 DEF DiagMain

LEMMA SilenceType ==
  ASSUME Typed, Silence
  PROVE  Typed'
<1>1. Below'
  <2>1. CASE rx.on /\ rx' = [rx EXCEPT !.due = TRUE] /\ UNCHANGED tx
    <3>1. rx' \in Assemblies /\ Unfinished(rx)'
      BY <2>1, NodeType DEF Assemblies, Unfinished
    <3> QED BY <2>1, <3>1 DEF Silence, Typed, Below, Underway
  <2>2. CASE tx.st = "wait" /\ tx' = [tx EXCEPT !.due = TRUE] /\ UNCHANGED rx
    <3>1. tx' \in Sendings /\ Underway'
      BY <2>2, NodeType DEF Sendings, Underway
    <3> QED BY <2>2, <3>1 DEF Silence, Typed, Below, Unfinished
  <2> QED BY <2>1, <2>2 DEF Silence
<1>2. Cost(0) \/ Cost(1)
  BY DEF Silence
<1> QED BY <1>1, <1>2, QuietWire, AboveKept DEF Silence, Typed, Below

LEMMA LoseFrameType ==
  ASSUME Typed, LoseFrame
  PROVE  Typed'
<1>1. Below' /\ Above' /\ Counted'
  BY NodeKept, AboveKept DEF LoseFrame, Typed
<1>2. UNCHANGED node
  BY DEF LoseFrame, NodeUnchanged
<1>3. CASE \E k \in DOMAIN toNode : toNode' = Without(toNode, k) /\ UNCHANGED toClient
  <2>1. PICK k \in DOMAIN toNode : toNode' = Without(toNode, k) /\ UNCHANGED toClient
    BY <1>3
  <2>2. /\ Without(toNode, k) \in Seq(Frames) /\ LongFirsts(Without(toNode, k))
        /\ Len(Without(toNode, k)) = Len(toNode) - 1 /\ Len(toNode) \in Nat
    BY FirstsWithout, LenProperties DEF Typed, Wire
  <2>3. Wire'
    BY <1>2, <2>1, <2>2, Parameters DEF Typed, Wire, LongFirsts, Depth
  <2> QED BY <1>1, <2>3 DEF Typed
<1>4. CASE \E k \in DOMAIN toClient : toClient' = Without(toClient, k) /\ UNCHANGED toNode
  <2>1. PICK k \in DOMAIN toClient : toClient' = Without(toClient, k) /\ UNCHANGED toNode
    BY <1>4
  <2>2. Without(toClient, k) \in Seq(Frames) /\ LongFirsts(Without(toClient, k))
    BY FirstsWithout DEF Typed, Wire
  <2>3. Wire'
    BY <1>2, <2>1, <2>2 DEF Typed, Wire, LongFirsts, Depth
  <2> QED BY <1>1, <2>3 DEF Typed
<1> QED BY <1>3, <1>4 DEF LoseFrame

LEMMA InitTyped == Init => Typed
<1> SUFFICES ASSUME Init PROVE Typed
  OBVIOUS
<1>1. << >> \in Seq(Frames) /\ << >> \in Seq(Messages) /\ << >> \in Seq(Pieces) /\ Len(<< >>) = 0
      /\ LongFirsts(<< >>)
  BY EmptySeq DEF LongFirsts
<1>2. Wire
  BY <1>1, Parameters DEF Init, Wire
<1>3. client \in Clients /\ client.pc = "idle" /\ client.ex = 0
  BY Parameters, NothingType DEF Init, Clients
<1>4. Above
  <2>1. 0 \in 0 .. MaxExchanges
    BY Parameters
  <2>2. answer \in [ex : 0 .. MaxExchanges, got : Seq(Pieces)]
    BY <1>1, <2>1 DEF Init
  <2> QED BY <1>3, <2>2 DEF Init, Above
<1>5. Below
  BY <1>1, NothingType, NothingFinished, IdleType, Parameters DEF Init, Below, Underway
<1>6. Counted
  BY <1>3, Parameters DEF Init, Counted
<1> QED BY <1>2, <1>4, <1>5, <1>6 DEF Typed

LEMMA StutterTyped == Typed /\ UNCHANGED vars => Typed'
<1> SUFFICES ASSUME Typed, UNCHANGED vars PROVE Typed'
  OBVIOUS
<1>1. Wire' /\ Below'
  BY QuietWire, NodeKept DEF vars, Typed, NodeUnchanged
<1>2. Above' /\ Counted'
  BY AboveKept DEF vars, ClientUnchanged, Free
<1> QED BY <1>1, <1>2 DEF Typed

LEMMA NextTyped == Typed /\ [Next]_vars => Typed'
BY AskType, SendCfType, ClientReceivesType, ClientTimesOutType, BootReceivesType, BootServesType,
   BootWaitsCtsType, BootSendsCfType, BootTimersType, AppReceivesType, DiagServesType,
   DiagSamplesType, DiagMainType, SilenceType, LoseFrameType, StutterTyped
DEF Next, Gateway, Bootloader, Application

LEMMA TypedInvariant == Spec => []Typed
BY InitTyped, NextTyped, PTL DEF Spec

LEMMA TypedRange == Typed => TypeOK
<1> SUFFICES ASSUME Typed PROVE TypeOK
  OBVIOUS
<1>1. \A k \in DOMAIN toNode : toNode[k] \in Frames
  BY LenProperties, ElementOfSeq DEF Typed, Wire
<1>2. \A k \in DOMAIN toClient : toClient[k] \in Frames
  BY LenProperties, ElementOfSeq DEF Typed, Wire
<1>3. rx.on => Len(rx.got) \in 1 .. rx.total
  BY DEF Typed, Below, Unfinished
<1>4. {rx.on, rx.due, rx.raced, tx.due, tx.old, behind} \subseteq BOOLEAN
  BY DEF Typed, Below, Above, Assemblies, Sendings
<1>5. fails \in 0 .. MaxExchanges
  BY ClientType, Parameters DEF Typed, Counted
<1>6. node \in Nodes /\ diag \in {"loop", "main"} /\ budget \in 0 .. MaxFaults
      /\ Len(toNode) <= Depth
  BY DEF Typed, Below, Counted, Wire
<1> QED
  BY <1>1, <1>2, <1>3, <1>4, <1>5, <1>6, ClientType, NodeType DEF TypeOK, Underway

(* The frames, the timers and the transmissions of both nodes keep to      *)
(* their ranges, the mailboxes (boot_can.c, FlexCAN) and g_diagRequestQueue *)
(* to their lengths, whatever is lost; a reassembly holds fewer pieces than *)
(* its message has, and no exchange of the gateway fails twice.            *)
THEOREM TypeCorrect == Spec => []TypeOK
BY TypedInvariant, TypedRange, PTL

-----------------------------------------------------------------------------
(* ONE MESSAGE, IN PIECES                                                  *)

Final(got) == got[Len(got)][3]

(* Pieces of one message from the first on, in their order; some may be    *)
(* missing.                                                                *)
Rising(got, ex, size) ==
  /\ got # << >> /\ got[1] = <<ex, size, 0>>
  /\ \A k \in DOMAIN got : got[k] = <<ex, size, got[k][3]>>
  /\ \A j, k \in DOMAIN got : j <= k => got[j][3] + (k - j) <= got[k][3]

(* Consecutive frames of one message before piece number next, in order.   *)
Run(s, ex, size, next) ==
  /\ \A k \in DOMAIN s : s[k] = CF(ex, size, s[k].i) /\ s[k].i \in 1 .. next - 1
  /\ \A j, k \in DOMAIN s : j < k => s[j].i < s[k].i

(* The frames of s, and those from next on, continue what r holds.         *)
Coming(r, s, ex, size, next) ==
  /\ Run(s, ex, size, next)
  /\ r.on => /\ r.total = size /\ Rising(r.got, ex, size)
             /\ Final(r.got) < next
             /\ \A k \in DOMAIN s : Final(r.got) < s[k].i

LEMMA RunShorter ==
  ASSUME NEW s \in Seq(Frames), NEW ex, NEW size, NEW next, Run(s, ex, size, next)
  PROVE  /\ s # << >> => /\ Run(Tail(s), ex, size, next)
                         /\ \A k \in DOMAIN Tail(s) : k + 1 \in DOMAIN s /\ Tail(s)[k] = s[k + 1]
         /\ \A i \in DOMAIN s :
              /\ Run(Without(s, i), ex, size, next)
              /\ \A k \in DOMAIN Without(s, i) :
                   \E n \in DOMAIN s : Without(s, i)[k] = s[n]
<1>1. ASSUME s # << >>
      PROVE  /\ Run(Tail(s), ex, size, next)
             /\ \A k \in DOMAIN Tail(s) : k + 1 \in DOMAIN s /\ Tail(s)[k] = s[k + 1]
  <2>1. /\ Tail(s) \in Seq(Frames) /\ Len(Tail(s)) = Len(s) - 1 /\ Len(s) \in Nat
        /\ \A j \in 1 .. Len(s) - 1 : Tail(s)[j] = s[j + 1] /\ j + 1 \in DOMAIN s
    BY <1>1, TailOne
  <2>2. DOMAIN Tail(s) = 1 .. Len(s) - 1 /\ DOMAIN s = 1 .. Len(s)
    BY <2>1, LenProperties
  <2> QED BY <2>1, <2>2 DEF Run
<1>2. ASSUME NEW i \in DOMAIN s
      PROVE  /\ Run(Without(s, i), ex, size, next)
             /\ \A k \in DOMAIN Without(s, i) : \E n \in DOMAIN s : Without(s, i)[k] = s[n]
  <2> DEFINE w == Without(s, i)
             at(k) == IF k < i THEN k ELSE k + 1
  <2>1. /\ w \in Seq(Frames) /\ Len(w) = Len(s) - 1
        /\ \A j \in 1 .. Len(s) - 1 : w[j] = IF j < i THEN s[j] ELSE s[j + 1]
    BY WithoutOne
  <2>2. DOMAIN w = 1 .. Len(s) - 1 /\ DOMAIN s = 1 .. Len(s) /\ Len(s) \in Nat
    BY <2>1, LenProperties
  <2>3. \A k \in DOMAIN w : at(k) \in DOMAIN s /\ w[k] = s[at(k)]
    BY <2>1, <2>2
  <2>4. \A j, k \in DOMAIN w : j < k => at(j) < at(k)
    BY <2>2
  <2> HIDE DEF w, at
  <2>5. Run(w, ex, size, next)
    <3>1. \A k \in DOMAIN w : w[k] = CF(ex, size, w[k].i) /\ w[k].i \in 1 .. next - 1
      BY <2>3 DEF Run
    <3>2. ASSUME NEW j \in DOMAIN w, NEW k \in DOMAIN w, j < k
          PROVE  w[j].i < w[k].i
      BY <2>3, <2>4, <3>2 DEF Run
    <3> QED BY <3>1, <3>2 DEF Run
  <2> QED BY <2>3, <2>5 DEF w
<1> QED BY <1>1, <1>2

LEMMA ComingShorter ==
  ASSUME NEW s \in Seq(Frames), NEW r, NEW ex, NEW size, NEW next, Coming(r, s, ex, size, next)
  PROVE  /\ s # << >> => Coming(r, Tail(s), ex, size, next)
         /\ \A i \in DOMAIN s : Coming(r, Without(s, i), ex, size, next)
<1>1. Run(s, ex, size, next)
  BY DEF Coming
<1>2. ASSUME s # << >> PROVE Coming(r, Tail(s), ex, size, next)
  BY <1>1, <1>2, RunShorter DEF Coming
<1>3. ASSUME NEW i \in DOMAIN s PROVE Coming(r, Without(s, i), ex, size, next)
  BY <1>1, RunShorter DEF Coming
<1> QED BY <1>2, <1>3

(* What ends a reassembly, or only touches its timer, changes nothing.     *)
LEMMA ComingKept ==
  ASSUME NEW s, NEW r, NEW q, NEW ex, NEW size, NEW next, Coming(r, s, ex, size, next),
         q.on => r.on /\ q.total = r.total /\ q.got = r.got
  PROVE  Coming(q, s, ex, size, next)
BY DEF Coming

LEMMA ComingOff ==
  ASSUME NEW s, NEW r, NEW q, NEW ex, NEW size, NEW next, Coming(r, s, ex, size, next), ~q.on
  PROVE  Coming(q, s, ex, size, next)
BY DEF Coming

LEMMA ComingMore ==
  ASSUME NEW s \in Seq(Frames), NEW r \in Assemblies, NEW ex, NEW size,
         NEW next \in Nat, NEW more \in Nat, next <= more, Coming(r, s, ex, size, next)
  PROVE  Coming(r, s, ex, size, more)
<1>1. r.on => Final(r.got) < more
  <2> SUFFICES ASSUME r.on PROVE Final(r.got) < more
    OBVIOUS
  <2>1. Rising(r.got, ex, size) /\ Final(r.got) < next
    BY DEF Coming
  <2>2. r.got \in Seq(Pieces) /\ r.got # << >>
    BY <2>1 DEF Assemblies, Rising
  <2>3. Len(r.got) \in DOMAIN r.got /\ Len(r.got) \in 1 .. Len(r.got)
    BY <2>2, LenProperties, EmptySeq
  <2>4. r.got[Len(r.got)] \in Pieces
    BY <2>2, <2>3, ElementOfSeq
  <2>5. Final(r.got) \in Nat
    BY <2>4 DEF Final, Pieces
  <2> QED BY <2>1, <2>5
<1>2. Run(s, ex, size, more)
  BY DEF Coming, Run
<1> QED BY <1>1, <1>2 DEF Coming

LEMMA FinalType ==
  ASSUME NEW got \in Seq(Pieces), got # << >>
  PROVE  /\ Final(got) \in Nat /\ Len(got) \in Nat \ {0} /\ DOMAIN got = 1 .. Len(got)
         /\ \A k \in 1 .. Len(got) : got[k][3] \in Nat /\ got[k] \in Pieces
<1>1. Len(got) \in Nat \ {0} /\ DOMAIN got = 1 .. Len(got)
  BY LenProperties, EmptySeq
<1>2. \A k \in 1 .. Len(got) : got[k] \in Pieces
  BY ElementOfSeq
<1>3. \A k \in 1 .. Len(got) : got[k][3] \in Nat
  BY <1>2 DEF Pieces
<1> QED BY <1>1, <1>2, <1>3 DEF Final

LEMMA CfIs ==
  ASSUME NEW ex, NEW size, NEW i
  PROVE  /\ CF(ex, size, i).pci = "CF" /\ CF(ex, size, i).i = i
         /\ CF(ex, size, i).ex = ex /\ CF(ex, size, i).size = size
         /\ Piece(CF(ex, size, i)) = <<ex, size, i>>
BY DEF CF, Frame, Piece

LEMMA ComingAppend ==
  ASSUME NEW s \in Seq(Frames), NEW r \in Assemblies, NEW ex \in 0 .. MaxExchanges,
         NEW size \in Sizes, NEW next \in Nat \ {0}, Coming(r, s, ex, size, next)
  PROVE  Coming(r, Append(s, CF(ex, size, next)), ex, size, next + 1)
<1> DEFINE f == CF(ex, size, next)
           t == Append(s, f)
<1>1. f.i = next /\ f = CF(ex, size, f.i)
  BY CfIs
<1>2. f \in Frames
  BY FrameType
<1>3. /\ t \in Seq(Frames) /\ Len(t) = Len(s) + 1 /\ Len(s) \in Nat
      /\ \A j \in 1 .. Len(s) : t[j] = s[j]
      /\ t[Len(s) + 1] = f
  BY <1>2, AppendOne
<1>4. DOMAIN t = 1 .. Len(s) + 1 /\ DOMAIN s = 1 .. Len(s)
  BY <1>3, LenProperties
<1> HIDE DEF f, t
<1>5. Coming(r, s, ex, size, next + 1) /\ Run(s, ex, size, next)
  BY ComingMore DEF Coming
<1>6. \A k \in DOMAIN s : s[k].i \in 1 .. next - 1
  BY <1>5 DEF Run
<1>7. Run(t, ex, size, next + 1)
  <2>1. ASSUME NEW k \in DOMAIN t
        PROVE  t[k] = CF(ex, size, t[k].i) /\ t[k].i \in 1 .. (next + 1) - 1
    <3>1. CASE k = Len(s) + 1
      BY <1>1, <1>3, <3>1
    <3>2. CASE k # Len(s) + 1
      <4>1. k \in DOMAIN s /\ t[k] = s[k]
        BY <1>3, <1>4, <3>2
      <4> QED BY <1>5, <1>6, <4>1 DEF Run
    <3> QED BY <3>1, <3>2
  <2>2. ASSUME NEW j \in DOMAIN t, NEW k \in DOMAIN t, j < k
        PROVE  t[j].i < t[k].i
    <3>1. j \in DOMAIN s /\ t[j] = s[j]
      BY <1>3, <1>4, <2>2
    <3>2. CASE k = Len(s) + 1
      BY <1>1, <1>3, <1>6, <3>1, <3>2
    <3>3. CASE k # Len(s) + 1
      <4>1. k \in DOMAIN s /\ t[k] = s[k]
        BY <1>3, <1>4, <3>3
      <4> QED BY <1>5, <2>2, <3>1, <4>1 DEF Run
    <3> QED BY <3>2, <3>3
  <2> QED BY <2>1, <2>2 DEF Run
<1>8. ASSUME r.on, NEW k \in DOMAIN t PROVE Final(r.got) < t[k].i
  <2>1. CASE k = Len(s) + 1
    BY <1>1, <1>3, <1>8, <2>1 DEF Coming
  <2>2. CASE k # Len(s) + 1
    <3>1. k \in DOMAIN s /\ t[k] = s[k]
      BY <1>3, <1>4, <2>2
    <3> QED BY <1>8, <3>1 DEF Coming
  <2> QED BY <2>1, <2>2
<1>9. Coming(r, t, ex, size, next + 1)
  BY <1>5, <1>7, <1>8 DEF Coming
<1> QED BY <1>9 DEF t, f

LEMMA EmptyRun ==
  ASSUME NEW ex, NEW size, NEW next
  PROVE  Run(<< >>, ex, size, next)
BY DEF Run

LEMMA ComingBegun ==
  ASSUME NEW r, NEW ex \in 0 .. MaxExchanges, NEW size \in Sizes
  PROVE  /\ Piece(Opening(ex, size)) = <<ex, size, 0>>
         /\ Coming(Begun(r, Opening(ex, size)), << >>, ex, size, 1)
<1> DEFINE f == Opening(ex, size)
           p == <<ex, size, 0>>
<1>1. Piece(f) = p /\ f.size = size
  BY DEF Opening, Frame, Piece
<1>2. p \in Pieces
  BY DEF Pieces
<1>3. f \in Frames
  BY FrameType
<1>4. Begun(r, f).got = <<p>> /\ Begun(r, f).total = size
  BY <1>1, <1>3, BegunType
<1>5. <<p>> # << >> /\ Len(<<p>>) = 1 /\ <<p>>[1] = p /\ DOMAIN <<p>> = {1}
  BY <1>2, Singleton
<1>6. p[1] = ex /\ p[2] = size /\ p[3] = 0
  OBVIOUS
<1> HIDE DEF f, p
<1>7. Final(<<p>>) = 0
  BY <1>5, <1>6 DEF Final
<1>8. Rising(<<p>>, ex, size)
  <2>1. p = <<ex, size, p[3]>> /\ p = <<ex, size, 0>>
    BY <1>6 DEF p
  <2>2. \A j, k \in DOMAIN <<p>> : <<p>>[j][3] + (k - j) <= <<p>>[k][3]
    BY <1>5, <1>6
  <2> QED BY <1>5, <2>1, <2>2 DEF Rising
<1>9. Coming(Begun(r, f), << >>, ex, size, 1)
  BY <1>4, <1>7, <1>8, EmptyRun DEF Coming
<1> QED BY <1>1, <1>9 DEF f, p

LEMMA RisingApart ==
  ASSUME NEW got \in Seq(Pieces), NEW ex, NEW size, Rising(got, ex, size), NEW j \in DOMAIN got
  PROVE  /\ \A k \in DOMAIN got : j <= k => got[j][3] + (k - j) <= got[k][3]
         /\ got[j][3] + (Len(got) - j) <= Final(got)
<1>1. Len(got) \in DOMAIN got /\ j <= Len(got)
  BY FinalType DEF Rising
<1>2. \A k \in DOMAIN got : j <= k => got[j][3] + (k - j) <= got[k][3]
  BY DEF Rising
<1> QED BY <1>1, <1>2 DEF Final

LEMMA RisingExtended ==
  ASSUME NEW got \in Seq(Pieces), NEW ex \in 0 .. MaxExchanges, NEW size \in Sizes, NEW i \in Nat,
         Rising(got, ex, size), Final(got) < i
  PROVE  /\ Rising(Append(got, <<ex, size, i>>), ex, size)
         /\ Final(Append(got, <<ex, size, i>>)) = i
<1> DEFINE p == <<ex, size, i>>
           more == Append(got, p)
<1>1. p \in Pieces /\ p = <<ex, size, p[3]>> /\ p[3] = i
  BY DEF Pieces
<1>2. /\ Final(got) \in Nat /\ Len(got) \in Nat \ {0} /\ DOMAIN got = 1 .. Len(got)
      /\ \A k \in 1 .. Len(got) : got[k][3] \in Nat
  BY FinalType DEF Rising
<1> HIDE DEF p
<1>3. /\ more \in Seq(Pieces) /\ Len(more) = Len(got) + 1
      /\ \A j \in 1 .. Len(got) : more[j] = got[j]
      /\ more[Len(got) + 1] = p
  BY <1>1, AppendOne
<1>4. DOMAIN more = 1 .. Len(got) + 1
  BY <1>2, <1>3, LenProperties
<1> HIDE DEF more
<1>5. more # << >> /\ more[1] = <<ex, size, 0>>
  BY <1>2, <1>3, EmptySeq DEF Rising
<1>6. ASSUME NEW k \in DOMAIN more PROVE more[k] = <<ex, size, more[k][3]>>
  <2>1. CASE k = Len(got) + 1
    BY <1>1, <1>3, <2>1
  <2>2. CASE k # Len(got) + 1
    <3>1. k \in DOMAIN got /\ more[k] = got[k]
      BY <1>2, <1>3, <1>4, <2>2
    <3> QED BY <3>1 DEF Rising
  <2> QED BY <2>1, <2>2
<1>7. \A j \in DOMAIN got : got[j][3] + (Len(got) - j) <= Final(got)
  BY RisingApart
<1>8. ASSUME NEW j \in DOMAIN more, NEW k \in DOMAIN more, j <= k
      PROVE  more[j][3] + (k - j) <= more[k][3]
  <2>1. CASE j = Len(got) + 1
    BY <1>1, <1>3, <1>4, <1>8, <2>1
  <2>2. CASE j # Len(got) + 1
    <3>1. j \in DOMAIN got /\ more[j] = got[j] /\ got[j][3] \in Nat
      BY <1>2, <1>3, <1>4, <2>2
    <3>2. CASE k = Len(got) + 1
      <4>1. got[j][3] + (Len(got) - j) <= Final(got)
        BY <1>7, <3>1
      <4>2. more[k][3] = i
        BY <1>1, <1>3, <3>2
      <4> QED BY <1>2, <3>1, <3>2, <4>1, <4>2
    <3>3. CASE k # Len(got) + 1
      <4>1. k \in DOMAIN got /\ more[k] = got[k]
        BY <1>2, <1>3, <1>4, <3>3
      <4> QED BY <1>8, <3>1, <4>1 DEF Rising
    <3> QED BY <3>2, <3>3
  <2> QED BY <2>1, <2>2
<1>9. Rising(more, ex, size) /\ Final(more) = i
  BY <1>1, <1>3, <1>5, <1>6, <1>8 DEF Rising, Final
<1> QED BY <1>9 DEF more, p

(* The next piece that comes is one of the same message, behind the others. *)
LEMMA ComingExtended ==
  ASSUME NEW s \in Seq(Frames), s # << >>, NEW r \in Assemblies, NEW ex \in 0 .. MaxExchanges,
         NEW size \in Sizes, NEW next \in Nat, Coming(r, s, ex, size, next)
  PROVE  /\ Head(s).pci = "CF" /\ Head(s).i \in 1 .. next - 1
         /\ r.on => Coming(Extended(r, Head(s)), Tail(s), ex, size, next)
         /\ r.on => Final(Extended(r, Head(s)).got) = Head(s).i
<1> DEFINE f == Head(s)
<1>1. /\ f \in Frames /\ f = s[1] /\ 1 \in DOMAIN s
      /\ \A j \in 1 .. Len(s) - 1 : Tail(s)[j] = s[j + 1] /\ j + 1 \in DOMAIN s
      /\ Tail(s) \in Seq(Frames) /\ Len(Tail(s)) = Len(s) - 1 /\ Len(s) \in Nat
  BY TailOne
<1> HIDE DEF f
<1>2. f = CF(ex, size, f.i) /\ f.i \in 1 .. next - 1
  BY <1>1 DEF Coming, Run
<1>3. f.pci = "CF" /\ Piece(f) = <<ex, size, f.i>>
  BY <1>2, CfIs
<1>4. DOMAIN Tail(s) = 1 .. Len(s) - 1
  BY <1>1, LenProperties
<1>5. \A k \in DOMAIN Tail(s) : f.i < Tail(s)[k].i
  <2> SUFFICES ASSUME NEW k \in DOMAIN Tail(s) PROVE f.i < Tail(s)[k].i
    OBVIOUS
  <2>1. k + 1 \in DOMAIN s /\ Tail(s)[k] = s[k + 1] /\ 1 < k + 1
    BY <1>1, <1>4
  <2> QED BY <1>1, <2>1 DEF Coming, Run
<1>6. ASSUME r.on
      PROVE  Coming(Extended(r, f), Tail(s), ex, size, next) /\ Final(Extended(r, f).got) = f.i
  <2>1. Rising(r.got, ex, size) /\ Final(r.got) < f.i /\ r.total = size /\ r.got \in Seq(Pieces)
    BY <1>1, <1>6 DEF Coming, Assemblies
  <2>2. f.i \in Nat
    BY <1>2
  <2>3. /\ Rising(Append(r.got, Piece(f)), ex, size)
        /\ Final(Append(r.got, Piece(f))) = f.i
    BY <1>3, <2>1, <2>2, RisingExtended
  <2>4. Extended(r, f).got = Append(r.got, Piece(f)) /\ Extended(r, f).total = size
    BY <1>1, <2>1, ExtendedType
  <2>5. Run(Tail(s), ex, size, next)
    BY RunShorter DEF Coming
  <2> QED BY <1>2, <1>5, <2>3, <2>4, <2>5 DEF Coming
<1> QED BY <1>2, <1>3, <1>6 DEF f

LEMMA WholeType ==
  ASSUME NEW ex \in 0 .. MaxExchanges, NEW size \in Sizes
  PROVE  /\ Whole(ex, size) \in Seq(Pieces) /\ Len(Whole(ex, size)) = size + 1
         /\ \A k \in 1 .. size + 1 : Whole(ex, size)[k] = <<ex, size, k - 1>>
         /\ Whole(ex, size)[1][1] = ex
<1>1. size \in Nat
  BY Parameters
<1>2. \A k \in 1 .. size + 1 : <<ex, size, k - 1>> \in Pieces
  BY <1>1 DEF Pieces
<1>3. Whole(ex, size) \in Seq(Pieces) /\ Len(Whole(ex, size)) = size + 1
  BY <1>1, <1>2 DEF Whole
<1>4. \A k \in 1 .. size + 1 : Whole(ex, size)[k] = <<ex, size, k - 1>>
  BY DEF Whole
<1>5. Whole(ex, size)[1] = <<ex, size, 0>>
  BY <1>1, <1>4
<1> QED BY <1>3, <1>4, <1>5

(* As many pieces of a message as it has, in order, are the message.       *)
LEMMA RisingWhole ==
  ASSUME NEW got \in Seq(Pieces), NEW ex \in 0 .. MaxExchanges, NEW size \in Sizes,
         Rising(got, ex, size), Final(got) <= size, Len(got) = size + 1
  PROVE  got = Whole(ex, size) /\ Final(got) = size
<1>1. /\ Final(got) \in Nat /\ Len(got) \in Nat \ {0} /\ DOMAIN got = 1 .. Len(got)
      /\ \A k \in 1 .. Len(got) : got[k][3] \in Nat
  BY FinalType DEF Rising
<1>2. size \in Nat
  BY Parameters
<1>3. got[1][3] = 0
  BY DEF Rising
<1>4. ASSUME NEW k \in 1 .. size + 1 PROVE got[k] = <<ex, size, k - 1>>
  <2>1. k \in DOMAIN got /\ 1 \in DOMAIN got /\ 1 <= k
    BY <1>1, <1>2
  <2>2. got[1][3] + (k - 1) <= got[k][3]
    BY <2>1, RisingApart
  <2>3. got[k][3] + (Len(got) - k) <= Final(got)
    BY <2>1, RisingApart
  <2>4. got[k][3] = k - 1
    BY <1>1, <1>2, <1>3, <2>2, <2>3
  <2> QED BY <1>1, <2>4 DEF Rising
<1>5. Final(got) = size
  <2>1. got[size + 1] = <<ex, size, size>>
    BY <1>2, <1>4
  <2> QED BY <2>1 DEF Final
<1>6. ASSUME NEW k \in 1 .. Len(got) PROVE got[k] = Whole(ex, size)[k]
  <2>1. k \in 1 .. size + 1
    OBVIOUS
  <2>2. Whole(ex, size)[k] = <<ex, size, k - 1>>
    BY <2>1, WholeType
  <2> QED BY <1>4, <2>1, <2>2
<1> QED BY <1>5, <1>6, WholeType, SeqEqual

(* So what a reassembly completes is the message, and nothing of it is     *)
(* left behind.                                                            *)
LEMMA ComingWhole ==
  ASSUME NEW s \in Seq(Frames), s # << >>, NEW r \in Assemblies, NEW ex \in 0 .. MaxExchanges,
         NEW size \in Sizes, NEW next \in Nat, Coming(r, s, ex, size, next), next <= size + 1,
         r.on, Complete(Extended(r, Head(s)))
  PROVE  /\ Extended(r, Head(s)).got = Whole(ex, size) /\ r.total = size
         /\ Tail(s) = << >> /\ next = size + 1
<1> DEFINE q == Extended(r, Head(s))
<1>1. /\ Head(s).i \in 1 .. next - 1 /\ Coming(q, Tail(s), ex, size, next)
      /\ Final(q.got) = Head(s).i
  BY ComingExtended
<1>2. q \in Assemblies /\ q.on /\ q.got \in Seq(Pieces) /\ q.total = r.total
  <2>1. Head(s) \in Frames
    BY TailOne
  <2> QED BY <2>1, ExtendedType
<1> HIDE DEF q
<1>3. Rising(q.got, ex, size) /\ q.total = size /\ size \in Nat /\ Len(q.got) = size + 1
  BY <1>1, <1>2, Parameters DEF Coming, Complete, q
<1>4. Final(q.got) <= size
  BY <1>1, <1>3
<1>5. q.got = Whole(ex, size) /\ Final(q.got) = size
  BY <1>2, <1>3, <1>4, RisingWhole
<1>6. next = size + 1
  BY <1>1, <1>3, <1>5
<1>7. Tail(s) = << >>
  <2> SUFFICES ASSUME Tail(s) # << >> PROVE FALSE
    OBVIOUS
  <2>1. Tail(s) \in Seq(Frames)
    BY TailOne
  <2>2. 1 \in DOMAIN Tail(s)
    BY <2>1, TailOne
  <2>3. Tail(s)[1].i \in 1 .. next - 1 /\ Final(q.got) < Tail(s)[1].i
    BY <1>1, <1>2, <2>2 DEF Coming, Run
  <2> QED BY <1>3, <1>5, <1>6, <2>3
<1> QED BY <1>2, <1>3, <1>5, <1>6, <1>7 DEF q

-----------------------------------------------------------------------------
(* THE EXCHANGE                                                            *)

(* Nothing is under way that the node would go on with by itself.          *)
Quiet == toNode = << >> /\ toClient = << >> /\ inbox = << >> /\ tx.st # "send"

(* A transmission that waits is the answer of n consecutive frames.        *)
Holding(n) == tx.st = "wait" => tx.ex = client.ex /\ tx.size = n /\ tx.next = 1

(* Where the one message of an exchange can be.                            *)
Resting == client.pc = "idle" /\ Quiet

Lost == client.pc \in {"fc", "answer", "cfs"} /\ Quiet

Opened ==
  /\ client.pc = IF client.size = 0 THEN "answer" ELSE "fc"
  /\ client.next = 1
  /\ toNode = <<Opening(client.ex, client.size)>> /\ toClient = << >>
  /\ inbox = << >> /\ tx.st # "send"

Cleared ==
  /\ client.pc = "fc" /\ client.size > 0 /\ client.next = 1
  /\ toNode = << >> /\ toClient = <<FC(CTS)>>
  /\ inbox = << >> /\ tx.st # "send"
  /\ Coming(rx, << >>, client.ex, client.size, 1)

Streaming ==
  /\ client.size > 0
  /\ \/ client.pc = "send" /\ client.next \in 1 .. client.size
     \/ client.pc = "answer" /\ client.next = client.size + 1
  /\ toClient = << >> /\ inbox = << >> /\ tx.st # "send"
  /\ Coming(rx, toNode, client.ex, client.size, client.next)

Handed ==
  /\ client.pc = "answer"
  /\ toNode = << >> /\ toClient = << >> /\ tx.st # "send"
  /\ inbox = <<[total |-> client.size, got |-> Whole(client.ex, client.size)]>>

Answered ==
  /\ client.pc = "answer"
  /\ toNode = << >> /\ inbox = << >> /\ tx.st # "send"
  /\ \E n \in Sizes : /\ toClient = <<Opening(client.ex, n)>>
                      /\ n > 0 => Holding(n)

Granted ==
  /\ client.pc = "cfs"
  /\ toNode = <<FC(CTS)>> /\ toClient = << >> /\ inbox = << >> /\ tx.st # "send"
  /\ client.in.on /\ client.in.total > 0
  /\ Coming(client.in, << >>, client.ex, client.in.total, 1)
  /\ Holding(client.in.total)

ReplyNext == IF tx.st = "send" THEN tx.next ELSE client.in.total + 1

Replying ==
  /\ client.pc = "cfs"
  /\ toNode = << >> /\ inbox = << >> /\ tx.st # "wait"
  /\ client.in.on /\ client.in.total > 0
  /\ tx.st = "send" => tx.ex = client.ex /\ tx.size = client.in.total
  /\ Coming(client.in, toClient, client.ex, client.in.total, ReplyNext)

Phase == \/ Resting \/ Lost \/ Opened \/ Cleared \/ Streaming
         \/ Handed \/ Answered \/ Granted \/ Replying

(* The answer last returned is the whole answer of this exchange.          *)
Paired == answer.ex # 0 => /\ answer.ex = client.ex
                           /\ \E n \in Sizes : answer.got = Whole(client.ex, n)

Delivery == ~behind => Phase /\ Paired

LEMMA PairedKept ==
  ASSUME Paired, UNCHANGED answer, client'.ex = client.ex
  PROVE  Paired'
BY DEF Paired

(* STEPS OF THE GATEWAY.                                                   *)
LEMMA AskOpens ==
  ASSUME Typed, Delivery, NEW size \in Sizes, Ask(size), ~behind'
  PROVE  Opened' /\ Paired'
<1>1. Quiet
  <2>1. CASE behind
    BY <2>1 DEF Ask, NodeQuiet, Quiet
  <2>2. CASE ~behind
    <3>1. client.pc = "idle" /\ Phase
      BY <2>2 DEF Ask, Delivery
    <3> QED
      BY <3>1 DEF Phase, Resting, Lost, Opened, Cleared, Streaming, Handed, Answered, Granted,
                  Replying
  <2> QED BY <2>1, <2>2
<1>2. client \in Clients /\ tx \in Sendings
  BY DEF Typed, Above, Below
<1>3. /\ client'.pc = (IF size = 0 THEN "answer" ELSE "fc") /\ client'.ex = client.ex + 1
      /\ client'.size = size /\ client'.next = 1
  BY <1>2 DEF Ask, Clients
<1>4. tx'.st = tx.st
  BY <1>2 DEF Ask, Sendings
<1>5. toNode' = <<Opening(client.ex + 1, size)>>
  BY <1>1 DEF Ask, Quiet
<1>6. Opened'
  BY <1>1, <1>3, <1>4, <1>5 DEF Ask, Quiet, Opened
<1>7. Paired'
  BY DEF Ask, Paired
<1> QED BY <1>6, <1>7

LEMMA SendCfStreams ==
  ASSUME Typed, Phase, SendCf
  PROVE  Streaming /\ Streaming' /\ client'.ex = client.ex /\ client'.next = client.next + 1
<1>1. Streaming /\ client.pc = "send" /\ client.next \in 1 .. client.size
  BY DEF SendCf, Phase, Resting, Lost, Opened, Cleared, Streaming, Handed, Answered, Granted,
         Replying
<1>2. /\ client'.ex = client.ex /\ client'.size = client.size /\ client'.next = client.next + 1
      /\ client'.pc = (IF client.next = client.size THEN "answer" ELSE "send")
  BY <1>1 DEF SendCf, Typed, Above, Clients
<1>3. Coming(rx, Append(toNode, CF(client.ex, client.size, client.next)), client.ex, client.size,
             client.next + 1)
  <2>1. client.next \in Nat \ {0}
    BY <1>1, ClientType
  <2> QED BY <1>1, <2>1, ClientType, NodeType, ComingAppend DEF Streaming, Typed, Wire
<1>4. Coming(rx, toNode, client.ex, client.size, client.next)'
  BY <1>2, <1>3 DEF SendCf, NodeUnchanged
<1>5. \/ client'.pc = "send" /\ client'.next \in 1 .. client'.size
      \/ client'.pc = "answer" /\ client'.next = client'.size + 1
  BY <1>1, <1>2, ClientType
<1> QED BY <1>1, <1>2, <1>4, <1>5 DEF Streaming, SendCf, NodeUnchanged

LEMMA RaisedRests ==
  ASSUME Typed, NEW n, Raised(n), UNCHANGED <<toNode, inbox, tx>>, ~behind'
  PROVE  ~behind /\ Resting' /\ client'.ex = client.ex /\ UNCHANGED answer
<1>1. client'.pc = "idle" /\ client'.ex = client.ex
  BY DEF Raised, Typed, Above, Clients
<1>2. ~behind /\ NodeQuiet /\ toClient' = << >>
  BY DEF Raised
<1> QED BY <1>1, <1>2 DEF Resting, Quiet, NodeQuiet, Raised

LEMMA OpeningIs ==
  ASSUME NEW ex, NEW size
  PROVE  /\ Opening(ex, size).pci = (IF size = 0 THEN "SF" ELSE "FF")
         /\ Opening(ex, size).ex = ex /\ Opening(ex, size).size = size
BY DEF Opening, Frame

LEMMA OpeningAlone ==
  ASSUME NEW ex \in 0 .. MaxExchanges, NEW size \in Sizes
  PROVE  /\ <<Opening(ex, size)>> # << >> /\ Head(<<Opening(ex, size)>>) = Opening(ex, size)
         /\ Tail(<<Opening(ex, size)>>) = << >>
BY FrameType, Singleton

LEMMA ClearAlone ==
  /\ <<FC(CTS)>> # << >> /\ Head(<<FC(CTS)>>) = FC(CTS) /\ Tail(<<FC(CTS)>>) = << >>
  /\ FC(CTS).pci = "FC"
BY FrameType, Singleton

LEMMA ClientClears ==
  ASSUME Typed, Cleared, ClientReceives
  PROVE  Streaming' /\ UNCHANGED <<answer, toNode, rx, tx, inbox, fails>> /\ toNode = << >>
         /\ client' = [client EXCEPT !.pc = "send"] /\ client'.ex = client.ex
<1>1. Head(toClient) = FC(CTS) /\ Tail(toClient) = << >> /\ client.pc = "fc"
  BY ClearAlone DEF Cleared
<1>2. /\ client' = [client EXCEPT !.pc = "send"] /\ toClient' = << >> /\ Free
      /\ UNCHANGED <<answer, toNode>> /\ NodeUnchanged
  BY <1>1 DEF ClientReceives
<1>3. client'.pc = "send" /\ client'.ex = client.ex /\ client'.size = client.size
      /\ client'.next = client.next
  BY <1>2 DEF Typed, Above, Clients
<1>4. client'.next \in 1 .. client'.size
  BY <1>3, ClientType DEF Cleared
<1>5. Streaming'
  BY <1>2, <1>3, <1>4 DEF Cleared, Streaming, NodeUnchanged
<1> QED BY <1>2, <1>3, <1>5 DEF Cleared, NodeUnchanged, Free

LEMMA ReturnedRests ==
  ASSUME Typed, NEW n \in Sizes, Returned(Whole(client.ex, n)), Quiet'
  PROVE  Resting' /\ Paired' /\ client'.ex = client.ex
<1>1. client'.pc = "idle" /\ client'.ex = client.ex
  BY DEF Returned, Typed, Above, Clients
<1>2. answer'.ex = client.ex /\ answer'.got = Whole(client.ex, n)
  BY DEF Returned
<1> QED BY <1>1, <1>2 DEF Resting, Paired

LEMMA ClientAnswered ==
  ASSUME Typed, Answered, ClientReceives
  PROVE  /\ toClient[1].pci = "FF" => Granted' /\ UNCHANGED answer
         /\ toClient[1].pci # "FF" => Resting' /\ Paired'
         /\ client'.ex = client.ex /\ UNCHANGED <<tx, fails>>
<1>1. PICK n \in Sizes : toClient = <<Opening(client.ex, n)>> /\ (n > 0 => Holding(n))
  BY DEF Answered
<1> DEFINE f == Opening(client.ex, n)
<1>2. /\ Head(toClient) = f /\ toClient[1] = f /\ Tail(toClient) = << >>
      /\ f.pci = (IF n = 0 THEN "SF" ELSE "FF") /\ f.size = n /\ f \in Frames
  BY <1>1, ClientType, OpeningAlone, OpeningIs, FrameType
<1>3. NodeUnchanged /\ toClient' = << >> /\ client.pc = "answer" /\ n \in Nat
  BY <1>2, Parameters DEF ClientReceives, Answered
<1> HIDE DEF f
<1>4. CASE n = 0
  <2>1. f.pci = "SF" /\ toNode' = toNode /\ Returned(<<Piece(f)>>) /\ Free
    BY <1>2, <1>3, <1>4 DEF ClientReceives
  <2>2. <<Piece(f)>> = Whole(client.ex, 0)
    <3>1. Piece(f) = <<client.ex, 0, 0>>
      BY <1>4, ComingBegun, ClientType DEF f
    <3>2. Whole(client.ex, 0) \in Seq(Pieces) /\ Len(Whole(client.ex, 0)) = 1
          /\ Whole(client.ex, 0)[1] = <<client.ex, 0, 0>>
      <4>1. 0 \in Sizes /\ client.ex \in 0 .. MaxExchanges
        BY ClientType, Parameters
      <4>2. Whole(client.ex, 0)[1] = <<client.ex, 0, 1 - 1>>
        BY <4>1, WholeType
      <4>3. Whole(client.ex, 0) \in Seq(Pieces) /\ Len(Whole(client.ex, 0)) = 0 + 1
        BY <4>1, WholeType
      <4>4. 1 - 1 = 0 /\ 0 + 1 = 1
        OBVIOUS
      <4> QED BY <4>2, <4>3, <4>4
    <3>3. <<Piece(f)>> \in Seq(Pieces) /\ Len(<<Piece(f)>>) = 1 /\ <<Piece(f)>>[1] = Piece(f)
      BY <1>2, PieceType, Singleton
    <3> QED BY <3>1, <3>2, <3>3, SeqEqual
  <2>3. Quiet'
    BY <1>3, <2>1 DEF Quiet, Answered, NodeUnchanged
  <2> QED BY <1>2, <1>3, <2>1, <2>2, <2>3, ReturnedRests, Parameters DEF NodeUnchanged, Free
<1>5. CASE n # 0
  <2>1. f.pci = "FF"
    BY <1>2, <1>5
  <2>2. /\ toNode' = Append(toNode, FC(CTS)) /\ UNCHANGED <<answer, behind>> /\ Free
        /\ client' = [client EXCEPT !.pc = "cfs", !.in = Begun(client.in, f)]
    BY <1>2, <1>3, <2>1 DEF ClientReceives
  <2>3. toNode' = <<FC(CTS)>>
    BY <2>2 DEF Answered
  <2>4. client'.pc = "cfs" /\ client'.ex = client.ex /\ client'.in = Begun(client.in, f)
    BY <2>2 DEF Typed, Above, Clients
  <2>5. /\ Begun(client.in, f).on /\ Begun(client.in, f).total = n
        /\ Coming(Begun(client.in, f), << >>, client.ex, n, 1)
    BY <1>2, BegunType, ComingBegun, ClientType DEF f
  <2>6. Granted'
    BY <1>1, <1>3, <1>5, <2>3, <2>4, <2>5 DEF Granted, Answered, Holding, NodeUnchanged
  <2> QED BY <1>2, <1>3, <2>1, <2>2, <2>4, <2>6 DEF NodeUnchanged, Free
<1> QED BY <1>4, <1>5

LEMMA ReplyNextType ==
  ASSUME Typed, Replying
  PROVE  /\ ReplyNext \in Nat \ {0} /\ ReplyNext <= client.in.total + 1
         /\ ReplyNext = client.in.total + 1 => tx.st = "idle"
         /\ client.in.total \in Sizes /\ client.in.total \in Nat
<1>1. client.in.total \in Sizes /\ client.in.total \in Nat
  <2>1. client.in.total \in Sizes
    BY ClientType DEF Assemblies
  <2>2. client.in.total \in Nat
    BY <2>1, Parameters
  <2> QED BY <2>1, <2>2
<1>2. tx.st = "send" => tx.next \in 1 .. tx.size /\ tx.size = client.in.total
  BY NodeType DEF Underway, Replying
<1> QED BY <1>1, <1>2, NodeType DEF ReplyNext, Replying

(* A consecutive frame of the answer, in or out of its sequence number.    *)
LEMMA ClientTakesPiece ==
  ASSUME Typed, Replying, ClientReceives
  PROVE  LET f == Head(toClient)
             grown == Extended(client.in, f)
         IN  /\ NodeUnchanged /\ UNCHANGED toNode /\ toClient' = Tail(toClient)
             /\ \/ /\ InSequence(client.in, f) /\ Complete(grown) /\ Resting' /\ Paired'
                   /\ tx.st = "idle" /\ UNCHANGED fails
                \/ /\ InSequence(client.in, f) /\ ~Complete(grown) /\ Replying' /\ UNCHANGED answer
                   /\ client'.in = grown /\ client'.ex = client.ex /\ UNCHANGED fails
                \/ ~InSequence(client.in, f) /\ Raised(0)
<1> DEFINE f == Head(toClient)
           grown == Extended(client.in, f)
           n == client.in.total
<1>1. toClient # << >> /\ toClient \in Seq(Frames) /\ client.pc = "cfs"
  BY DEF ClientReceives, Replying, Typed, Wire
<1>2. /\ f.pci = "CF" /\ f \in Frames
      /\ Coming(grown, Tail(toClient), client.ex, n, ReplyNext)
  BY <1>1, ComingExtended, ReplyNextType, ClientType, TailOne DEF Replying
<1>3. /\ NodeUnchanged /\ UNCHANGED toNode /\ toClient' = Tail(toClient)
      /\ \/ /\ InSequence(client.in, f) /\ Complete(grown) /\ Returned(grown.got) /\ Free
         \/ /\ InSequence(client.in, f) /\ ~Complete(grown)
            /\ client' = [client EXCEPT !.in = grown] /\ UNCHANGED answer /\ Free
         \/ ~InSequence(client.in, f) /\ Raised(0)
  <2> HIDE DEF f, grown
  <2> QED BY <1>1, <1>2 DEF ClientReceives, f, grown
<1>4. ASSUME Complete(grown), Returned(grown.got)
      PROVE  Resting' /\ Paired' /\ tx.st = "idle"
  <2>1. grown.got = Whole(client.ex, n) /\ Tail(toClient) = << >> /\ ReplyNext = n + 1
    BY <1>1, <1>4, ComingWhole, ReplyNextType, ClientType DEF Replying
  <2>2. tx.st = "idle"
    BY <2>1, ReplyNextType
  <2>3. Quiet'
    BY <1>3, <2>1, <2>2 DEF Quiet, NodeUnchanged, Replying
  <2> HIDE DEF grown
  <2> QED BY <1>4, <2>1, <2>2, <2>3, ReturnedRests, ReplyNextType
<1>5. ASSUME client' = [client EXCEPT !.in = grown]
      PROVE  Replying' /\ client'.in = grown /\ client'.ex = client.ex
  <2>1. client'.in = grown /\ client'.ex = client.ex /\ client'.pc = "cfs"
    BY <1>1, <1>5 DEF Typed, Above, Clients
  <2>2. grown.on /\ grown.total = n
    BY <1>2, ClientType, ExtendedType DEF Replying
  <2> HIDE DEF grown
  <2>3. ReplyNext' = ReplyNext
    BY <1>3, <2>1, <2>2 DEF ReplyNext, NodeUnchanged
  <2>4. Coming(client.in, toClient, client.ex, client.in.total, ReplyNext)'
    BY <1>2, <1>3, <2>1, <2>2, <2>3
  <2> QED BY <1>3, <2>1, <2>2, <2>4 DEF Replying, NodeUnchanged
<1> QED BY <1>3, <1>4, <1>5 DEF Free

LEMMA ClientReceivesDelivers ==
  ASSUME Typed, Delivery, ClientReceives, ~behind'
  PROVE  Phase' /\ Paired'
<1>1. ~behind
  BY DEF ClientReceives, Raised
<1>2. Cleared \/ Answered \/ Replying
  BY <1>1 DEF ClientReceives, Delivery, Phase, Resting, Lost, Quiet, Opened, Cleared, Streaming,
              Handed, Answered, Granted, Replying
<1>3. CASE Cleared
  BY <1>1, <1>3, ClientClears, PairedKept DEF Delivery, Phase
<1>4. CASE Answered
  BY <1>1, <1>4, ClientAnswered, PairedKept DEF Delivery, Phase
<1>5. CASE Replying
  <2>1. CASE Resting' /\ Paired'
    BY <2>1 DEF Phase
  <2>2. CASE Replying' /\ UNCHANGED answer /\ client'.ex = client.ex
    BY <1>1, <2>2, PairedKept DEF Delivery, Phase
  <2>3. CASE Raised(0) /\ UNCHANGED toNode /\ NodeUnchanged
    BY <1>1, <2>3, RaisedRests, PairedKept DEF Delivery, Phase, NodeUnchanged
  <2> QED BY <1>5, <2>1, <2>2, <2>3, ClientTakesPiece
<1> QED BY <1>2, <1>3, <1>4, <1>5

LEMMA ClientTimesOutDelivers ==
  ASSUME Typed, Delivery, ClientTimesOut, ~behind'
  PROVE  Resting' /\ Paired'
<1>1. PICK n : Raised(n)
  BY DEF ClientTimesOut
<1> QED
  BY <1>1, RaisedRests, PairedKept DEF Delivery, Phase, ClientTimesOut, NodeUnchanged

(* STEPS OF THE NODE: WHAT IT TAKES.                                       *)
TakesNext == toNode # << >> /\ toNode' = Tail(toNode) /\ UNCHANGED <<client, answer, behind>>

LEMMA SingleTaken ==
  ASSUME Typed, Opened, client.size = 0, TakesNext, UNCHANGED <<toClient, tx>>,
         inbox' = <<[total |-> 0, got |-> <<Piece(Head(toNode))>>]>>
  PROVE  Handed'
<1>1. Head(toNode) = Opening(client.ex, 0) /\ Tail(toNode) = << >>
  BY OpeningAlone, ClientType DEF Opened
<1>2. Piece(Opening(client.ex, 0)) = <<client.ex, 0, 0>>
  BY ComingBegun, ClientType, Parameters
<1>3. <<Piece(Head(toNode))>> = Whole(client.ex, 0)
  <2>1. 0 \in Sizes /\ client.ex \in 0 .. MaxExchanges
    BY ClientType, Parameters
  <2>2. Whole(client.ex, 0) \in Seq(Pieces) /\ Len(Whole(client.ex, 0)) = 0 + 1
        /\ Whole(client.ex, 0)[1] = <<client.ex, 0, 1 - 1>>
    BY <2>1, WholeType
  <2>3. 1 - 1 = 0 /\ 0 + 1 = 1
    OBVIOUS
  <2>4. Piece(Head(toNode)) \in Pieces
    BY <1>1, <2>1, FrameType, PieceType
  <2>5. /\ <<Piece(Head(toNode))>> \in Seq(Pieces) /\ Len(<<Piece(Head(toNode))>>) = 1
        /\ <<Piece(Head(toNode))>>[1] = Piece(Head(toNode))
    BY <2>4, Singleton
  <2> QED BY <1>1, <1>2, <2>2, <2>3, <2>5, SeqEqual
<1> QED BY <1>1, <1>3 DEF Opened, TakesNext, Handed

LEMMA FirstTaken ==
  ASSUME Typed, Opened, client.size # 0, TakesNext, UNCHANGED <<inbox, tx>>,
         toClient' = Append(toClient, FC(CTS)),
         rx'.total = Begun(rx, Head(toNode)).total, rx'.got = Begun(rx, Head(toNode)).got
  PROVE  Cleared'
<1> DEFINE q == Begun(rx, Head(toNode))
<1>1. Head(toNode) = Opening(client.ex, client.size) /\ Tail(toNode) = << >>
  BY OpeningAlone, ClientType DEF Opened
<1>2. Coming(q, << >>, client.ex, client.size, 1) /\ q.on
  BY <1>1, ComingBegun, ClientType, FrameType, BegunType
<1> HIDE DEF q
<1>3. Coming(rx', << >>, client.ex, client.size, 1)
  BY <1>2, ComingKept DEF q
<1>4. toClient' = <<FC(CTS)>> /\ client.pc = "fc" /\ client.size > 0
  BY ClientType DEF Opened
<1> QED BY <1>1, <1>3, <1>4 DEF Opened, TakesNext, Cleared

LEMMA OpeningDropped ==
  ASSUME Typed, Opened, TakesNext, UNCHANGED <<inbox, toClient>>, tx'.st # "send"
  PROVE  Lost'
<1>1. Tail(toNode) = << >>
  BY OpeningAlone, ClientType DEF Opened
<1> QED BY <1>1 DEF Opened, TakesNext, Lost, Quiet

LEMMA PieceTaken ==
  ASSUME Typed, Streaming, TakesNext, UNCHANGED <<inbox, toClient>>, tx'.st # "send",
         \/ rx' = rx \/ ~rx'.on
         \/ /\ rx.on /\ rx'.total = Extended(rx, Head(toNode)).total
            /\ rx'.got = Extended(rx, Head(toNode)).got
  PROVE  Streaming'
<1> DEFINE f == Head(toNode)
           q == Extended(rx, f)
<1>1. toNode \in Seq(Frames) /\ toNode # << >> /\ f \in Frames
  BY TailOne DEF Typed, Wire, TakesNext
<1>2. /\ Coming(rx, Tail(toNode), client.ex, client.size, client.next)
      /\ rx.on => Coming(q, Tail(toNode), client.ex, client.size, client.next) /\ q.on
  BY <1>1, ComingShorter, ComingExtended, ExtendedType, ClientType, NodeType DEF Streaming
<1> HIDE DEF f, q
<1>3. Coming(rx', Tail(toNode), client.ex, client.size, client.next)
  <2>1. CASE rx' = rx
    BY <1>2, <2>1
  <2>2. CASE ~rx'.on
    BY <1>2, <2>2, ComingOff
  <2>3. CASE rx.on /\ rx'.total = q.total /\ rx'.got = q.got
    BY <1>2, <2>3, ComingKept
  <2> QED BY <2>1, <2>2, <2>3 DEF q, f
<1> QED BY <1>3 DEF Streaming, TakesNext

LEMMA StreamedPiece ==
  ASSUME Typed, Streaming, toNode # << >>
  PROVE  Head(toNode).pci = "CF"
BY ComingExtended, ClientType, NodeType DEF Streaming, Typed, Wire

LEMMA LastTaken ==
  ASSUME Typed, Streaming, TakesNext, UNCHANGED <<tx, toClient>>,
         rx.on, Complete(Extended(rx, Head(toNode))),
         inbox' = <<[total |-> rx.total, got |-> Extended(rx, Head(toNode)).got]>>
  PROVE  Handed'
<1>1. /\ Extended(rx, Head(toNode)).got = Whole(client.ex, client.size) /\ rx.total = client.size
      /\ Tail(toNode) = << >> /\ client.next = client.size + 1
  <2>1. client.next <= client.size + 1
    BY ClientType DEF Streaming
  <2> QED
    BY <2>1, ComingWhole, ClientType, NodeType DEF Streaming, TakesNext, Typed, Wire
<1>2. client.pc = "answer"
  BY <1>1, ClientType DEF Streaming
<1> QED BY <1>1, <1>2 DEF Streaming, TakesNext, Handed

LEMMA GrantTaken ==
  ASSUME Typed, Granted, TakesNext, UNCHANGED <<inbox, toClient>>, tx'.st # "wait",
         tx'.st = "send" => /\ tx.st = "wait" /\ tx'.ex = tx.ex /\ tx'.size = tx.size
                            /\ tx'.next = tx.next
  PROVE  Replying'
<1>1. Tail(toNode) = << >> /\ toClient = << >> /\ << >> \in Seq(Frames)
  BY ClearAlone, EmptySeq DEF Granted
<1>2. client.in.total + 1 \in Nat /\ 1 <= client.in.total + 1 /\ 1 \in Nat
  <2>1. client.in.total \in Sizes
    BY ClientType DEF Assemblies
  <2>2. client.in.total \in Nat
    BY <2>1, Parameters
  <2> QED BY <2>2
<1>3. Coming(client.in, << >>, client.ex, client.in.total, client.in.total + 1)
  BY <1>1, <1>2, ComingMore, ClientType DEF Granted
<1>4. tx'.st = "send" => tx'.ex = client.ex /\ tx'.size = client.in.total /\ tx'.next = 1
  BY DEF Granted, Holding
<1>5. Coming(client.in, toClient, client.ex, client.in.total, ReplyNext)'
  <2>1. CASE tx'.st = "send"
    <3>1. ReplyNext' = 1
      BY <1>4, <2>1 DEF ReplyNext
    <3> QED BY <1>1, <3>1 DEF Granted, TakesNext
  <2>2. CASE tx'.st # "send"
    <3>1. ReplyNext' = client.in.total + 1
      BY <2>2 DEF ReplyNext, TakesNext
    <3> QED BY <1>1, <1>3, <3>1 DEF TakesNext
  <2> QED BY <2>1, <2>2
<1> QED BY <1>1, <1>4, <1>5 DEF Granted, TakesNext, Replying

LEMMA TakesIn ==
  ASSUME Phase, toNode # << >>
  PROVE  Opened \/ Streaming \/ Granted
BY DEF Phase, Resting, Lost, Quiet, Cleared, Handed, Answered, Replying

LEMMA OpenedHead ==
  ASSUME Typed, Opened
  PROVE  /\ Head(toNode).pci = (IF client.size = 0 THEN "SF" ELSE "FF") /\ inbox = << >>
         /\ Head(toNode) # FC(CTS) /\ Tail(toNode) = << >>
<1>1. Head(toNode) = Opening(client.ex, client.size) /\ Tail(toNode) = << >>
  BY OpeningAlone, ClientType DEF Opened
<1> QED BY <1>1, OpeningIs, ClearAlone DEF Opened

LEMMA GrantedHead ==
  ASSUME Granted
  PROVE  Head(toNode).pci = "FC" /\ Head(toNode) = FC(CTS) /\ inbox = << >> /\ Tail(toNode) = << >>
BY ClearAlone DEF Granted

LEMMA TookOnly ==
  ASSUME Typed, toNode # << >>, ClientUnchanged
  PROVE  /\ Took(<< >>) => TakesNext /\ UNCHANGED toClient
         /\ Took(<<FC(CTS)>>) => TakesNext /\ toClient' = Append(toClient, FC(CTS))
BY TookEach, FrameType DEF Typed, Wire, TakesNext, ClientUnchanged

LEMMA BootReceivesDelivers ==
  ASSUME Typed, Phase, BootReceives
  PROVE  /\ Opened => IF client.size = 0 THEN Handed' ELSE Cleared' /\ rx' = Begun(rx, Head(toNode))
         /\ Streaming => Streaming' \/ Handed'
         /\ Granted => Replying'
         /\ Phase'
<1> DEFINE f == Head(toNode)
           grown == Extended(rx, f)
<1>1. /\ toNode # << >> /\ inbox = << >> /\ tx.st = "idle" /\ UNCHANGED <<node, tx>>
      /\ ClientUnchanged
  BY DEF BootReceives
<1> HIDE DEF f, grown
<1>2. ASSUME Opened, client.size = 0 PROVE Handed'
  <2>1. f.pci = "SF"
    BY <1>2, OpenedHead DEF f
  <2>2. inbox' = <<[total |-> 0, got |-> <<Piece(f)>>]>> /\ Took(<< >>)
    BY <2>1 DEF BootReceives, f
  <2> QED BY <1>1, <1>2, <2>2, TookOnly, SingleTaken DEF f
<1>3. ASSUME Opened, client.size # 0 PROVE Cleared' /\ rx' = Begun(rx, f)
  <2>1. f.pci = "FF"
    BY <1>3, OpenedHead DEF f
  <2>2. rx' = Begun(rx, f) /\ Took(<<FC(CTS)>>) /\ UNCHANGED inbox
    BY <2>1 DEF BootReceives, f
  <2> QED BY <1>1, <1>3, <2>2, TookOnly, FirstTaken DEF f
<1>4. ASSUME Streaming PROVE Streaming' \/ Handed'
  <2>1. f.pci = "CF"
    BY <1>1, <1>4, StreamedPiece DEF f
  <2>2. /\ Took(<< >>)
        /\ \/ /\ rx.on /\ Complete(grown)
              /\ inbox' = <<[total |-> rx.total, got |-> grown.got]>>
           \/ rx.on /\ rx' = grown /\ UNCHANGED inbox
           \/ (rx' = Nothing \/ rx' = rx) /\ UNCHANGED inbox
    BY <2>1 DEF BootReceives, f, grown
  <2> QED BY <1>1, <1>4, <2>2, TookOnly, LastTaken, PieceTaken, NothingType DEF f, grown
<1>5. ASSUME Granted PROVE Replying'
  <2>1. f.pci = "FC"
    BY <1>5, GrantedHead DEF f
  <2>2. Took(<< >>) /\ UNCHANGED inbox
    BY <2>1 DEF BootReceives, f
  <2> QED BY <1>1, <1>5, <2>2, TookOnly, GrantTaken
<1>6. Phase'
  BY <1>1, <1>2, <1>3, <1>4, <1>5, TakesIn DEF Phase
<1> QED BY <1>2, <1>3, <1>4, <1>5, <1>6 DEF f

(* A node that waits for flow control takes a request for it; its answer   *)
(* to an earlier exchange ends there, and the request is lost.             *)
LEMMA BootWaitsCtsDelivers ==
  ASSUME Typed, Phase, BootWaitsCts
  PROVE  /\ Opened => Lost' /\ tx' = Idle
         /\ Streaming => Streaming'
         /\ Granted => Replying'
         /\ Phase'
<1>1. /\ toNode # << >> /\ tx.st = "wait" /\ tx' = AfterFrame(Head(toNode)) /\ UNCHANGED inbox
      /\ TakesNext /\ UNCHANGED toClient
  BY TookOnly DEF BootWaitsCts
<1>2. ASSUME Opened PROVE Lost' /\ tx' = Idle
  <2>1. tx' = Idle
    BY <1>1, <1>2, OpenedHead DEF AfterFrame
  <2> QED BY <1>1, <1>2, <2>1, OpeningDropped, IdleType
<1>3. ASSUME Streaming PROVE Streaming'
  <2>1. Head(toNode) # FC(CTS)
    BY <1>1, <1>3, StreamedPiece, ClearAlone
  <2>2. tx' = Idle /\ rx' = rx
    BY <1>1, <2>1 DEF AfterFrame, BootWaitsCts
  <2> QED BY <1>1, <1>3, <2>2, PieceTaken, IdleType
<1>4. ASSUME Granted PROVE Replying'
  <2>1. tx' = [tx EXCEPT !.st = "send"]
    BY <1>1, <1>4, GrantedHead DEF AfterFrame
  <2>2. tx'.st = "send" /\ tx'.ex = tx.ex /\ tx'.size = tx.size /\ tx'.next = tx.next
    BY <2>1, NodeType DEF Sendings
  <2> QED BY <1>1, <1>4, <2>2, GrantTaken
<1>5. Phase'
  BY <1>1, <1>2, <1>3, <1>4, TakesIn DEF Phase
<1> QED BY <1>2, <1>3, <1>4, <1>5

LEMMA AppReceivesDelivers ==
  ASSUME Typed, Phase, AppReceives
  PROVE  /\ Opened => IF client.size = 0 THEN Handed' ELSE Lost' \/ Cleared'
         /\ Streaming => Streaming' \/ Handed'
         /\ Granted => Replying'
         /\ Phase'
<1> DEFINE f == Head(toNode)
           grown == Extended(rx, f)
<1>1. /\ toNode # << >> /\ UNCHANGED <<node, diag>> /\ ClientUnchanged /\ f \in Frames
      /\ (AppReceivesSingle(f) \/ AppReceivesFirst(f)
            \/ AppReceivesConsecutive(f) \/ AppReceivesFlowControl(f))
  BY NodeHears DEF AppReceives
<1>2. \A pdu : inbox = << >> => Queued(pdu) = <<pdu>>
  BY Parameters DEF Queued
<1> HIDE DEF f, grown
<1>3. ASSUME Opened, client.size = 0 PROVE Handed'
  <2>1. f.pci = "SF" /\ inbox = << >>
    BY <1>3, OpenedHead DEF f
  <2>2. inbox' = <<[total |-> 0, got |-> <<Piece(f)>>]>> /\ Took(<< >>) /\ UNCHANGED tx
    BY <1>1, <1>2, <2>1 DEF AppReceivesSingle, AppReceivesFirst, AppReceivesConsecutive,
                            AppReceivesFlowControl
  <2> QED BY <1>1, <1>3, <2>2, TookOnly, SingleTaken DEF f
<1>4. ASSUME Opened, client.size # 0 PROVE Lost' \/ Cleared'
  <2>1. f.pci = "FF" /\ inbox = << >> /\ tx.st # "send"
    BY <1>4, OpenedHead DEF f, Opened
  <2>2. Len(inbox) # QueueDepth
    BY <2>1, Parameters
  <2>3. /\ UNCHANGED <<inbox, tx>>
        /\ \/ Took(<< >>)
           \/ Took(<<FC(CTS)>>) /\ \E race \in Raced : rx' = Stamped(Begun(rx, f), race)
    BY <1>1, <2>1, <2>2 DEF AppReceivesSingle, AppReceivesFirst, AppReceivesConsecutive,
                            AppReceivesFlowControl
  <2>4. ASSUME Took(<< >>) PROVE Lost'
    BY <1>1, <1>4, <2>1, <2>3, <2>4, TookOnly, OpeningDropped
  <2>5. ASSUME Took(<<FC(CTS)>>), \E race \in Raced : rx' = Stamped(Begun(rx, f), race)
        PROVE  Cleared'
    <3>1. rx'.total = Begun(rx, f).total /\ rx'.got = Begun(rx, f).got
      BY <1>1, <2>5, BegunType DEF Stamped, Assemblies
    <3> QED BY <1>1, <1>4, <2>3, <2>5, <3>1, TookOnly, FirstTaken DEF f
  <2> QED BY <2>3, <2>4, <2>5
<1>5. ASSUME Streaming PROVE Streaming' \/ Handed'
  <2>1. f.pci = "CF" /\ inbox = << >> /\ tx.st # "send"
    BY <1>1, <1>5, StreamedPiece DEF f, Streaming
  <2>2. /\ Took(<< >>) /\ UNCHANGED tx
        /\ \/ rx.on /\ Complete(grown) /\ inbox' = <<[total |-> rx.total, got |-> grown.got]>>
           \/ rx.on /\ (\E race \in Raced : rx' = Stamped(grown, race)) /\ UNCHANGED inbox
           \/ (rx' = Nothing \/ rx' = rx) /\ UNCHANGED inbox
    BY <1>1, <1>2, <2>1 DEF AppReceivesSingle, AppReceivesFirst, AppReceivesConsecutive,
                            AppReceivesFlowControl, grown
  <2>3. TakesNext /\ UNCHANGED toClient
    BY <1>1, <2>2, TookOnly
  <2>4. CASE rx.on /\ Complete(grown) /\ inbox' = <<[total |-> rx.total, got |-> grown.got]>>
    BY <1>5, <2>2, <2>3, <2>4, LastTaken DEF f, grown
  <2>5. CASE rx.on /\ (\E race \in Raced : rx' = Stamped(grown, race)) /\ UNCHANGED inbox
    <3>1. grown \in Assemblies
      BY <1>1, NodeType, ExtendedType DEF grown
    <3>2. rx'.total = grown.total /\ rx'.got = grown.got
      BY <2>5, <3>1 DEF Stamped, Assemblies
    <3> QED BY <1>5, <2>1, <2>2, <2>3, <2>5, <3>2, PieceTaken DEF f, grown
  <2>6. CASE (rx' = Nothing \/ rx' = rx) /\ UNCHANGED inbox
    BY <1>5, <2>1, <2>2, <2>3, <2>6, PieceTaken, NothingType
  <2> QED BY <2>2, <2>4, <2>5, <2>6
<1>6. ASSUME Granted PROVE Replying'
  <2>1. f.pci = "FC" /\ tx.st # "send"
    BY <1>6, GrantedHead DEF f, Granted
  <2>2. /\ Took(<< >>) /\ UNCHANGED inbox
        /\ tx' = IF tx.st = "wait" THEN [tx EXCEPT !.st = "send", !.due = FALSE] ELSE tx
    BY <1>1, <2>1 DEF AppReceivesSingle, AppReceivesFirst, AppReceivesConsecutive,
                      AppReceivesFlowControl
  <2>3. /\ tx'.st # "wait"
        /\ tx'.st = "send" => /\ tx.st = "wait" /\ tx'.ex = tx.ex /\ tx'.size = tx.size
                              /\ tx'.next = tx.next
    BY <2>1, <2>2, NodeType DEF Sendings
  <2> QED BY <1>1, <1>6, <2>2, <2>3, TookOnly, GrantTaken
<1>7. Phase'
  BY <1>1, <1>3, <1>4, <1>5, <1>6, TakesIn DEF Phase
<1> QED BY <1>3, <1>4, <1>5, <1>6, <1>7

(* WHAT THE NODE SENDS.                                                    *)
LEMMA ServesIn ==
  ASSUME Phase, inbox # << >>
  PROVE  Handed
BY DEF Phase, Resting, Lost, Quiet, Opened, Cleared, Streaming, Answered, Granted, Replying

LEMMA HandedServed ==
  ASSUME Typed, Handed
  PROVE  Served = << >> /\ Asked(Head(inbox)) = client.ex
<1> DEFINE m == [total |-> client.size, got |-> Whole(client.ex, client.size)]
<1>1. m \in Messages
  <2>1. /\ Whole(client.ex, client.size) \in Seq(Pieces)
        /\ Len(Whole(client.ex, client.size)) = client.size + 1
    BY WholeType, ClientType
  <2>2. Len(Whole(client.ex, client.size)) # 0
    BY <2>1, ClientType
  <2>3. Whole(client.ex, client.size) # << >>
    BY <2>1, <2>2, EmptySeq
  <2> QED BY <2>1, <2>3, MessageType, ClientType
<1>2. m.got[1][1] = client.ex
  BY WholeType, ClientType
<1> HIDE DEF m
<1>3. inbox = <<m>>
  BY DEF Handed, m
<1>4. Head(<<m>>) = m /\ Tail(<<m>>) = << >>
  BY <1>1, Singleton
<1> QED BY <1>2, <1>3, <1>4 DEF Served, Asked

LEMMA HandedAnswers ==
  ASSUME Typed, Handed, inbox' = Served, UNCHANGED <<client, toNode>>, tx'.st # "send",
         NEW n \in Sizes, toClient' = Append(toClient, Opening(Asked(Head(inbox)), n)),
         n # 0 => tx' = Sending(Asked(Head(inbox)), n)
  PROVE  Answered' /\ toClient'[1] = Opening(client.ex, n)
<1>1. inbox' = << >> /\ toClient' = <<Opening(client.ex, n)>>
  BY HandedServed DEF Handed
<1>2. n > 0 => Holding(n)'
  BY HandedServed, SendingType, ClientType, Parameters DEF Holding
<1> QED BY <1>1, <1>2 DEF Handed, Answered

LEMMA HandedDrops ==
  ASSUME Typed, Handed, inbox' = Served, UNCHANGED <<client, toNode, toClient, tx>>
  PROVE  Lost'
BY HandedServed DEF Handed, Lost, Quiet

LEMMA BootServesDelivers ==
  ASSUME Typed, Phase, BootServes
  PROVE  Handed /\ Phase'
<1>1. Handed
  BY ServesIn DEF BootServes
<1>2. Answered' \/ Lost'
  <2>1. CASE UNCHANGED <<toClient, tx>>
    BY <1>1, <2>1, HandedDrops DEF BootServes, ClientUnchanged
  <2>2. CASE \E n \in Sizes :
               /\ toClient' = Append(toClient, Opening(Asked(Head(inbox)), n))
               /\ tx' = IF n = 0 THEN Idle ELSE Sending(Asked(Head(inbox)), n)
    <3>1. PICK n \in Sizes :
               /\ toClient' = Append(toClient, Opening(Asked(Head(inbox)), n))
               /\ tx' = IF n = 0 THEN Idle ELSE Sending(Asked(Head(inbox)), n)
      BY <2>2
    <3>2. tx'.st # "send"
      BY <1>1, <3>1, IdleType, SendingType, HandedServed, ClientType
    <3> QED BY <1>1, <3>1, <3>2, HandedAnswers DEF BootServes, ClientUnchanged
  <2> QED BY <2>1, <2>2 DEF BootServes
<1> QED BY <1>1, <1>2 DEF Phase

LEMMA DiagServesDelivers ==
  ASSUME Typed, Phase, DiagServes
  PROVE  Handed /\ Phase'
<1>1. Handed
  BY ServesIn DEF DiagServes
<1>2. Answered' \/ Lost'
  <2>1. CASE UNCHANGED <<toClient, tx>>
    BY <1>1, <2>1, HandedDrops DEF DiagServes, ClientUnchanged
  <2>2. CASE \E n \in Sizes :
               /\ toClient' = Append(toClient, Opening(Asked(Head(inbox)), n))
               /\ tx' = IF n = 0 THEN tx ELSE Sending(Asked(Head(inbox)), n)
    <3>1. PICK n \in Sizes :
               /\ toClient' = Append(toClient, Opening(Asked(Head(inbox)), n))
               /\ tx' = IF n = 0 THEN tx ELSE Sending(Asked(Head(inbox)), n)
      BY <2>2
    <3>2. tx'.st # "send"
      BY <1>1, <3>1, SendingType, HandedServed, ClientType DEF Handed
    <3> QED BY <1>1, <3>1, <3>2, HandedAnswers DEF DiagServes, ClientUnchanged
  <2> QED BY <2>1, <2>2 DEF DiagServes
<1> QED BY <1>1, <1>2 DEF Phase

LEMMA SendsIn ==
  ASSUME Phase, tx.st = "send"
  PROVE  Replying
BY DEF Phase, Resting, Lost, Quiet, Opened, Cleared, Streaming, Handed, Answered, Granted

(* The next consecutive frame of the answer, or the end of it.             *)
LEMMA ReplySent ==
  ASSUME Typed, Replying, tx.st = "send", UNCHANGED <<client, toNode, inbox>>,
         \/ toClient' = Append(toClient, NextCf) /\ tx' = Advanced
         \/ UNCHANGED toClient /\ (tx' = Idle \/ tx' = tx)
  PROVE  Replying'
<1> DEFINE n == client.in.total
<1>1. ReplyNext = tx.next /\ tx.ex = client.ex /\ tx.size = n /\ tx.next \in 1 .. n
  BY NodeType DEF Replying, ReplyNext, Underway
<1>2. n \in Sizes /\ n \in Nat /\ tx.next \in Nat \ {0} /\ toClient \in Seq(Frames)
  BY <1>1, ReplyNextType DEF Typed, Wire
<1>3. Coming(client.in, toClient, client.ex, n, tx.next) /\ client.in \in Assemblies
  BY <1>1, ClientType DEF Replying
<1>4. CASE toClient' = Append(toClient, NextCf) /\ tx' = Advanced
  <2>1. Coming(client.in, toClient', client.ex, n, tx.next + 1)
    BY <1>1, <1>2, <1>3, <1>4, ComingAppend, ClientType DEF NextCf
  <2>2. /\ tx'.st # "wait" /\ ReplyNext' = tx.next + 1
        /\ tx'.st = "send" => tx'.ex = client.ex /\ tx'.size = n
    <3>1. CASE tx.next = n
      BY <1>1, <1>4, <3>1, IdleType DEF Advanced, ReplyNext
    <3>2. CASE tx.next # n
      <4>1. tx' = [tx EXCEPT !.next = tx.next + 1]
        BY <1>1, <1>4, <3>2 DEF Advanced
      <4>2. tx'.st = "send" /\ tx'.next = tx.next + 1 /\ tx'.ex = tx.ex /\ tx'.size = tx.size
        BY <4>1, NodeType DEF Sendings
      <4> QED BY <1>1, <4>2 DEF ReplyNext
    <3> QED BY <3>1, <3>2
  <2>3. Coming(client.in, toClient, client.ex, client.in.total, ReplyNext)'
    BY <2>1, <2>2
  <2> QED BY <2>2, <2>3 DEF Replying
<1>5. CASE UNCHANGED toClient /\ tx' = Idle
  <2>1. tx'.st = "idle" /\ ReplyNext' = n + 1
    BY <1>5, IdleType DEF ReplyNext
  <2>2. Coming(client.in, toClient, client.ex, n, n + 1)
    BY <1>1, <1>2, <1>3, ComingMore
  <2>3. Coming(client.in, toClient, client.ex, client.in.total, ReplyNext)'
    BY <1>5, <2>1, <2>2
  <2> QED BY <2>1, <2>3 DEF Replying
<1>6. CASE UNCHANGED toClient /\ tx' = tx
  <2>1. ReplyNext' = ReplyNext
    BY <1>6 DEF ReplyNext
  <2>2. Coming(client.in, toClient, client.ex, client.in.total, ReplyNext)'
    BY <1>6, <2>1 DEF Replying
  <2> QED BY <1>6, <2>2 DEF Replying
<1> QED BY <1>4, <1>5, <1>6

LEMMA BootSendsCfDelivers ==
  ASSUME Typed, Phase, BootSendsCf
  PROVE  Replying /\ Replying'
<1>1. Replying
  BY SendsIn DEF BootSendsCf
<1> QED BY <1>1, ReplySent DEF BootSendsCf, ClientUnchanged

(* TIMERS.  A reassembly or a transmission stays what it is, or ends.      *)
Calmer ==
  /\ UNCHANGED <<client, toNode, toClient, inbox>>
  /\ rx'.on => rx.on /\ rx'.total = rx.total /\ rx'.got = rx.got
  /\ tx'.st # "idle" => /\ tx'.st = tx.st /\ tx'.ex = tx.ex /\ tx'.size = tx.size
                        /\ tx'.next = tx.next
  /\ tx.st = "send" => tx'.st = "send"

LEMMA CalmerDelivers ==
  ASSUME Typed, Phase, Calmer
  PROVE  /\ Resting => Resting'
         /\ Lost => Lost'
         /\ Opened => Opened'
         /\ Cleared => Cleared'
         /\ Streaming => Streaming'
         /\ Handed => Handed'
         /\ Answered => Answered'
         /\ Granted => Granted'
         /\ Replying => Replying'
         /\ Phase'
<1>1. Resting => Resting'
  BY DEF Resting, Quiet, Calmer
<1>2. Lost => Lost'
  BY DEF Lost, Quiet, Calmer
<1>3. Opened => Opened'
  BY DEF Opened, Calmer
<1>4. ASSUME Cleared PROVE Cleared'
  <2>1. Coming(rx', << >>, client.ex, client.size, 1)
    BY <1>4, ComingKept DEF Cleared, Calmer
  <2> QED BY <1>4, <2>1 DEF Cleared, Calmer
<1>5. ASSUME Streaming PROVE Streaming'
  <2>1. Coming(rx', toNode, client.ex, client.size, client.next)
    BY <1>5, ComingKept DEF Streaming, Calmer
  <2> QED BY <1>5, <2>1 DEF Streaming, Calmer
<1>6. Handed => Handed'
  BY DEF Handed, Calmer
<1>7. Answered => Answered'
  BY DEF Answered, Holding, Calmer
<1>8. Granted => Granted'
  BY DEF Granted, Holding, Calmer
<1>9. ASSUME Replying PROVE Replying'
  <2>1. ReplyNext' = ReplyNext
    BY <1>9 DEF ReplyNext, Replying, Calmer
  <2>2. Coming(client.in, toClient, client.ex, client.in.total, ReplyNext)'
    BY <1>9, <2>1 DEF Replying, Calmer
  <2> QED BY <1>9, <2>2 DEF Replying, Calmer
<1> QED BY <1>1, <1>2, <1>3, <1>4, <1>5, <1>6, <1>7, <1>8, <1>9 DEF Phase

LEMMA BootTimersCalm ==
  ASSUME Typed, BootTimers
  PROVE  Calmer
BY NodeType, NothingType, IdleType DEF BootTimers, Calmer, ClientUnchanged

LEMMA DiagSamplesCalm ==
  ASSUME Typed, DiagSamples
  PROVE  Calmer
BY NodeType DEF DiagSamples, Calmer, ClientUnchanged

LEMMA SilenceCalm ==
  ASSUME Typed, Silence
  PROVE  Calmer
BY NodeType DEF Silence, Calmer, ClientUnchanged, Assemblies, Sendings

LEMMA DiagMainDelivers ==
  ASSUME Typed, Phase, DiagMain
  PROVE  /\ tx.st = "send" => Replying /\ Replying'
         /\ tx.st # "send" => Calmer
         /\ Phase'
<1>1. ASSUME tx.st = "send" PROVE Replying /\ Replying'
  <2>1. Replying
    BY <1>1, SendsIn
  <2>2. \/ toClient' = Append(toClient, NextCf) /\ tx' = Advanced
        \/ UNCHANGED toClient /\ tx' = tx
    BY <1>1 DEF DiagMain
  <2> QED BY <1>1, <2>1, <2>2, ReplySent DEF DiagMain, ClientUnchanged
<1>2. ASSUME tx.st # "send" PROVE Calmer
  <2>1. (tx' = Idle \/ tx' = tx) /\ UNCHANGED toClient /\ (rx' = Nothing \/ rx' = rx)
    BY <1>2 DEF DiagMain
  <2> QED BY <1>2, <2>1, NothingType, IdleType DEF DiagMain, Calmer, ClientUnchanged
<1> QED BY <1>1, <1>2, CalmerDelivers DEF Phase

LEMMA LoseFrameDelivers ==
  ASSUME Typed, Phase, LoseFrame
  PROVE  Phase'
<1>1. UNCHANGED <<client, rx, tx, inbox>>
  BY DEF LoseFrame, ClientUnchanged, NodeUnchanged
<1>2. \A S : \A x \in S : Without(<<x>>, 1) = << >>
  <2> SUFFICES ASSUME NEW S, NEW x \in S PROVE Without(<<x>>, 1) = << >>
    OBVIOUS
  <2>1. <<x>> \in Seq(S) /\ Len(<<x>>) = 1 /\ 1 \in DOMAIN <<x>>
    BY Singleton
  <2>2. Without(<<x>>, 1) \in Seq(S) /\ Len(Without(<<x>>, 1)) = 1 - 1
    BY <2>1, WithoutOne
  <2>3. Len(Without(<<x>>, 1)) = 0
    BY <2>2
  <2> QED BY <2>2, <2>3, EmptySeq
<1>3. \A f \in Frames : \A k \in DOMAIN <<f>> : Without(<<f>>, k) = << >>
  BY <1>2, Singleton
<1>4. DOMAIN << >> = {}
  OBVIOUS
<1>5. FC(CTS) \in Frames /\ \A n \in Sizes : Opening(client.ex, n) \in Frames
  BY FrameType, ClientType
<1>6. CASE Opened
  <2>1. toNode' = << >> /\ UNCHANGED toClient
    BY <1>3, <1>4, <1>5, <1>6, ClientType DEF LoseFrame, Opened
  <2> QED BY <1>1, <1>6, <2>1 DEF Opened, Lost, Quiet, Phase
<1>7. CASE Cleared
  <2>1. toClient' = << >> /\ UNCHANGED toNode
    BY <1>3, <1>4, <1>5, <1>7 DEF LoseFrame, Cleared
  <2> QED BY <1>1, <1>7, <2>1 DEF Cleared, Lost, Quiet, Phase
<1>8. CASE Answered
  <2>1. toClient' = << >> /\ UNCHANGED toNode
    BY <1>3, <1>4, <1>5, <1>8 DEF LoseFrame, Answered
  <2> QED BY <1>1, <1>8, <2>1 DEF Answered, Lost, Quiet, Phase
<1>9. CASE Granted
  <2>1. toNode' = << >> /\ UNCHANGED toClient
    BY <1>3, <1>4, <1>5, <1>9 DEF LoseFrame, Granted
  <2> QED BY <1>1, <1>9, <2>1 DEF Granted, Lost, Quiet, Phase
<1>10. CASE Streaming
  <2>1. PICK k \in DOMAIN toNode : toNode' = Without(toNode, k) /\ UNCHANGED toClient
    BY <1>4, <1>10 DEF LoseFrame, Streaming
  <2>2. Coming(rx, Without(toNode, k), client.ex, client.size, client.next)
    BY <1>10, ComingShorter DEF Streaming, Typed, Wire
  <2>3. Streaming'
    BY <1>1, <1>10, <2>1, <2>2 DEF Streaming
  <2> QED BY <2>3 DEF Phase
<1>11. CASE Replying
  <2>1. PICK k \in DOMAIN toClient : toClient' = Without(toClient, k) /\ UNCHANGED toNode
    BY <1>4, <1>11 DEF LoseFrame, Replying
  <2>2. Coming(client.in, Without(toClient, k), client.ex, client.in.total, ReplyNext)
    BY <1>11, ComingShorter DEF Replying, Typed, Wire
  <2>3. ReplyNext' = ReplyNext
    BY <1>1 DEF ReplyNext
  <2>4. Coming(client.in, toClient, client.ex, client.in.total, ReplyNext)'
    BY <1>1, <2>1, <2>2, <2>3
  <2>5. Replying'
    BY <1>1, <1>11, <2>1, <2>4 DEF Replying
  <2> QED BY <2>5 DEF Phase
<1>12. CASE Resting \/ Lost \/ Handed
  BY <1>4, <1>12 DEF LoseFrame, Resting, Lost, Handed, Quiet
<1> QED BY <1>6, <1>7, <1>8, <1>9, <1>10, <1>11, <1>12 DEF Phase

(* THE INVARIANT.                                                          *)
LEMMA NodeDelivers ==
  ASSUME Typed, Delivery, ~behind',
         Bootloader \/ Application \/ Silence \/ LoseFrame \/ UNCHANGED vars
  PROVE  ~behind /\ Phase /\ Phase' /\ Paired'
<1>1. ClientUnchanged
  BY DEF Bootloader, BootReceives, BootServes, BootWaitsCts, BootSendsCf, BootTimers, Application,
         AppReceives, DiagServes, DiagSamples, DiagMain, Silence, LoseFrame, vars, ClientUnchanged
<1>2. ~behind /\ Phase /\ Paired
  BY <1>1 DEF ClientUnchanged, Delivery
<1>3. Paired'
  BY <1>1, <1>2, PairedKept DEF ClientUnchanged
<1>4. ASSUME Bootloader PROVE Phase'
  <2>1. BootReceives => Phase'
    BY <1>2, BootReceivesDelivers
  <2>2. BootServes => Phase'
    BY <1>2, BootServesDelivers
  <2>3. BootWaitsCts => Phase'
    BY <1>2, BootWaitsCtsDelivers
  <2>4. BootSendsCf => Phase'
    BY <1>2, BootSendsCfDelivers DEF Phase
  <2>5. BootTimers => Phase'
    BY <1>2, BootTimersCalm, CalmerDelivers
  <2> QED BY <1>4, <2>1, <2>2, <2>3, <2>4, <2>5 DEF Bootloader
<1>5. ASSUME Application PROVE Phase'
  <2>1. AppReceives => Phase'
    BY <1>2, AppReceivesDelivers
  <2>2. DiagServes => Phase'
    BY <1>2, DiagServesDelivers
  <2>3. DiagSamples => Phase'
    BY <1>2, DiagSamplesCalm, CalmerDelivers
  <2>4. DiagMain => Phase'
    BY <1>2, DiagMainDelivers
  <2> QED BY <1>5, <2>1, <2>2, <2>3, <2>4 DEF Application
<1>6. ASSUME Silence PROVE Phase'
  <2>1. Calmer
    BY <1>6, SilenceCalm
  <2> QED BY <1>2, <2>1, CalmerDelivers
<1>7. ASSUME LoseFrame PROVE Phase'
  BY <1>2, <1>7, LoseFrameDelivers
<1>8. ASSUME UNCHANGED vars PROVE Phase'
  <2>1. Calmer
    BY <1>8 DEF vars, Calmer
  <2> QED BY <1>2, <2>1, CalmerDelivers
<1> QED BY <1>2, <1>3, <1>4, <1>5, <1>6, <1>7, <1>8

LEMMA NextDelivers == Typed /\ Delivery /\ [Next]_vars => Delivery'
<1> SUFFICES ASSUME Typed, Delivery, [Next]_vars, ~behind' PROVE Phase' /\ Paired'
  BY DEF Delivery
<1>1. ASSUME NEW size \in Sizes, Ask(size) PROVE Phase' /\ Paired'
  BY <1>1, AskOpens DEF Phase
<1>2. CASE SendCf
  <2>1. ~behind /\ Phase /\ Paired /\ UNCHANGED answer
    BY <1>2 DEF SendCf, Delivery
  <2> QED BY <1>2, <2>1, SendCfStreams, PairedKept DEF Phase
<1>3. CASE ClientReceives
  BY <1>3, ClientReceivesDelivers
<1>4. CASE ClientTimesOut
  BY <1>4, ClientTimesOutDelivers DEF Phase
<1>5. CASE Bootloader \/ Application \/ Silence \/ LoseFrame \/ UNCHANGED vars
  BY <1>5, NodeDelivers
<1> QED BY <1>1, <1>2, <1>3, <1>4, <1>5 DEF Next, Gateway

LEMMA InitDelivers == Init => Delivery
BY IdleType DEF Init, Delivery, Phase, Resting, Quiet, Paired

LEMMA DeliveryInvariant == Spec => []Delivery
BY TypedInvariant, InitDelivers, NextDelivers, PTL DEF Spec

LEMMA DeliversWhole == Typed /\ Delivery => DeliveredWhole
<1> SUFFICES ASSUME Typed, Delivery, ~behind
             PROVE  /\ \A k \in DOMAIN inbox : IsWhole(inbox[k].got)
                    /\ answer.ex # 0 => IsWhole(answer.got)
  BY DEF DeliveredWhole
<1>1. ASSUME client.ex # 0, NEW n \in Sizes PROVE IsWhole(Whole(client.ex, n))
  BY <1>1, ClientType DEF IsWhole
<1>2. ASSUME NEW k \in DOMAIN inbox PROVE IsWhole(inbox[k].got)
  <2>1. inbox # << >>
    OBVIOUS
  <2>2. Handed
    BY <2>1, ServesIn DEF Delivery
  <2> DEFINE m == [total |-> client.size, got |-> Whole(client.ex, client.size)]
  <2>3. inbox = <<m>> /\ m.got = Whole(client.ex, client.size) /\ client.pc = "answer"
    BY <2>2 DEF Handed
  <2> HIDE DEF m
  <2>4. k = 1 /\ inbox[k] = m
    BY <2>3
  <2>5. client.ex # 0
    BY <2>3, ClientType DEF Typed, Counted
  <2> QED BY <1>1, <2>3, <2>4, <2>5, ClientType
<1>3. ASSUME answer.ex # 0 PROVE IsWhole(answer.got)
  BY <1>1, <1>3 DEF Delivery, Paired
<1> QED BY <1>2, <1>3

LEMMA DeliversMatching == Typed /\ Delivery => AnswerMatches
<1> SUFFICES ASSUME Typed, Delivery, ~behind, answer.ex # 0 PROVE answer.got[1][1] = answer.ex
  BY DEF AnswerMatches
<1>1. PICK n \in Sizes : answer.got = Whole(client.ex, n) /\ answer.ex = client.ex
  BY DEF Delivery, Paired
<1> QED BY <1>1, WholeType, ClientType

(* Whatever frames are lost and however often a timer of either side runs  *)
(* out, a request CanTp.c or boot_isotp.c hands up and an answer isotp.py  *)
(* returns is a whole message as it was sent, for any length of message    *)
(* and any sequence number modulus above one, until the gateway gives up   *)
(* an exchange with frames still under way.                                *)
THEOREM WholeMessages == Spec => []DeliveredWhole
BY TypedInvariant, DeliveryInvariant, DeliversWhole, PTL

(* Until then every answer isotp.py returns is the one to its request.     *)
THEOREM MatchedAnswers == Spec => []AnswerMatches
BY TypedInvariant, DeliveryInvariant, DeliversMatching, PTL

-----------------------------------------------------------------------------
(* RECOVERY                                                                *)

(* No piece is missing between r, the frames of s and piece number next.   *)
Consecutive(r, s, next) ==
  /\ r.on /\ Unfinished(r) /\ next = Len(r.got) + Len(s)
  /\ \A k \in DOMAIN s : s[k].i = Len(r.got) + k - 1

Fresh == ~rx.due /\ ~rx.raced

(* The only transmission still running is one of an earlier exchange.      *)
OutOfTheWay == IF fails = 2 THEN tx.st = "idle" ELSE tx.st = "wait" => tx.old

Clear    == OutOfTheWay /\ (node = "boot" => tx.st = "idle")
Awaiting == tx.st = "wait" /\ ~tx.due /\ ~tx.old

(* Once an exchange has failed and no fault has come since: the message of *)
(* the next one is complete wherever it is, or lost to a transmission that *)
(* ended with it or will before the gateway's second is over; the message  *)
(* of a third exchange meets none.                                         *)
Smooth ==
  \/ Resting /\ (fails = 2 => tx.st = "idle")
  \/ Lost /\ fails = 1 /\ (tx.st = "idle" \/ (node = "app" /\ tx.old))
  \/ Opened /\ OutOfTheWay
  \/ Cleared /\ Clear /\ Fresh /\ Consecutive(rx, << >>, 1)
  \/ Streaming /\ Clear /\ Fresh /\ Consecutive(rx, toNode, client.next)
  \/ Handed /\ Clear
  \/ Answered /\ IF toClient[1].pci = "FF" THEN Awaiting ELSE tx.st = "idle"
  \/ Granted /\ Awaiting
  \/ Replying /\ Consecutive(client.in, toClient, ReplyNext)

Recovery == ~behind => fails <= 2 /\ (fails > 0 => Smooth)

LEMMA ConsecutiveBegun ==
  ASSUME NEW r, NEW f \in Frames, f.size > 0
  PROVE  Consecutive(Begun(r, f), << >>, 1)
<1>1. Len(Begun(r, f).got) = 1 /\ Begun(r, f).on
  <2>1. Begun(r, f).got = <<Piece(f)>> /\ Len(<<Piece(f)>>) = 1
    BY BegunType, PieceType, Singleton
  <2> QED BY <2>1, BegunType
<1>2. Unfinished(Begun(r, f))
  BY BegunUnfinished
<1> QED BY <1>1, <1>2 DEF Consecutive

LEMMA ConsecutiveAppend ==
  ASSUME NEW s \in Seq(Frames), NEW r \in Assemblies, NEW ex \in 0 .. MaxExchanges,
         NEW size \in Sizes, NEW next \in Nat, Consecutive(r, s, next)
  PROVE  Consecutive(r, Append(s, CF(ex, size, next)), next + 1)
<1> DEFINE f == CF(ex, size, next)
           t == Append(s, f)
<1>1. f \in Frames /\ f.i = next
  BY FrameType, CfIs
<1> HIDE DEF f
<1>2. /\ t \in Seq(Frames) /\ Len(t) = Len(s) + 1 /\ Len(s) \in Nat
      /\ \A j \in 1 .. Len(s) : t[j] = s[j]
      /\ t[Len(s) + 1] = f
  BY <1>1, AppendOne
<1>3. DOMAIN t = 1 .. Len(s) + 1 /\ DOMAIN s = 1 .. Len(s)
  BY <1>2, LenProperties
<1> HIDE DEF t
<1>4. Len(r.got) \in Nat
  BY LenProperties DEF Assemblies
<1>5. ASSUME NEW k \in DOMAIN t PROVE t[k].i = Len(r.got) + k - 1
  <2>1. CASE k = Len(s) + 1
    BY <1>1, <1>2, <1>4, <2>1 DEF Consecutive
  <2>2. CASE k # Len(s) + 1
    <3>1. k \in DOMAIN s /\ t[k] = s[k]
      BY <1>2, <1>3, <2>2
    <3> QED BY <3>1 DEF Consecutive
  <2> QED BY <2>1, <2>2
<1>6. next + 1 = Len(r.got) + Len(t)
  <2>1. next = Len(r.got) + Len(s)
    BY DEF Consecutive
  <2>2. Len(t) = Len(s) + 1 /\ Len(s) \in Nat
    BY <1>2
  <2>3. \A a, b \in Nat : (a + b) + 1 = a + (b + 1)
    OBVIOUS
  <2> QED BY <1>4, <2>1, <2>2, <2>3
<1>7. Consecutive(r, t, next + 1)
  BY <1>5, <1>6 DEF Consecutive
<1> QED BY <1>7 DEF t, f

LEMMA ConsecutiveTaken ==
  ASSUME NEW s \in Seq(Frames), s # << >>, NEW r \in Assemblies, NEW next \in Nat,
         Consecutive(r, s, next)
  PROVE  /\ InSequence(r, Head(s))
         /\ ~Complete(Extended(r, Head(s))) => Consecutive(Extended(r, Head(s)), Tail(s), next)
<1> DEFINE f == Head(s)
           q == Extended(r, f)
<1>1. /\ f \in Frames /\ f = s[1] /\ 1 \in DOMAIN s
      /\ \A j \in 1 .. Len(s) - 1 : Tail(s)[j] = s[j + 1] /\ j + 1 \in DOMAIN s
      /\ Tail(s) \in Seq(Frames) /\ Len(Tail(s)) = Len(s) - 1 /\ Len(s) \in Nat
  BY TailOne
<1>2. DOMAIN Tail(s) = 1 .. Len(s) - 1
  BY <1>1, LenProperties
<1> HIDE DEF f
<1>3. Len(r.got) \in Nat
  BY LenProperties DEF Assemblies
<1>4. f.i = Len(r.got)
  BY <1>1, <1>3 DEF Consecutive
<1>5. InSequence(r, f)
  BY <1>4 DEF InSequence
<1>6. q.on = r.on /\ Len(q.got) = Len(r.got) + 1
  BY <1>1, ExtendedType
<1>7. ASSUME ~Complete(q) PROVE Unfinished(q)
  BY <1>1, <1>7, ExtendedUnfinished DEF Consecutive
<1> HIDE DEF q
<1>8. ASSUME NEW k \in DOMAIN Tail(s) PROVE Tail(s)[k].i = Len(q.got) + k - 1
  <2>1. Tail(s)[k] = s[k + 1] /\ k + 1 \in DOMAIN s /\ k \in Nat
    BY <1>1, <1>2
  <2>2. s[k + 1].i = Len(r.got) + (k + 1) - 1
    BY <2>1 DEF Consecutive
  <2> QED BY <1>3, <1>6, <2>1, <2>2
<1>9. next = Len(q.got) + Len(Tail(s))
  BY <1>1, <1>3, <1>6 DEF Consecutive
<1> QED BY <1>5, <1>6, <1>7, <1>8, <1>9 DEF Consecutive, q, f

(* As long as a piece is missing there is a frame on its way.              *)
LEMMA ConsecutiveGoesOn ==
  ASSUME NEW r \in Assemblies, Consecutive(r, << >>, r.total + 1)
  PROVE  FALSE
<1>1. Len(r.got) \in 1 .. r.total /\ r.total + 1 = Len(r.got) + 0
  BY EmptySeq DEF Consecutive, Unfinished
<1>2. r.total \in Sizes
  BY DEF Assemblies
<1>3. r.total \in Nat
  BY <1>2, Parameters
<1> QED BY <1>1, <1>3

(* An exchange that fails with nothing left behind stood still.            *)
LEMMA SmoothStill ==
  ASSUME Typed, Smooth, Quiet, client.pc \in {"fc", "answer", "cfs"}
  PROVE  Lost /\ fails = 1 /\ (tx.st = "idle" \/ (node = "app" /\ tx.old))
<1>1. ~(Streaming /\ Consecutive(rx, toNode, client.next))
  <2> SUFFICES ASSUME Streaming, Consecutive(rx, toNode, client.next) PROVE FALSE
    OBVIOUS
  <2>1. toNode = << >> /\ rx.on
    BY DEF Quiet, Consecutive
  <2>2. client.next = rx.total + 1
    BY <2>1 DEF Streaming, Coming
  <2> QED BY <2>1, <2>2, ConsecutiveGoesOn, NodeType
<1>2. ~(Replying /\ Consecutive(client.in, toClient, ReplyNext))
  <2> SUFFICES ASSUME Replying, Consecutive(client.in, toClient, ReplyNext) PROVE FALSE
    OBVIOUS
  <2>1. toClient = << >> /\ ReplyNext = client.in.total + 1
    BY DEF Quiet, ReplyNext
  <2> QED BY <2>1, ConsecutiveGoesOn, ClientType
<1> QED
  BY <1>1, <1>2 DEF Smooth, Quiet, Resting, Opened, Cleared, Handed, Answered, Granted

LEMMA SmoothPhase == Smooth => Phase
BY DEF Smooth, Phase

LEMMA FaultResets ==
  ASSUME Typed, fails > 0, fails' = fails
  PROVE  ~Cost(1) /\ \A n \in {0, 1} : Cost(n) => n = 0
<1>1. fails # 0
  BY DEF Typed, Counted
<1> QED BY <1>1 DEF Cost

LEMMA AskSmooth ==
  ASSUME Typed, ~behind, Smooth, NEW size \in Sizes, Ask(size), Opened', fails' = fails
  PROVE  Smooth'
<1>1. Resting /\ (fails = 2 => tx.st = "idle")
  BY DEF Ask, Smooth, Resting, Lost, Opened, Cleared, Streaming, Handed, Answered, Granted,
         Replying
<1>2. tx'.st = tx.st /\ tx'.old = (tx.st # "idle")
  BY NodeType DEF Ask, Sendings
<1>3. OutOfTheWay'
  BY <1>1, <1>2 DEF OutOfTheWay
<1> QED BY <1>3 DEF Smooth

LEMMA SendCfSmooth ==
  ASSUME Typed, Smooth, SendCf
  PROVE  Smooth'
<1>1. Phase
  BY SmoothPhase
<1>2. Streaming /\ Streaming' /\ client'.next = client.next + 1
  BY <1>1, SendCfStreams
<1>3. Clear /\ Fresh /\ Consecutive(rx, toNode, client.next)
  BY <1>2 DEF SendCf, Smooth, Resting, Lost, Opened, Cleared, Handed, Answered, Granted, Replying
<1>4. Consecutive(rx, Append(toNode, CF(client.ex, client.size, client.next)), client.next + 1)
  BY <1>3, ConsecutiveAppend, ClientType, NodeType DEF Typed, Wire
<1>5. Consecutive(rx, toNode, client.next)'
  BY <1>2, <1>4 DEF SendCf, NodeUnchanged
<1>6. (Clear /\ Fresh)'
  BY <1>3 DEF SendCf, NodeUnchanged, Free, Clear, OutOfTheWay, Fresh
<1> QED BY <1>2, <1>5, <1>6 DEF Smooth

LEMMA ClientReceivesSmooth ==
  ASSUME Typed, Smooth, ClientReceives
  PROVE  Smooth' /\ fails' = fails
<1>1. NodeUnchanged
  BY DEF ClientReceives
<1>2. \/ Cleared /\ Clear /\ Fresh /\ Consecutive(rx, << >>, 1)
      \/ Answered /\ IF toClient[1].pci = "FF" THEN Awaiting ELSE tx.st = "idle"
      \/ Replying /\ Consecutive(client.in, toClient, ReplyNext)
  BY DEF ClientReceives, Smooth, Resting, Lost, Quiet, Opened, Streaming, Handed, Granted
<1>3. CASE Cleared /\ Clear /\ Fresh /\ Consecutive(rx, << >>, 1)
  <2>1. /\ Streaming' /\ UNCHANGED <<toNode, rx, tx, fails>> /\ toNode = << >>
        /\ client' = [client EXCEPT !.pc = "send"]
    BY <1>3, ClientClears
  <2>2. client'.next = 1
    BY <1>3, <2>1 DEF Cleared, Typed, Above, Clients
  <2>3. Consecutive(rx, toNode, client.next)'
    BY <1>3, <2>1, <2>2
  <2>4. (Clear /\ Fresh)'
    BY <1>1, <1>3, <2>1 DEF Clear, Fresh, OutOfTheWay, NodeUnchanged
  <2> QED BY <2>1, <2>3, <2>4 DEF Smooth
<1>4. CASE Answered /\ IF toClient[1].pci = "FF" THEN Awaiting ELSE tx.st = "idle"
  <2>1. /\ UNCHANGED <<tx, fails>>
        /\ toClient[1].pci = "FF" => Granted'
        /\ toClient[1].pci # "FF" => Resting'
    BY <1>4, ClientAnswered
  <2> QED BY <1>4, <2>1 DEF Smooth, Awaiting
<1>5. CASE Replying /\ Consecutive(client.in, toClient, ReplyNext)
  <2> DEFINE f == Head(toClient)
             grown == Extended(client.in, f)
  <2>1. /\ InSequence(client.in, f)
        /\ ~Complete(grown) => Consecutive(grown, Tail(toClient), ReplyNext)
    BY <1>5, ConsecutiveTaken, ClientType, ReplyNextType DEF ClientReceives, Typed, Wire
  <2>2. /\ toClient' = Tail(toClient)
        /\ \/ Complete(grown) /\ Resting' /\ tx.st = "idle" /\ UNCHANGED fails
           \/ ~Complete(grown) /\ Replying' /\ client'.in = grown /\ UNCHANGED fails
    BY <1>5, <2>1, ClientTakesPiece
  <2>3. f \in Frames
    BY TailOne DEF ClientReceives, Typed, Wire
  <2>4. grown.total = client.in.total
    BY <2>3, ExtendedType, ClientType
  <2> HIDE DEF f, grown
  <2>5. CASE Complete(grown)
    BY <1>1, <2>2, <2>5 DEF Smooth, NodeUnchanged
  <2>6. CASE ~Complete(grown)
    <3>1. ReplyNext' = ReplyNext
      BY <1>1, <2>2, <2>4, <2>6 DEF ReplyNext, NodeUnchanged
    <3>2. Consecutive(client.in, toClient, ReplyNext)'
      BY <2>1, <2>2, <2>6, <3>1
    <3> QED BY <2>2, <2>6, <3>2 DEF Smooth
  <2> QED BY <2>5, <2>6
<1> QED BY <1>2, <1>3, <1>4, <1>5

(* The second exchange in a row that fails leaves no transmission behind.  *)
LEMMA ClientTimesOutSmooth ==
  ASSUME Typed, ~behind, fails <= 2, fails > 0 => Smooth, ClientTimesOut, ~behind'
  PROVE  fails' <= 2 /\ Smooth'
<1>1. PICK n \in {0, 1} : Raised(n) /\ (n = 1 => ~NodeQuiet)
  BY DEF ClientTimesOut
<1>2. Resting' /\ Quiet
  BY <1>1, RaisedRests DEF ClientTimesOut, NodeUnchanged, Raised, NodeQuiet, Quiet
<1>3. n = 0 /\ fails' = fails + 1
  BY <1>1, <1>2 DEF Raised, NodeQuiet, Quiet
<1>4. fails \in Nat
  BY DEF Typed, Counted
<1>5. CASE fails = 0
  BY <1>2, <1>3, <1>5 DEF Smooth
<1>6. CASE fails # 0
  <2>1. fails = 1 /\ (tx.st = "idle" \/ (node = "app" /\ tx.old))
    BY <1>2, <1>4, <1>6, SmoothStill DEF ClientTimesOut
  <2>2. tx.st = "idle"
    BY <1>2, <2>1, NodeType DEF ClientTimesOut, Quiet
  <2>3. tx'.st = "idle" /\ fails' = 2
    BY <1>3, <2>1, <2>2 DEF ClientTimesOut, NodeUnchanged
  <2> QED BY <1>2, <2>3 DEF Smooth
<1> QED BY <1>5, <1>6

LEMMA ClientRaises ==
  ASSUME Typed, ~behind, fails = 0, ClientReceives, ~behind'
  PROVE  fails' <= 2 /\ (fails' > 0 => Smooth')
<1>1. CASE Raised(0)
  <2>1. fails' = 1
    BY <1>1 DEF Raised
  <2>2. Tail(toClient) = toClient' /\ NodeUnchanged
    BY DEF ClientReceives
  <2>3. client'.pc = "idle" /\ NodeQuiet /\ toClient' = << >>
    BY <1>1 DEF Raised, Typed, Above, Clients
  <2>4. CASE UNCHANGED toNode
    <3>1. Resting'
      BY <2>2, <2>3, <2>4 DEF Resting, Quiet, NodeQuiet, NodeUnchanged
    <3> QED BY <2>1, <3>1 DEF Smooth
  <2>5. CASE client.pc = "answer" /\ Head(toClient).pci = "FF"
    <3>1. client' = [client EXCEPT !.pc = "cfs", !.in = Begun(client.in, Head(toClient))]
      BY <2>5 DEF ClientReceives
    <3> QED BY <2>3, <3>1 DEF Typed, Above, Clients
  <2> QED BY <2>4, <2>5 DEF ClientReceives
<1>2. CASE UNCHANGED fails
  BY <1>2
<1> QED BY <1>1, <1>2 DEF ClientReceives, Free

LEMMA CalmerSmooth ==
  ASSUME Typed, Smooth, Calmer, fails' = fails, UNCHANGED node,
         tx'.old = tx.old \/ tx'.st = "idle",
         Clear /\ Fresh /\ rx.on /\ (Cleared \/ Streaming) => UNCHANGED rx,
         Awaiting => UNCHANGED tx
  PROVE  Smooth'
<1>1. Phase
  BY SmoothPhase
<1>2. tx'.st # "idle" => tx'.st = tx.st /\ tx'.old = tx.old
  BY DEF Calmer
<1>3. OutOfTheWay => OutOfTheWay'
  BY <1>2, NodeType DEF OutOfTheWay
<1>4. Clear => Clear'
  BY <1>2, <1>3 DEF Clear
<1>5. CASE Resting /\ (fails = 2 => tx.st = "idle")
  BY <1>1, <1>2, <1>5, CalmerDelivers DEF Smooth
<1>6. CASE Lost /\ fails = 1 /\ (tx.st = "idle" \/ (node = "app" /\ tx.old))
  BY <1>1, <1>2, <1>6, CalmerDelivers DEF Smooth
<1>7. CASE Opened /\ OutOfTheWay
  BY <1>1, <1>3, <1>7, CalmerDelivers DEF Smooth
<1>8. CASE Cleared /\ Clear /\ Fresh /\ Consecutive(rx, << >>, 1)
  <2>1. Cleared' /\ UNCHANGED rx
    BY <1>1, <1>8, CalmerDelivers DEF Consecutive
  <2>2. Fresh' /\ Consecutive(rx', << >>, 1)
    BY <1>8, <2>1 DEF Fresh
  <2> QED BY <1>4, <1>8, <2>1, <2>2 DEF Smooth
<1>9. CASE Streaming /\ Clear /\ Fresh /\ Consecutive(rx, toNode, client.next)
  <2>1. Streaming' /\ UNCHANGED rx
    BY <1>1, <1>9, CalmerDelivers DEF Consecutive
  <2>2. Fresh' /\ Consecutive(rx', toNode', client'.next)
    BY <1>9, <2>1 DEF Fresh, Calmer
  <2> QED BY <1>4, <1>9, <2>1, <2>2 DEF Smooth
<1>10. CASE Handed /\ Clear
  BY <1>1, <1>4, <1>10, CalmerDelivers DEF Smooth
<1>11. CASE Answered /\ IF toClient[1].pci = "FF" THEN Awaiting ELSE tx.st = "idle"
  <2>1. toClient' = toClient
    BY DEF Calmer
  <2> QED BY <1>1, <1>2, <1>11, <2>1, CalmerDelivers DEF Smooth, Awaiting
<1>12. CASE Granted /\ Awaiting
  BY <1>1, <1>12, CalmerDelivers DEF Smooth, Awaiting
<1>13. CASE Replying /\ Consecutive(client.in, toClient, ReplyNext)
  <2>1. Replying' /\ ReplyNext' = ReplyNext
    BY <1>1, <1>13, CalmerDelivers DEF Calmer, ReplyNext, Replying
  <2>2. Consecutive(client.in, toClient, ReplyNext)'
    BY <1>13, <2>1 DEF Calmer
  <2> QED BY <2>1, <2>2 DEF Smooth
<1> QED
  BY <1>5, <1>6, <1>7, <1>8, <1>9, <1>10, <1>11, <1>12, <1>13 DEF Smooth

(* A timer that is due, or comes due at no cost, is not one of the message *)
(* under way.                                                              *)
LEMMA BootTimersSmooth ==
  ASSUME Typed, Smooth, BootTimers
  PROVE  Smooth'
<1>1. Calmer /\ fails' = fails /\ UNCHANGED node
  BY BootTimersCalm DEF BootTimers, Free
<1>2. tx'.old = tx.old \/ tx'.st = "idle"
  BY IdleType DEF BootTimers
<1>3. Fresh => UNCHANGED rx
  BY DEF BootTimers, Fresh
<1>4. Awaiting => UNCHANGED tx
  BY DEF BootTimers, Awaiting
<1> QED BY <1>1, <1>2, <1>3, <1>4, CalmerSmooth

LEMMA DiagSamplesSmooth ==
  ASSUME Typed, Smooth, DiagSamples
  PROVE  Smooth'
<1>1. Calmer /\ fails' = fails /\ UNCHANGED <<node, rx, tx>>
  BY DiagSamplesCalm DEF DiagSamples, Free
<1> QED BY <1>1, CalmerSmooth

LEMMA SilenceSmooth ==
  ASSUME Typed, Smooth, Silence, fails > 0, fails' = fails
  PROVE  Smooth'
<1>1. Calmer /\ UNCHANGED node
  BY SilenceCalm DEF Silence
<1>2. toNode = << >> /\ ~ClientActive
  BY FaultResets DEF Silence
<1>3. tx'.old = tx.old
  BY NodeType DEF Silence, Sendings
<1>4. ~Cleared
  BY <1>2 DEF Cleared, ClientActive
<1>5. ~(Streaming /\ Consecutive(rx, toNode, client.next))
  <2> SUFFICES ASSUME Streaming, Consecutive(rx, toNode, client.next) PROVE FALSE
    OBVIOUS
  <2>1. client.pc = "answer" /\ client.next = client.size + 1 /\ rx.on /\ toNode = << >>
    BY <1>2 DEF Streaming, ClientActive, Consecutive
  <2>2. client.next = rx.total + 1
    BY <2>1 DEF Streaming, Coming
  <2> QED BY <2>1, <2>2, ConsecutiveGoesOn, NodeType
<1>6. ~Answered /\ ~Granted
  <2>1. ASSUME Answered PROVE FALSE
    BY <1>2, <2>1, OpeningAlone, ClientType DEF Answered, ClientActive
  <2>2. ASSUME Granted PROVE FALSE
    BY <1>2, <2>2, ClearAlone DEF Granted
  <2> QED BY <2>1, <2>2
<1>7. Phase
  BY SmoothPhase
<1>8. tx'.st # "idle" => tx'.st = tx.st
  BY <1>1 DEF Calmer
<1>9. (OutOfTheWay => OutOfTheWay') /\ (Clear => Clear')
  BY <1>1, <1>3, <1>8, NodeType DEF OutOfTheWay, Clear
<1>10. tx.st = "idle" => tx'.st = "idle"
  BY <1>8
<1>11. CASE Resting /\ (fails = 2 => tx.st = "idle")
  BY <1>1, <1>7, <1>10, <1>11, CalmerDelivers DEF Smooth
<1>12. CASE Lost /\ fails = 1 /\ (tx.st = "idle" \/ (node = "app" /\ tx.old))
  BY <1>1, <1>3, <1>7, <1>10, <1>12, CalmerDelivers DEF Smooth
<1>13. CASE Opened /\ OutOfTheWay
  BY <1>1, <1>7, <1>9, <1>13, CalmerDelivers DEF Smooth
<1>14. CASE Handed /\ Clear
  BY <1>1, <1>7, <1>9, <1>14, CalmerDelivers DEF Smooth
<1>15. CASE Replying /\ Consecutive(client.in, toClient, ReplyNext)
  <2>1. Replying' /\ ReplyNext' = ReplyNext
    BY <1>1, <1>7, <1>15, CalmerDelivers DEF Calmer, ReplyNext, Replying
  <2>2. Consecutive(client.in, toClient, ReplyNext)'
    BY <1>1, <1>15, <2>1 DEF Calmer
  <2> QED BY <2>1, <2>2 DEF Smooth
<1> QED
  BY <1>4, <1>5, <1>6, <1>11, <1>12, <1>13, <1>14, <1>15 DEF Smooth

(* WHAT A NODE TAKES.                                                      *)
LEMMA SmoothTakes ==
  ASSUME Smooth, toNode # << >>
  PROVE  \/ Opened /\ OutOfTheWay
         \/ Streaming /\ Clear /\ Fresh /\ Consecutive(rx, toNode, client.next)
         \/ Granted /\ Awaiting
BY DEF Smooth, Resting, Lost, Quiet, Cleared, Handed, Answered, Replying

LEMMA SendSmooth ==
  ASSUME Typed, Granted, Awaiting, Replying', client' = client, tx'.st = "send",
         tx'.next = tx.next, toClient' = toClient
  PROVE  Smooth'
<1>1. ReplyNext' = 1
  BY DEF ReplyNext, Granted, Holding, Awaiting
<1>2. client.in \in Assemblies /\ client.in.on /\ client.in.total > 0
  BY ClientType DEF Granted
<1>3. Rising(client.in.got, client.ex, client.in.total) /\ Final(client.in.got) < 1
  BY <1>2 DEF Granted, Coming
<1>4. Len(client.in.got) = 1
  <2>1. client.in.got \in Seq(Pieces) /\ client.in.got # << >>
    BY <1>2, <1>3 DEF Assemblies, Rising
  <2>2. /\ 1 \in DOMAIN client.in.got /\ Len(client.in.got) \in Nat \ {0}
        /\ Final(client.in.got) \in Nat
    BY <2>1, FinalType
  <2>3. client.in.got[1][3] + (Len(client.in.got) - 1) <= Final(client.in.got)
    BY <1>3, <2>1, <2>2, RisingApart
  <2>4. client.in.got[1][3] = 0
    BY <1>3 DEF Rising
  <2>5. \A n \in Nat \ {0} : \A m \in Nat : 0 + (n - 1) <= m /\ m < 1 => n = 1
    OBVIOUS
  <2> QED BY <1>3, <2>2, <2>3, <2>4, <2>5
<1>5. client.in.total \in Nat
  <2>1. client.in.total \in Sizes
    BY <1>2 DEF Assemblies
  <2> QED BY <2>1, Parameters
<1>6. Consecutive(client.in, << >>, 1)
  <2>1. Unfinished(client.in)
    BY <1>2, <1>4, <1>5 DEF Unfinished
  <2>2. 1 = Len(client.in.got) + Len(<< >>)
    BY <1>4
  <2> QED BY <1>2, <2>1, <2>2 DEF Consecutive
<1>7. Consecutive(client.in, toClient, ReplyNext)'
  BY <1>1, <1>6 DEF Granted
<1> QED BY <1>7 DEF Smooth

LEMMA ClearKept ==
  ASSUME Clear, UNCHANGED <<node, tx, fails>>
  PROVE  Clear'
BY DEF Clear, OutOfTheWay

(* The next piece, or the last one, of a message that is complete so far.  *)
LEMMA StreamSmooth ==
  ASSUME Typed, Streaming, Clear, Consecutive(rx, toNode, client.next), TakesNext,
         UNCHANGED <<node, tx, toClient, fails>>,
         \/ /\ Complete(Extended(rx, Head(toNode)))
            /\ inbox' = <<[total |-> rx.total, got |-> Extended(rx, Head(toNode)).got]>>
         \/ /\ ~Complete(Extended(rx, Head(toNode)))
            /\ rx' = Extended(rx, Head(toNode)) /\ UNCHANGED inbox
  PROVE  Smooth'
<1> DEFINE q == Extended(rx, Head(toNode))
<1>1. toNode \in Seq(Frames) /\ toNode # << >> /\ Head(toNode) \in Frames
  BY TailOne DEF Typed, Wire, TakesNext
<1>2. /\ rx.on /\ q.total = rx.total /\ ~q.due /\ ~q.raced
      /\ ~Complete(q) => Consecutive(q, Tail(toNode), client.next)
  BY <1>1, ConsecutiveTaken, ExtendedType, NodeType, ClientType DEF Consecutive
<1> HIDE DEF q
<1>3. Clear'
  BY ClearKept
<1>4. CASE Complete(q) /\ inbox' = <<[total |-> rx.total, got |-> q.got]>>
  <2>1. Handed'
    BY <1>2, <1>4, LastTaken DEF q
  <2> QED BY <1>3, <2>1 DEF Smooth
<1>5. CASE ~Complete(q) /\ rx' = q /\ UNCHANGED inbox
  <2>1. Streaming'
    BY <1>2, <1>5, PieceTaken DEF q, Streaming
  <2>2. Consecutive(rx, toNode, client.next)' /\ Fresh'
    BY <1>2, <1>5 DEF TakesNext, Fresh
  <2> QED BY <1>3, <2>1, <2>2 DEF Smooth
<1> QED BY <1>4, <1>5 DEF q

(* The first frame of a long message starts it afresh.                     *)
LEMMA ClearedSmooth ==
  ASSUME Typed, Opened, Cleared', client.size # 0, Clear', toNode # << >>, UNCHANGED client,
         rx' = Begun(rx, Head(toNode))
  PROVE  Smooth'
<1>1. Head(toNode) \in Frames
  BY TailOne DEF Typed, Wire
<1>2. Head(toNode).size > 0
  <2>1. Head(toNode) = Opening(client.ex, client.size)
    BY OpeningAlone, ClientType DEF Opened
  <2> QED BY <2>1, ClientType, Parameters DEF Opening, Frame
<1>3. Consecutive(rx, << >>, 1)' /\ Fresh'
  BY <1>1, <1>2, ConsecutiveBegun, BegunType DEF Fresh
<1> QED BY <1>3 DEF Smooth

LEMMA BootReceivesSmooth ==
  ASSUME Typed, Smooth, BootReceives, fails > 0
  PROVE  Smooth'
<1> DEFINE f == Head(toNode)
           grown == Extended(rx, f)
<1>1. /\ toNode # << >> /\ inbox = << >> /\ tx.st = "idle" /\ UNCHANGED <<node, tx, fails>>
      /\ ClientUnchanged
  BY DEF BootReceives, Free
<1>2. Phase
  BY SmoothPhase
<1>3. Clear /\ Clear'
  <2>1. Clear
    BY <1>1 DEF Clear, OutOfTheWay
  <2> QED BY <1>1, <2>1, ClearKept
<1> HIDE DEF f, grown
<1>4. CASE Opened
  <2>1. IF client.size = 0 THEN Handed' ELSE Cleared' /\ rx' = Begun(rx, Head(toNode))
    BY <1>2, <1>4, BootReceivesDelivers
  <2>2. CASE client.size = 0
    BY <1>3, <2>1, <2>2 DEF Smooth
  <2>3. CASE client.size # 0
    BY <1>1, <1>3, <1>4, <2>1, <2>3, ClearedSmooth DEF ClientUnchanged
  <2> QED BY <2>2, <2>3
<1>5. CASE Streaming /\ Consecutive(rx, toNode, client.next)
  <2>1. f.pci = "CF"
    BY <1>1, <1>5, StreamedPiece DEF f
  <2>2. rx.on /\ InSequence(rx, f)
    BY <1>1, <1>5, ConsecutiveTaken, NodeType, ClientType DEF Consecutive, Typed, Wire, f
  <2>3. /\ Took(<< >>)
        /\ \/ /\ Complete(grown)
              /\ inbox' = <<[total |-> rx.total, got |-> grown.got]>>
           \/ ~Complete(grown) /\ rx' = grown /\ UNCHANGED inbox
    BY <2>1, <2>2 DEF BootReceives, f, grown
  <2>4. TakesNext /\ UNCHANGED toClient
    BY <1>1, <2>3, TookOnly
  <2> QED BY <1>1, <1>3, <1>5, <2>3, <2>4, StreamSmooth DEF f, grown
<1>6. CASE Granted /\ Awaiting
  BY <1>1, <1>6 DEF Awaiting
<1> QED BY <1>1, <1>4, <1>5, <1>6, SmoothTakes

(* A request that the bootloader takes for flow control is the first to    *)
(* fail, and ends the transmission that waited.                            *)
LEMMA BootWaitsCtsSmooth ==
  ASSUME Typed, Smooth, BootWaitsCts, fails <= 2, fails > 0
  PROVE  Smooth'
<1>1. /\ toNode # << >> /\ node = "boot" /\ tx.st = "wait" /\ UNCHANGED <<node, fails>>
      /\ tx' = AfterFrame(Head(toNode)) /\ TakesNext /\ UNCHANGED toClient
  BY TookOnly DEF BootWaitsCts, Free
<1>2. Phase
  BY SmoothPhase
<1>3. CASE Opened /\ OutOfTheWay
  <2>1. Lost' /\ tx' = Idle
    BY <1>2, <1>3, BootWaitsCtsDelivers
  <2>2. fails = 1
    BY <1>1, <1>3 DEF OutOfTheWay, Typed, Counted
  <2> QED BY <1>1, <2>1, <2>2, IdleType DEF Smooth
<1>4. CASE Streaming /\ Clear
  BY <1>1, <1>4 DEF Clear
<1>5. CASE Granted /\ Awaiting
  <2>1. tx' = [tx EXCEPT !.st = "send"]
    BY <1>1, <1>5, GrantedHead DEF AfterFrame
  <2>2. tx'.st = "send" /\ tx'.next = tx.next
    BY <2>1, NodeType DEF Sendings
  <2>3. Replying'
    BY <1>2, <1>5, BootWaitsCtsDelivers
  <2> QED BY <1>1, <1>5, <2>2, <2>3, SendSmooth DEF TakesNext
<1> QED BY <1>1, <1>3, <1>4, <1>5, SmoothTakes

LEMMA StampedOnTime ==
  ASSUME NEW r \in Assemblies, ~r.raced
  PROVE  Stamped(r, 0) = r
BY DEF Stamped, Assemblies

LEMMA AppReceivesSmooth ==
  ASSUME Typed, Smooth, AppReceives, fails > 0, fails' = fails
  PROVE  Smooth'
<1> DEFINE f == Head(toNode)
           grown == Extended(rx, f)
<1>1. /\ toNode # << >> /\ UNCHANGED <<node, diag, fails>> /\ ClientUnchanged /\ f \in Frames
      /\ node = "app"
      /\ (AppReceivesSingle(f) \/ AppReceivesFirst(f)
            \/ AppReceivesConsecutive(f) \/ AppReceivesFlowControl(f))
  BY NodeHears DEF AppReceives
<1>2. \A pdu : inbox = << >> => Queued(pdu) = <<pdu>>
  BY Parameters DEF Queued
<1>3. ~Cost(1) /\ \A race \in Raced : Cost(race) => race = 0
  BY FaultResets, RacedType
<1>4. Phase
  BY SmoothPhase
<1> HIDE DEF f, grown
<1>5. CASE Opened /\ OutOfTheWay
  <2>1. inbox = << >> /\ tx.st # "send" /\ f.pci = IF client.size = 0 THEN "SF" ELSE "FF"
    BY <1>5, OpenedHead DEF f, Opened
  <2>2. UNCHANGED tx
    BY <1>1, <2>1 DEF AppReceivesSingle, AppReceivesFirst, AppReceivesConsecutive,
                      AppReceivesFlowControl
  <2>3. Clear'
    BY <1>1, <1>5, <2>2, ClearKept DEF Clear
  <2>4. CASE client.size = 0
    <3>1. Handed'
      BY <1>4, <1>5, <2>4, AppReceivesDelivers
    <3> QED BY <2>3, <3>1 DEF Smooth
  <2>5. CASE client.size # 0
    <3>1. Len(inbox) # QueueDepth
      BY <2>1, Parameters
    <3>2. UNCHANGED inbox /\ Took(<<FC(CTS)>>) /\ rx' = Stamped(Begun(rx, f), 0)
      BY <1>1, <1>3, <2>1, <2>5, <3>1
         DEF AppReceivesSingle, AppReceivesFirst, AppReceivesConsecutive, AppReceivesFlowControl
    <3>3. rx' = Begun(rx, f)
      BY <1>1, <3>2, BegunType, StampedOnTime
    <3>4. Cleared'
      BY <1>1, <1>5, <2>2, <2>5, <3>2, <3>3, TookOnly, FirstTaken DEF f
    <3> QED BY <1>1, <1>5, <2>3, <2>5, <3>3, <3>4, ClearedSmooth DEF f, ClientUnchanged
  <2> QED BY <2>4, <2>5
<1>6. CASE Streaming /\ Clear /\ Consecutive(rx, toNode, client.next)
  <2>1. f.pci = "CF" /\ inbox = << >>
    BY <1>1, <1>6, StreamedPiece DEF f, Streaming
  <2>2. rx.on /\ InSequence(rx, f)
    BY <1>1, <1>6, ConsecutiveTaken, NodeType, ClientType DEF Consecutive, Typed, Wire, f
  <2>3. /\ Took(<< >>) /\ UNCHANGED tx
        /\ \/ /\ Complete(grown)
              /\ inbox' = <<[total |-> rx.total, got |-> grown.got]>>
           \/ ~Complete(grown) /\ rx' = Stamped(grown, 0) /\ UNCHANGED inbox
    BY <1>1, <1>2, <1>3, <2>1, <2>2
       DEF AppReceivesSingle, AppReceivesFirst, AppReceivesConsecutive, AppReceivesFlowControl,
           grown
  <2>4. Stamped(grown, 0) = grown
    BY <1>1, ExtendedType, NodeType, StampedOnTime DEF grown
  <2>5. TakesNext /\ UNCHANGED toClient
    BY <1>1, <2>3, TookOnly
  <2> QED BY <1>1, <1>6, <2>3, <2>4, <2>5, StreamSmooth DEF f, grown
<1>7. CASE Granted /\ Awaiting
  <2>1. f.pci = "FC"
    BY <1>7, GrantedHead DEF f
  <2>2. Took(<< >>) /\ tx' = [tx EXCEPT !.st = "send", !.due = FALSE]
    BY <1>1, <1>7, <2>1 DEF AppReceivesSingle, AppReceivesFirst, AppReceivesConsecutive,
                            AppReceivesFlowControl, Awaiting
  <2>3. tx'.st = "send" /\ tx'.next = tx.next
    BY <2>2, NodeType DEF Sendings
  <2>4. Replying'
    BY <1>4, <1>7, AppReceivesDelivers
  <2>5. client' = client /\ UNCHANGED toClient
    BY <1>1, <2>2, TookOnly DEF ClientUnchanged
  <2> QED BY <1>7, <2>3, <2>4, <2>5, SendSmooth
<1> QED BY <1>1, <1>5, <1>6, <1>7, SmoothTakes

(* WHAT A NODE SENDS.                                                      *)
LEMMA SmoothServes ==
  ASSUME Typed, Smooth, inbox # << >>
  PROVE  Handed /\ Clear
BY DEF Smooth, Resting, Lost, Quiet, Opened, Cleared, Streaming, Answered, Granted, Replying

LEMMA AnswerSmooth ==
  ASSUME Typed, Handed, inbox' = Served, UNCHANGED <<client, toNode>>, NEW n \in Sizes,
         toClient' = Append(toClient, Opening(Asked(Head(inbox)), n)),
         IF n = 0 THEN tx'.st = "idle" ELSE tx' = Sending(Asked(Head(inbox)), n)
  PROVE  Smooth'
<1>1. Asked(Head(inbox)) = client.ex /\ client.ex \in 0 .. MaxExchanges
  BY HandedServed, ClientType
<1>2. n # 0 => Awaiting'
  BY <1>1, SendingType DEF Awaiting, Sending, Idle
<1>3. tx'.st # "send"
  BY <1>1, SendingType
<1>4. Answered' /\ toClient'[1] = Opening(client.ex, n)
  BY <1>3, HandedAnswers
<1>5. Opening(client.ex, n).pci = IF n = 0 THEN "SF" ELSE "FF"
  BY DEF Opening, Frame
<1>6. (IF toClient[1].pci = "FF" THEN Awaiting ELSE tx.st = "idle")'
  BY <1>2, <1>4, <1>5
<1> QED BY <1>4, <1>6 DEF Smooth

LEMMA BootServesSmooth ==
  ASSUME Typed, Smooth, BootServes, fails > 0, fails' = fails
  PROVE  Smooth'
<1>1. Handed /\ Clear
  BY SmoothServes DEF BootServes
<1>2. PICK n \in Sizes :
         /\ toClient' = Append(toClient, Opening(Asked(Head(inbox)), n))
         /\ tx' = IF n = 0 THEN Idle ELSE Sending(Asked(Head(inbox)), n)
  BY FaultResets DEF BootServes
<1>3. IF n = 0 THEN tx'.st = "idle" ELSE tx' = Sending(Asked(Head(inbox)), n)
  BY <1>2, IdleType
<1> QED BY <1>1, <1>2, <1>3, AnswerSmooth DEF BootServes, ClientUnchanged

(* A response that CanTp_Transmit refuses is the first failure, for a      *)
(* transmission that will have run out when the gateway gives up.          *)
LEMMA DiagServesSmooth ==
  ASSUME Typed, Smooth, DiagServes, fails <= 2, fails > 0, fails' = fails
  PROVE  Smooth'
<1>1. Handed /\ Clear /\ node = "app" /\ inbox' = Served /\ UNCHANGED <<node, client, toNode>>
  BY SmoothServes DEF DiagServes, ClientUnchanged
<1>2. CASE TxFree
  <2>1. PICK n \in Sizes :
           /\ toClient' = Append(toClient, Opening(Asked(Head(inbox)), n))
           /\ tx' = IF n = 0 THEN tx ELSE Sending(Asked(Head(inbox)), n)
    BY <1>2, FaultResets DEF DiagServes
  <2>2. IF n = 0 THEN tx'.st = "idle" ELSE tx' = Sending(Asked(Head(inbox)), n)
    BY <1>2, <2>1 DEF TxFree
  <2> QED BY <1>1, <2>1, <2>2, AnswerSmooth
<1>3. CASE ~TxFree
  <2>1. UNCHANGED <<toClient, tx>>
    BY <1>3 DEF DiagServes
  <2>2. tx.st = "wait"
    BY <1>1, <1>3, NodeType DEF Handed, TxFree
  <2>3. fails = 1 /\ tx.old
    BY <1>1, <2>2 DEF Clear, OutOfTheWay, Typed, Counted
  <2>4. Lost'
    BY <1>1, <2>1, HandedDrops
  <2> QED BY <1>1, <2>1, <2>3, <2>4 DEF Smooth
<1> QED BY <1>2, <1>3

LEMMA SmoothSends ==
  ASSUME Smooth, tx.st = "send"
  PROVE  Replying /\ Consecutive(client.in, toClient, ReplyNext)
BY DEF Smooth, Resting, Lost, Quiet, Opened, Cleared, Streaming, Handed, Answered, Granted

LEMMA SendsCfSmooth ==
  ASSUME Typed, Replying, Consecutive(client.in, toClient, ReplyNext), tx.st = "send",
         UNCHANGED <<client, toNode, inbox>>,
         toClient' = Append(toClient, NextCf), tx' = Advanced
  PROVE  Smooth'
<1>1. Replying'
  BY ReplySent
<1>2. ReplyNext = tx.next /\ tx.next \in Nat /\ tx.ex \in 0 .. MaxExchanges /\ tx.size \in Sizes
  BY NodeType DEF ReplyNext, Sendings
<1>3. Consecutive(client.in, Append(toClient, NextCf), tx.next + 1)
  BY <1>2, ConsecutiveAppend, ClientType DEF Typed, Wire, NextCf
<1>4. ReplyNext' = tx.next + 1
  <2>1. CASE tx.next = tx.size
    <3>1. tx.size = client.in.total
      BY DEF Replying
    <3> QED BY <2>1, <3>1, IdleType DEF Advanced, ReplyNext
  <2>2. CASE tx.next # tx.size
    <3>1. tx' = [tx EXCEPT !.next = tx.next + 1]
      BY <2>2 DEF Advanced
    <3>2. tx'.st = "send" /\ tx'.next = tx.next + 1
      BY <3>1, NodeType DEF Sendings
    <3> QED BY <3>2 DEF ReplyNext
  <2> QED BY <2>1, <2>2
<1>5. Consecutive(client.in, toClient, ReplyNext)'
  BY <1>3, <1>4
<1> QED BY <1>1, <1>5 DEF Smooth

LEMMA BootSendsCfSmooth ==
  ASSUME Typed, Smooth, BootSendsCf, fails > 0, fails' = fails
  PROVE  Smooth'
<1>1. Replying /\ Consecutive(client.in, toClient, ReplyNext) /\ tx.st = "send"
  BY SmoothSends DEF BootSendsCf
<1>2. toClient' = Append(toClient, NextCf) /\ tx' = Advanced
  BY FaultResets DEF BootSendsCf
<1> QED BY <1>1, <1>2, SendsCfSmooth DEF BootSendsCf, ClientUnchanged

LEMMA DiagMainSmooth ==
  ASSUME Typed, Smooth, DiagMain, fails > 0, fails' = fails
  PROVE  Smooth'
<1>1. CASE tx.st = "send"
  <2>1. Replying /\ Consecutive(client.in, toClient, ReplyNext)
    BY <1>1, SmoothSends
  <2>2. toClient' = Append(toClient, NextCf) /\ tx' = Advanced
    BY <1>1, FaultResets DEF DiagMain
  <2> QED BY <1>1, <2>1, <2>2, SendsCfSmooth DEF DiagMain, ClientUnchanged
<1>2. CASE tx.st # "send"
  <2>1. Calmer
    BY <1>2, SmoothPhase, DiagMainDelivers
  <2>2. tx' = IF NBsElapsed THEN Idle ELSE tx
    BY <1>2 DEF DiagMain
  <2>3. rx' = IF NCrElapsed THEN Nothing ELSE rx
    BY DEF DiagMain
  <2>4. Fresh => UNCHANGED rx
    BY <2>3 DEF Fresh, NCrElapsed
  <2>5. Awaiting => UNCHANGED tx
    BY <2>2 DEF Awaiting, NBsElapsed
  <2>6. tx'.old = tx.old \/ tx'.st = "idle"
    BY <2>2, IdleType
  <2> QED BY <2>1, <2>4, <2>5, <2>6, CalmerSmooth DEF DiagMain
<1> QED BY <1>1, <1>2

(* THE INVARIANT.                                                          *)
LEMMA NodeFaults ==
  ASSUME Bootloader \/ Application \/ Silence \/ LoseFrame \/ UNCHANGED vars
  PROVE  UNCHANGED behind /\ (fails' = fails \/ fails' = 0) /\ (LoseFrame => fails' = 0)
<1>1. \A n : Cost(n) => fails' = fails \/ fails' = 0
  BY DEF Cost
<1>2. Free => fails' = fails
  BY DEF Free
<1>3. Cost(1) => fails' = 0
  BY DEF Cost
<1>4. Bootloader => fails' = fails \/ fails' = 0
  BY <1>1, <1>2 DEF Bootloader, BootReceives, BootServes, BootWaitsCts, BootSendsCf, BootTimers
<1>5. AppReceives => fails' = fails \/ fails' = 0
  BY <1>1, <1>2 DEF AppReceives, AppReceivesSingle, AppReceivesFirst, AppReceivesConsecutive,
                    AppReceivesFlowControl
<1>6. DiagServes \/ DiagSamples \/ DiagMain => fails' = fails \/ fails' = 0
  BY <1>1, <1>2 DEF DiagServes, DiagSamples, DiagMain
<1>7. Silence => fails' = fails \/ fails' = 0
  BY <1>1 DEF Silence
<1>8. LoseFrame => fails' = 0
  BY <1>3 DEF LoseFrame
<1>9. UNCHANGED vars => fails' = fails
  BY DEF vars
<1>10. UNCHANGED behind
  BY DEF Bootloader, BootReceives, BootServes, BootWaitsCts, BootSendsCf, BootTimers, Application,
         AppReceives, DiagServes, DiagSamples, DiagMain, Silence, LoseFrame, vars, ClientUnchanged
<1> QED BY <1>4, <1>5, <1>6, <1>7, <1>8, <1>9, <1>10 DEF Application

LEMMA NodeRecovers ==
  ASSUME Typed, Smooth, fails <= 2, fails > 0, fails' = fails,
         Bootloader \/ Application \/ Silence \/ UNCHANGED vars
  PROVE  Smooth'
<1>1. CASE Bootloader
  BY <1>1, BootReceivesSmooth, BootServesSmooth, BootWaitsCtsSmooth, BootSendsCfSmooth,
     BootTimersSmooth DEF Bootloader
<1>2. CASE Application
  BY <1>2, AppReceivesSmooth, DiagServesSmooth, DiagSamplesSmooth, DiagMainSmooth DEF Application
<1>3. CASE Silence
  BY <1>3, SilenceSmooth
<1>4. CASE UNCHANGED vars
  <2>1. Calmer /\ UNCHANGED <<node, rx, tx>>
    BY <1>4 DEF vars, Calmer
  <2> QED BY <2>1, CalmerSmooth
<1> QED BY <1>1, <1>2, <1>3, <1>4

LEMMA NextRecovers == Typed /\ Delivery /\ Recovery /\ [Next]_vars => Recovery'
<1> SUFFICES ASSUME Typed, Delivery, Recovery, [Next]_vars, ~behind'
             PROVE  fails' <= 2 /\ (fails' > 0 => Smooth')
  BY DEF Recovery
<1>1. fails \in Nat /\ (~behind => fails <= 2 /\ (fails > 0 => Smooth))
  BY DEF Typed, Counted, Recovery
<1>2. ASSUME NEW size \in Sizes, Ask(size) PROVE fails' <= 2 /\ (fails' > 0 => Smooth')
  <2>1. CASE behind
    BY <1>2, <2>1 DEF Ask
  <2>2. CASE ~behind
    <3>1. fails' = fails /\ Opened'
      BY <1>2, <2>2, AskOpens DEF Ask
    <3> QED BY <1>1, <1>2, <2>2, <3>1, AskSmooth
  <2> QED BY <2>1, <2>2
<1>3. CASE SendCf
  <2>1. ~behind /\ fails' = fails
    BY <1>3 DEF SendCf, Free
  <2> QED BY <1>1, <1>3, <2>1, SendCfSmooth
<1>4. CASE ClientReceives
  <2>1. ~behind
    BY <1>4 DEF ClientReceives, Raised
  <2>2. CASE fails = 0
    BY <1>4, <2>1, <2>2, ClientRaises
  <2>3. CASE fails # 0
    BY <1>1, <1>4, <2>1, <2>3, ClientReceivesSmooth
  <2> QED BY <2>2, <2>3
<1>5. CASE ClientTimesOut
  <2>1. ~behind
    BY <1>5 DEF ClientTimesOut, Raised
  <2> QED BY <1>1, <1>5, <2>1, ClientTimesOutSmooth
<1>6. CASE Bootloader \/ Application \/ Silence \/ LoseFrame \/ UNCHANGED vars
  <2>1. ~behind /\ (fails' = fails \/ fails' = 0) /\ (LoseFrame => fails' = 0)
    BY <1>6, NodeFaults
  <2>2. CASE fails' = 0
    BY <2>2
  <2>3. CASE fails' = fails /\ fails # 0
    <3>1. Smooth /\ fails <= 2 /\ fails > 0 /\ ~LoseFrame
      BY <1>1, <2>1, <2>3
    <3> QED BY <1>6, <2>3, <3>1, NodeRecovers
  <2> QED BY <2>1, <2>2, <2>3
<1> QED BY <1>2, <1>3, <1>4, <1>5, <1>6 DEF Next, Gateway

LEMMA InitRecovers == Init => Recovery
BY DEF Init, Recovery

LEMMA RecoveryRange == Recovery => RecoversSoon
BY DEF Recovery, RecoversSoon

(* One lost frame, refused frame, late answer or race of a time stamp with *)
(* the tick costs isotp.py at most the exchange it hits and the next one:  *)
(* neither boot_isotp.c nor CanTp.c keeps a transmission, a half message   *)
(* or a request that would spoil a third, until the gateway gives up an    *)
(* exchange with frames still under way.                                   *)
THEOREM RecoversInTime == Spec => []RecoversSoon
<1>1. Init => Recovery
  BY InitRecovers
<1>2. Typed /\ Typed' /\ Delivery /\ Delivery' /\ Recovery /\ [Next]_vars => Recovery'
  BY NextRecovers
<1> QED BY <1>1, <1>2, TypedInvariant, DeliveryInvariant, RecoveryRange, PTL DEF Spec
=============================================================================
