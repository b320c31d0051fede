-------------------------- MODULE AllocationProofs --------------------------
(***************************************************************************)
(* AllocateIP is right for every size of an octet, every network and every *)
(* set of used addresses.                                                  *)
(***************************************************************************)
EXTENDS Allocation, TLAPS

(* An octet has a value at least.                                          *)
LEMMA OctetPos == Octet \in Nat /\ Octet >= 1
<1>1. Octet \in Nat \ {0}
  BY OctetAssumption, Zenon
<1> QED
  BY <1>1

(* The blocks of a mask fill an octet.                                     *)
LEMMA BlockDivides ==
  ASSUME NEW b \in Blocks
  PROVE  b \in 1..Octet /\ \E Q \in Nat : Octet = Q * b
<1>1. b \in 1..Octet /\ \E Q \in 1..Octet : Octet = Q * b
  BY OctetAssumption, Zenon
<1>2. PICK Q \in 1..Octet : Octet = Q * b
  BY <1>1, Zenon
<1>3. Q \in Nat
  BY OctetPos
<1> QED
  BY <1>1, <1>2, <1>3, Zenon

(* Multiples of m are m apart.                                             *)
LEMMA Times ==
  ASSUME NEW m \in Nat \ {0}, NEW k \in Int, k >= 1
  PROVE  m * k >= m
<1>1. m * k = m + m * (k - 1)
  OBVIOUS
<1>2. m * (k - 1) >= 0
  OBVIOUS
<1> QED
  BY <1>1, <1>2

(* Masking goes down to the block that an octet is in.                     *)
LEMMA MaskDown ==
  ASSUME NEW m \in Nat \ {0}, NEW q \in Nat, NEW x \in Nat,
         q * m <= x, x <= q * m + m - 1
  PROVE  Masked(x, m) = q * m
<1> DEFINE d == x \div m
<1>1. d \in Nat /\ x = m * d + (x % m) /\ x % m \in 0..m - 1
  OBVIOUS
<1>2. ~(d - q >= 1)
  <2> SUFFICES ASSUME d - q >= 1 PROVE FALSE
    OBVIOUS
  <2>1. m * (d - q) >= m
    BY <1>1, Times
  <2>2. m * (d - q) = m * d - q * m
    BY <1>1
  <2> QED
    BY <1>1, <2>1, <2>2
<1>3. ~(q - d >= 1)
  <2> SUFFICES ASSUME q - d >= 1 PROVE FALSE
    OBVIOUS
  <2>1. m * (q - d) >= m
    BY <1>1, Times
  <2>2. m * (q - d) = q * m - m * d
    BY <1>1
  <2> QED
    BY <1>1, <2>1, <2>2
<1>4. d = q
  BY <1>1, <1>2, <1>3
<1> QED
  BY <1>1, <1>4 DEF Masked

(* A masked octet starts a block, which ends within the octet.             *)
LEMMA MaskBase ==
  ASSUME NEW m \in 1..Octet, NEW Q \in Nat, Octet = Q * m, NEW x \in Byte
  PROVE  \E q \in Nat : Masked(x, m) = q * m /\ q * m + m <= Octet
<1> DEFINE d == x \div m
<1>0. m \in Nat \ {0} /\ x \in Nat /\ x < Octet
  BY OctetPos DEF Byte
<1>1. d \in Nat /\ x = m * d + (x % m) /\ x % m \in 0..m - 1
  BY <1>0
<1>2. Masked(x, m) = d * m
  BY <1>0, <1>1 DEF Masked
<1>3. Q - d >= 1
  <2> SUFFICES ASSUME d >= Q PROVE FALSE
    BY <1>1
  <2>1. CASE d = Q
    BY <1>0, <1>1, <2>1
  <2>2. CASE d - Q >= 1
    <3>1. m * (d - Q) >= m
      BY <1>0, <1>1, <2>2, Times
    <3>2. m * (d - Q) = m * d - Q * m
      BY <1>0, <1>1
    <3> QED
      BY <1>0, <1>1, <3>1, <3>2
  <2> QED
    BY <1>1, <2>1, <2>2
<1>4. m * (Q - d) >= m
  BY <1>0, <1>1, <1>3, Times
<1>5. m * (Q - d) = Q * m - d * m
  BY <1>0, <1>1
<1>6. d * m + m <= Octet
  BY <1>0, <1>1, <1>4, <1>5
<1> QED
  BY <1>1, <1>2, <1>6

(* One octet of a network: it starts a block of the mask, which ends       *)
(* within the octet.                                                       *)
Aligned(x, m) ==
  /\ x \in Nat /\ m \in Nat /\ m >= 1
  /\ x + m <= Octet
  /\ \E q \in Nat : x = q * m

(* The mask gives the octets before the k-th to the network, and those     *)
(* after it to the hosts.                                                  *)
Shape(n, k) ==
  /\ n.ip \in Address
  /\ \A i \in Index : /\ i < k => n.size[i] = 1
                      /\ i > k => n.size[i] = Octet
                      /\ Aligned(n.ip[i], n.size[i])

(* Every network has that shape.                                           *)
LEMMA NetworkShape ==
  ASSUME NEW n \in Network
  PROVE  \E k \in Index : Shape(n, k)
<1> DEFINE Size(k, b) == [i \in Index |-> IF i < k THEN 1 ELSE IF i = k THEN b ELSE Octet]
           Net(a, m) == [ip |-> [i \in Index |-> Masked(a[i], m[i])], size |-> m]
<1>1. PICK a \in Address, k \in Index, b \in Blocks : n = Net(a, Size(k, b))
  <2>1. PICK a \in Address, m \in {Size(k, b) : k \in Index, b \in Blocks} : n = Net(a, m)
    BY DEF Network
  <2>2. PICK k \in Index, b \in Blocks : m = Size(k, b)
    BY <2>1
  <2> HIDE DEF Net, Size
  <2> QED
    BY <2>1, <2>2
<1>2. \A i \in Index : n.size[i] = Size(k, b)[i] /\ n.ip[i] = Masked(a[i], Size(k, b)[i])
  BY <1>1
<1>3. \A i \in Index : /\ i < k => n.size[i] = 1
                       /\ i > k => n.size[i] = Octet
                       /\ i = k => n.size[i] = b
  BY <1>2 DEF Index
<1>4. ASSUME NEW i \in Index
      PROVE  n.size[i] \in 1..Octet /\ \E Q \in Nat : Octet = Q * n.size[i]
  <2>1. CASE i < k
    <3>1. n.size[i] = 1
      BY <1>3, <2>1
    <3>2. Octet \in Nat /\ Octet = Octet * 1 /\ 1 \in 1..Octet
      BY OctetPos
    <3> QED
      BY <3>1, <3>2, Zenon
  <2>2. CASE i = k
    BY <1>3, <2>2, BlockDivides
  <2>3. CASE i > k
    <3>1. n.size[i] = Octet
      BY <1>3, <2>3
    <3>2. 1 \in Nat /\ Octet = 1 * Octet /\ Octet \in 1..Octet
      BY OctetPos
    <3> QED
      BY <3>1, <3>2, Zenon
  <2>4. i < k \/ i = k \/ i > k
    BY DEF Index
  <2> QED
    BY <2>1, <2>2, <2>3, <2>4, Zenon
<1>5. ASSUME NEW i \in Index
      PROVE  Aligned(n.ip[i], n.size[i])
  <2>1. PICK Q \in Nat : Octet = Q * n.size[i]
    BY <1>4
  <2>2. n.size[i] \in 1..Octet /\ a[i] \in Byte
    BY <1>4 DEF Address
  <2>3. PICK q \in Nat : /\ Masked(a[i], n.size[i]) = q * n.size[i]
                         /\ q * n.size[i] + n.size[i] <= Octet
    BY <2>1, <2>2, MaskBase
  <2>4. n.ip[i] = q * n.size[i]
    BY <1>2, <2>3
  <2>5. n.size[i] \in Nat /\ n.size[i] >= 1 /\ q * n.size[i] \in Nat
    BY <2>2, OctetPos
  <2> QED
    BY <2>3, <2>4, <2>5 DEF Aligned
<1>6. n.ip \in Address
  <2>1. \A i \in Index : n.ip[i] \in Byte
    BY <1>5, OctetPos DEF Aligned, Byte
  <2> QED
    BY <1>1, <2>1 DEF Address
<1> QED
  BY <1>3, <1>5, <1>6 DEF Shape
-----------------------------------------------------------------------------
(* The order of the addresses.                                             *)

(* Addresses are ordered by their first octet, then by their second one,   *)
(* and so on.                                                              *)
Lex(a, b) ==
  \/ a[1] < b[1]
  \/ a[1] = b[1] /\ a[2] < b[2]
  \/ a[1] = b[1] /\ a[2] = b[2] /\ a[3] < b[3]
  \/ a[1] = b[1] /\ a[2] = b[2] /\ a[3] = b[3] /\ a[4] < b[4]

(* The order of Allocation, spelled out.                                   *)
LEMMA Ordered ==
  ASSUME NEW a, NEW b
  PROVE  a \prec b <=> Lex(a, b)
<1>1. ASSUME a \prec b PROVE Lex(a, b)
  <2>1. PICK i \in Index : a[i] < b[i] /\ \A j \in Index : j < i => a[j] = b[j]
    BY <1>1 DEF \prec
  <2> QED
    BY <2>1 DEF Index, Lex
<1>2. ASSUME Lex(a, b) PROVE a \prec b
  <2>1. ASSUME NEW i \in Index, a[i] < b[i], \A j \in Index : j < i => a[j] = b[j]
        PROVE  a \prec b
    BY <2>1 DEF \prec
  <2> QED
    BY <1>2, <2>1 DEF Index, Lex
<1> QED
  BY <1>1, <1>2

(* The octets of an address.                                               *)
LEMMA Octets ==
  ASSUME NEW a \in Address
  PROVE  \A i \in 1..4 : a[i] \in Int /\ 0 <= a[i] /\ a[i] < Octet
BY OctetPos DEF Address, Index, Byte

(* Addresses with the same octets are the same.                            *)
LEMMA Extensional ==
  ASSUME NEW a \in Address, NEW b \in Address,
         a[1] = b[1], a[2] = b[2], a[3] = b[3], a[4] = b[4]
  PROVE  a = b
BY DEF Address, Index

(* No address is below itself, nor below one that is below it.             *)
LEMMA Asymmetric ==
  ASSUME NEW a \in Address, NEW b \in Address, a \prec b
  PROVE  ~(b \prec a) /\ a # b
BY Ordered, Octets DEF Lex

(* The order is transitive.                                                *)
LEMMA Transitive ==
  ASSUME NEW a \in Address, NEW b \in Address, NEW c \in Address,
         a \prec b, b \prec c
  PROVE  a \prec c
BY Ordered, Octets DEF Lex

(* Of two different addresses one is below the other.                      *)
LEMMA Total ==
  ASSUME NEW a \in Address, NEW b \in Address
  PROVE  a \prec b \/ a = b \/ b \prec a
BY Ordered, Octets, Extensional DEF Lex
-----------------------------------------------------------------------------
(* incIP.                                                                  *)

(* An octet counts up and wraps.                                           *)
LEMMA Count ==
  ASSUME NEW x \in Byte
  PROVE  /\ x = Octet - 1 => (x + 1) % Octet = 0
         /\ x # Octet - 1 => (x + 1) % Octet = x + 1
BY OctetPos DEF Byte

(* The carry stops at the last octet that does not wrap.                   *)
LEMMA Carry ==
  ASSUME NEW a \in Address
  PROVE  /\ Inc(a) \in Address
         /\ Inc(a)[4] = IF a[4] = Octet - 1 THEN 0 ELSE a[4] + 1
         /\ Inc(a)[3] = IF a[4] = Octet - 1
                        THEN IF a[3] = Octet - 1 THEN 0 ELSE a[3] + 1
                        ELSE a[3]
         /\ Inc(a)[2] = IF a[4] = Octet - 1 /\ a[3] = Octet - 1
                        THEN IF a[2] = Octet - 1 THEN 0 ELSE a[2] + 1
                        ELSE a[2]
         /\ Inc(a)[1] = IF a[4] = Octet - 1 /\ a[3] = Octet - 1 /\ a[2] = Octet - 1
                        THEN IF a[1] = Octet - 1 THEN 0 ELSE a[1] + 1
                        ELSE a[1]
<1>1. /\ Wraps(a, 4)
      /\ Wraps(a, 3) <=> a[4] = Octet - 1
      /\ Wraps(a, 2) <=> a[4] = Octet - 1 /\ a[3] = Octet - 1
      /\ Wraps(a, 1) <=> a[4] = Octet - 1 /\ a[3] = Octet - 1 /\ a[2] = Octet - 1
  BY DEF Wraps, Index
<1>2. ASSUME NEW i \in Index
      PROVE  Inc(a)[i] = IF Wraps(a, i)
                         THEN IF a[i] = Octet - 1 THEN 0 ELSE a[i] + 1
                         ELSE a[i]
  <2>1. a[i] \in Byte
    BY DEF Address
  <2>2. Inc(a)[i] = IF Wraps(a, i) THEN (a[i] + 1) % Octet ELSE a[i]
    BY DEF Inc
  <2> QED
    BY <2>1, <2>2, Count
<1>3. Inc(a) \in Address
  <2>1. \A i \in Index : Inc(a)[i] \in Byte
    <3>1. ASSUME NEW i \in Index PROVE Inc(a)[i] \in Byte
      <4>1. a[i] \in Byte
        BY DEF Address
      <4> QED
        BY <1>2, <4>1, OctetPos DEF Byte
    <3> QED
      BY <3>1
  <2> QED
    BY <2>1 DEF Address, Inc
<1>4. /\ Inc(a)[4] = IF Wraps(a, 4) THEN IF a[4] = Octet - 1 THEN 0 ELSE a[4] + 1 ELSE a[4]
      /\ Inc(a)[3] = IF Wraps(a, 3) THEN IF a[3] = Octet - 1 THEN 0 ELSE a[3] + 1 ELSE a[3]
      /\ Inc(a)[2] = IF Wraps(a, 2) THEN IF a[2] = Octet - 1 THEN 0 ELSE a[2] + 1 ELSE a[2]
      /\ Inc(a)[1] = IF Wraps(a, 1) THEN IF a[1] = Octet - 1 THEN 0 ELSE a[1] + 1 ELSE a[1]
  BY <1>2 DEF Index
<1> QED
  BY <1>1, <1>3, <1>4

(* An address that some address is above has an octet that does not wrap.  *)
LEMMA Room ==
  ASSUME NEW a \in Address, NEW top \in Address, a \prec top
  PROVE  ~(a[1] = Octet - 1 /\ a[2] = Octet - 1 /\ a[3] = Octet - 1 /\ a[4] = Octet - 1)
<1>1. Lex(a, top)
  BY Ordered
<1>2. /\ top[1] \in Int /\ top[2] \in Int /\ top[3] \in Int /\ top[4] \in Int
      /\ top[1] < Octet /\ top[2] < Octet /\ top[3] < Octet /\ top[4] < Octet
  BY Octets
<1> QED
  BY <1>1, <1>2, OctetPos DEF Lex

(* incIP goes up from there.                                               *)
LEMMA IncAbove ==
  ASSUME NEW a \in Address, NEW top \in Address, a \prec top
  PROVE  a \prec Inc(a)
<1>1. a[1] \in Int /\ a[2] \in Int /\ a[3] \in Int /\ a[4] \in Int
  BY Octets
<1>2. Lex(a, Inc(a))
  BY <1>1, Room, Carry, OctetPos DEF Lex
<1> QED
  BY <1>2, Ordered

(* There is no address between an address and the next one.                *)
LEMMA IncNext ==
  ASSUME NEW a \in Address, NEW top \in Address, a \prec top,
         NEW b \in Address, b \prec Inc(a)
  PROVE  b = a \/ b \prec a
<1>1. a[1] = Octet - 1 /\ a[2] = Octet - 1 /\ a[3] = Octet - 1 => a[4] # Octet - 1
  BY Room
<1>2. Lex(b, Inc(a))
  BY Ordered
<1>3. Lex(b, a) \/ (a[1] = b[1] /\ a[2] = b[2] /\ a[3] = b[3] /\ a[4] = b[4])
  <2>1. /\ b[1] \in Int /\ b[2] \in Int /\ b[3] \in Int /\ b[4] \in Int
        /\ a[1] \in Int /\ a[2] \in Int /\ a[3] \in Int /\ a[4] \in Int
        /\ b[1] < Octet /\ b[2] < Octet /\ b[3] < Octet /\ b[4] < Octet
        /\ b[1] >= 0 /\ b[2] >= 0 /\ b[3] >= 0 /\ b[4] >= 0
    BY Octets
  <2> QED
    BY <1>1, <1>2, <2>1, Carry, OctetPos DEF Lex
<1> QED
  BY <1>3, Ordered, Extensional
-----------------------------------------------------------------------------
(* Networks.                                                               *)

(* The broadcast address is an address, and not below the network's own.   *)
LEMMA LastTyped ==
  ASSUME NEW n \in Network
  PROVE  /\ n.ip \in Address /\ LastAddr(n) \in Address
         /\ \A i \in Index : n.ip[i] <= LastAddr(n)[i]
<1>1. PICK k \in Index : Shape(n, k)
  BY NetworkShape
<1>2. ASSUME NEW i \in Index
      PROVE  LastAddr(n)[i] \in Byte /\ n.ip[i] <= LastAddr(n)[i]
  <2>1. Aligned(n.ip[i], n.size[i]) /\ LastAddr(n)[i] = n.ip[i] + n.size[i] - 1
    BY <1>1 DEF Shape, LastAddr
  <2> QED
    BY <2>1, OctetPos DEF Aligned, Byte
<1> QED
  BY <1>1, <1>2 DEF Shape, LastAddr, Address

(* The order says so, too.                                                 *)
LEMMA LastAbove ==
  ASSUME NEW n \in Network
  PROVE  ~(LastAddr(n) \prec n.ip)
<1>1. /\ n.ip[1] <= LastAddr(n)[1] /\ n.ip[2] <= LastAddr(n)[2]
      /\ n.ip[3] <= LastAddr(n)[3] /\ n.ip[4] <= LastAddr(n)[4]
  BY LastTyped DEF Index
<1> QED
  BY <1>1, LastTyped, Octets, Ordered DEF Lex

(* An address that is neither below the network's own nor above its        *)
(* broadcast address agrees with the network before the k-th octet, and    *)
(* is in the network's block there.                                        *)
LEMMA Between ==
  ASSUME NEW n \in Network, NEW a \in Address, NEW k \in Index, Shape(n, k),
         ~(a \prec n.ip), ~(LastAddr(n) \prec a)
  PROVE  /\ \A i \in Index : i < k => a[i] = n.ip[i]
         /\ n.ip[k] <= a[k] /\ a[k] <= n.ip[k] + n.size[k] - 1
<1>1. /\ a[1] \in Int /\ a[2] \in Int /\ a[3] \in Int /\ a[4] \in Int
      /\ n.ip[1] \in Int /\ n.ip[2] \in Int /\ n.ip[3] \in Int /\ n.ip[4] \in Int
  BY LastTyped, Octets
<1>2. \A i \in Index : n.size[i] \in Int /\ LastAddr(n)[i] = n.ip[i] + n.size[i] - 1
  BY DEF Shape, Aligned, LastAddr
<1>3. /\ n.size[1] \in Int /\ n.size[2] \in Int /\ n.size[3] \in Int /\ n.size[4] \in Int
      /\ LastAddr(n)[1] = n.ip[1] + n.size[1] - 1
      /\ LastAddr(n)[2] = n.ip[2] + n.size[2] - 1
      /\ LastAddr(n)[3] = n.ip[3] + n.size[3] - 1
      /\ LastAddr(n)[4] = n.ip[4] + n.size[4] - 1
  BY <1>2 DEF Index
<1>4. /\ 1 < k => n.size[1] = 1
      /\ 2 < k => n.size[2] = 1
      /\ 3 < k => n.size[3] = 1
  BY DEF Shape, Index
<1>5. ~Lex(a, n.ip) /\ ~Lex(LastAddr(n), a)
  BY Ordered
<1>6. k \in 1..4
  BY DEF Index
<1>7. /\ 1 < k => a[1] = n.ip[1]
      /\ 2 < k => a[2] = n.ip[2]
      /\ 3 < k => a[3] = n.ip[3]
  BY <1>1, <1>3, <1>4, <1>5, <1>6 DEF Lex
<1>8. n.ip[k] <= a[k] /\ a[k] <= n.ip[k] + n.size[k] - 1
  <2>1. CASE k = 1
    BY <1>1, <1>3, <1>5, <2>1 DEF Lex
  <2>2. CASE k = 2
    BY <1>1, <1>3, <1>4, <1>5, <1>7, <2>2 DEF Lex
  <2>3. CASE k = 3
    BY <1>1, <1>3, <1>4, <1>5, <1>7, <2>3 DEF Lex
  <2>4. CASE k = 4
    BY <1>1, <1>3, <1>4, <1>5, <1>7, <2>4 DEF Lex
  <2> QED
    BY <1>6, <2>1, <2>2, <2>3, <2>4
<1> QED
  BY <1>6, <1>7, <1>8 DEF Index

(* Such an address is contained in the network.                            *)
LEMMA BetweenContained ==
  ASSUME NEW n \in Network, NEW a \in Address,
         ~(a \prec n.ip), ~(LastAddr(n) \prec a)
  PROVE  Contains(n, a)
<1>1. PICK k \in Index : Shape(n, k)
  BY NetworkShape
<1>2. ASSUME NEW i \in Index
      PROVE  Masked(a[i], n.size[i]) = n.ip[i]
  <2>1. Aligned(n.ip[i], n.size[i])
    BY <1>1 DEF Shape
  <2>2. a[i] \in Nat /\ a[i] <= Octet - 1
    BY Octets, OctetPos DEF Index
  <2>3. n.ip[i] <= a[i] /\ a[i] <= n.ip[i] + n.size[i] - 1
    <3>1. CASE i < k
      BY <1>1, <2>1, <2>2, <3>1, Between DEF Shape, Aligned
    <3>2. CASE i = k
      BY <1>1, <3>2, Between
    <3>3. CASE i > k
      <4>1. n.size[i] = Octet
        BY <1>1, <3>3 DEF Shape
      <4>2. n.ip[i] = 0
        BY <2>1, <4>1, OctetPos DEF Aligned
      <4> QED
        BY <2>2, <4>1, <4>2, OctetPos
    <3>4. i < k \/ i = k \/ i > k
      BY DEF Index
    <3> QED
      BY <3>1, <3>2, <3>3, <3>4
  <2>4. PICK q \in Nat : n.ip[i] = q * n.size[i]
    BY <2>1 DEF Aligned
  <2>5. n.size[i] \in Nat \ {0}
    BY <2>1 DEF Aligned
  <2> QED
    BY <2>2, <2>3, <2>4, <2>5, MaskDown
<1> QED
  BY <1>2 DEF Contains

(* A network of one address contains nothing else.                         *)
LEMMA Single ==
  ASSUME NEW n \in Network, n.ip = LastAddr(n), NEW a \in Address, Contains(n, a)
  PROVE  a = n.ip
<1>1. PICK k \in Index : Shape(n, k)
  BY NetworkShape
<1>2. ASSUME NEW i \in Index
      PROVE  a[i] = n.ip[i]
  <2>1. n.ip[i] \in Nat /\ n.size[i] \in Nat
    BY <1>1 DEF Shape, Aligned
  <2>2. n.ip[i] = n.ip[i] + n.size[i] - 1
    <3>1. LastAddr(n)[i] = n.ip[i] + n.size[i] - 1
      BY Zenon DEF LastAddr
    <3> QED
      BY <3>1, Zenon
  <2>3. n.size[i] = 1 /\ a[i] \in Nat
    BY <2>1, <2>2, Octets DEF Index
  <2>4. Masked(a[i], 1) = a[i]
    BY <2>3 DEF Masked
  <2> QED
    BY <2>3, <2>4 DEF Contains
<1> QED
  BY <1>2, LastTyped, Extensional DEF Index
-----------------------------------------------------------------------------
(* The loop.                                                               *)

(* A network of more than one address: the loop's address is above the     *)
(* network's own, not above the broadcast address, and every host below it *)
(* has a node.                                                             *)
Searched ==
  /\ mesh.ip \prec ip /\ ~(LastAddr(mesh) \prec ip)
  /\ \A h \in Hosts(mesh) : h \prec ip => h \in used

LoopInv ==
  /\ TypeOK
  /\ result = None => mesh.ip = LastAddr(mesh) \/ Searched
  /\ FirstFreeHost
  /\ ExhaustedMeansFull

(* Where the loop continues it is at a host.                               *)
LEMMA AtHost ==
  ASSUME LoopInv, result = None, InLoop(ip)
  PROVE  /\ mesh \in Network /\ ip \in Address /\ ip \in Hosts(mesh)
         /\ LastAddr(mesh) \in Address /\ ip \prec LastAddr(mesh)
         /\ Searched
<1>1. mesh \in Network /\ ip \in Address /\ LastAddr(mesh) \in Address
  BY MeshesAssumption, LastTyped DEF LoopInv, TypeOK
<1>2. Contains(mesh, ip) /\ ip # LastAddr(mesh)
  BY DEF InLoop
<1>3. mesh.ip # LastAddr(mesh)
  BY <1>1, <1>2, Single
<1>4. Searched
  BY <1>3 DEF LoopInv
<1>5. ip \prec LastAddr(mesh)
  BY <1>1, <1>2, <1>4, Total DEF Searched
<1>6. ip \in Hosts(mesh)
  BY <1>1, <1>4, <1>5 DEF Hosts, Searched
<1> QED
  BY <1>1, <1>4, <1>5, <1>6

(* The first iteration starts right, in a network of one address by the    *)
(* first disjunct of LoopInv.                                              *)
LEMMA LoopStarts == Init => LoopInv
<1> SUFFICES ASSUME Init PROVE LoopInv
  OBVIOUS
<1>1. mesh \in Network /\ mesh.ip \in Address /\ LastAddr(mesh) \in Address
  BY MeshesAssumption, LastTyped DEF Init
<1>2. TypeOK
  BY <1>1, Carry DEF Init, TypeOK
<1>3. FirstFreeHost /\ ExhaustedMeansFull
  BY ResultAssumption DEF Init, FirstFreeHost, ExhaustedMeansFull
<1>4. ASSUME mesh.ip # LastAddr(mesh) PROVE Searched
  <2>1. mesh.ip \prec LastAddr(mesh)
    BY <1>1, <1>4, Total, LastAbove
  <2>2. ip = Inc(mesh.ip)
    BY DEF Init
  <2>3. mesh.ip \prec ip
    BY <1>1, <2>1, <2>2, IncAbove
  <2>4. ~(LastAddr(mesh) \prec ip)
    <3> SUFFICES ASSUME LastAddr(mesh) \prec Inc(mesh.ip) PROVE FALSE
      BY <2>2
    <3>1. LastAddr(mesh) = mesh.ip \/ LastAddr(mesh) \prec mesh.ip
      BY <1>1, <2>1, IncNext
    <3> QED
      BY <1>1, <1>4, <3>1, LastAbove
  <2>5. ASSUME NEW h \in Hosts(mesh), h \prec ip PROVE FALSE
    <3>1. h \in Address /\ mesh.ip \prec h /\ h \prec Inc(mesh.ip)
      BY <2>2, <2>5 DEF Hosts
    <3>2. h = mesh.ip \/ h \prec mesh.ip
      BY <1>1, <2>1, <3>1, IncNext
    <3> QED
      BY <1>1, <3>1, <3>2, Asymmetric
  <2> QED
    BY <2>3, <2>4, <2>5 DEF Searched
<1> QED
  BY <1>2, <1>3, <1>4 DEF LoopInv

(* A free host that is returned is the lowest, because all below were      *)
(* searched.                                                               *)
LEMMA TakeKeeps ==
  ASSUME LoopInv, Take
  PROVE  LoopInv'
<1>1. result = None /\ InLoop(ip) /\ ip \notin used
  BY DEF Take
<1>2. result' = ip /\ mesh' = mesh /\ used' = used /\ ip' = ip
  BY DEF Take
<1>3. ip \in Address /\ ip \in Hosts(mesh) /\ Searched
  BY <1>1, AtHost
<1>4. TypeOK'
  BY <1>2, <1>3 DEF LoopInv, TypeOK
<1>5. ip # None /\ ip # Exhausted
  BY <1>3, ResultAssumption
<1>6. FirstFreeHost'
  BY <1>1, <1>2, <1>3 DEF FirstFreeHost, Searched, Hosts, LastAddr
<1> QED
  BY <1>2, <1>4, <1>5, <1>6 DEF LoopInv, ExhaustedMeansFull

(* No host lies between the address and the next one, and the broadcast    *)
(* address is not passed.                                                  *)
LEMMA SkipKeeps ==
  ASSUME LoopInv, Skip
  PROVE  LoopInv'
<1>1. result = None /\ InLoop(ip) /\ ip \in used
  BY DEF Skip
<1>2. result' = None /\ mesh' = mesh /\ used' = used /\ ip' = Inc(ip)
  BY <1>1 DEF Skip
<1>3. /\ mesh \in Network /\ ip \in Address /\ ip \in Hosts(mesh)
      /\ LastAddr(mesh) \in Address /\ ip \prec LastAddr(mesh) /\ Searched
  BY <1>1, AtHost
<1>4. Inc(ip) \in Address /\ mesh.ip \in Address
  BY <1>3, Carry, LastTyped
<1>5. mesh.ip \prec Inc(ip)
  BY <1>3, <1>4, IncAbove, Transitive DEF Searched
<1>6. ~(LastAddr(mesh) \prec Inc(ip))
  BY <1>3, IncNext, Asymmetric
<1>7. ASSUME NEW h \in Hosts(mesh), h \prec Inc(ip) PROVE h \in used
  <2>1. h \in Address
    BY DEF Hosts
  <2>2. h = ip \/ h \prec ip
    BY <1>3, <1>7, <2>1, IncNext
  <2> QED
    BY <1>1, <1>3, <2>2 DEF Searched
<1>8. Searched'
  BY <1>2, <1>5, <1>6, <1>7 DEF Searched, Hosts, LastAddr
<1>9. TypeOK'
  BY <1>2, <1>4 DEF LoopInv, TypeOK
<1> QED
  BY <1>2, <1>8, <1>9, ResultAssumption DEF LoopInv, FirstFreeHost, ExhaustedMeansFull

(* The loop ends at the broadcast address only, above every host.          *)
LEMMA ExhaustKeeps ==
  ASSUME LoopInv, Exhaust
  PROVE  LoopInv'
<1>1. result = None /\ ~InLoop(ip)
  BY DEF Exhaust
<1>2. result' = Exhausted /\ mesh' = mesh /\ used' = used /\ ip' = ip
  BY DEF Exhaust
<1>3. /\ mesh \in Network /\ ip \in Address
      /\ mesh.ip \in Address /\ LastAddr(mesh) \in Address
  BY MeshesAssumption, LastTyped DEF LoopInv, TypeOK
<1>4. ASSUME NEW h \in Hosts(mesh) PROVE h \in used
  <2>1. h \in Address /\ mesh.ip \prec h /\ h \prec LastAddr(mesh)
    BY DEF Hosts
  <2>2. mesh.ip # LastAddr(mesh)
    BY <1>3, <2>1, Asymmetric
  <2>3. Searched
    BY <1>1, <2>2 DEF LoopInv
  <2>4. Contains(mesh, ip)
    BY <1>3, <2>3, Asymmetric, BetweenContained DEF Searched
  <2>5. ip = LastAddr(mesh)
    BY <1>1, <2>4 DEF InLoop
  <2> QED
    BY <2>1, <2>3, <2>5 DEF Searched
<1>5. ExhaustedMeansFull'
  BY <1>2, <1>4 DEF ExhaustedMeansFull, Hosts, LastAddr
<1>6. TypeOK'
  BY <1>2 DEF LoopInv, TypeOK
<1> QED
  BY <1>2, <1>5, <1>6, ResultAssumption DEF LoopInv, FirstFreeHost

(* LoopInv always holds.                                                   *)
LEMMA LoopInductive == Spec => []LoopInv
<1>1. LoopInv /\ [Next]_vars => LoopInv'
  <2>1. ASSUME LoopInv, UNCHANGED vars PROVE LoopInv'
    BY <2>1 DEF LoopInv, vars, TypeOK, Searched, FirstFreeHost, ExhaustedMeansFull,
                Hosts, LastAddr
  <2> QED
    BY <2>1, TakeKeeps, SkipKeeps, ExhaustKeeps DEF Next
<1> QED
  BY <1>1, LoopStarts, PTL DEF Spec

(* The loop's address and the result are addresses of four octets.         *)
THEOREM Typed == Spec => []TypeOK
<1>1. LoopInv => TypeOK
  BY DEF LoopInv
<1> QED
  BY <1>1, LoopInductive, PTL

(* AllocateIP returns the lowest host of the network that no node has.     *)
THEOREM FirstFreeHostThm == Spec => []FirstFreeHost
<1>1. LoopInv => FirstFreeHost
  BY DEF LoopInv
<1> QED
  BY <1>1, LoopInductive, PTL

(* AllocateIP says that the network is exhausted only when it is.          *)
THEOREM ExhaustedMeansFullThm == Spec => []ExhaustedMeansFull
<1>1. LoopInv => ExhaustedMeansFull
  BY DEF LoopInv
<1> QED
  BY <1>1, LoopInductive, PTL

(* The loop goes up within the network, so it passes an address once: what *)
(* makes AllocateIP return.                                                *)
THEOREM LoopClimbsThm == Spec => LoopClimbs
<1>1. ASSUME LoopInv, [Next]_vars, ip' # ip
      PROVE  ip \prec ip' /\ Contains(mesh, ip')
  <2>1. result = None /\ InLoop(ip) /\ ip' = Inc(ip)
    BY <1>1 DEF Next, Take, Skip, Exhaust, vars
  <2>2. /\ mesh \in Network /\ ip \in Address /\ LastAddr(mesh) \in Address
        /\ ip \prec LastAddr(mesh) /\ Searched
    BY <1>1, <2>1, AtHost
  <2>3. Inc(ip) \in Address /\ mesh.ip \in Address /\ ip \prec Inc(ip)
    BY <2>2, Carry, LastTyped, IncAbove
  <2>4. mesh.ip \prec Inc(ip)
    BY <2>2, <2>3, Transitive DEF Searched
  <2>5. ~(LastAddr(mesh) \prec Inc(ip))
    BY <2>2, IncNext, Asymmetric
  <2>6. Contains(mesh, Inc(ip))
    BY <2>2, <2>3, <2>4, <2>5, Asymmetric, BetweenContained
  <2> QED
    BY <2>1, <2>3, <2>6
<1>2. LoopInv /\ [Next]_vars => [ip' # ip => ip \prec ip' /\ Contains(mesh, ip')]_vars
  BY <1>1
<1> QED
  BY <1>2, LoopInductive, PTL DEF Spec, LoopClimbs
=============================================================================
