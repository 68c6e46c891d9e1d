-------------------------- MODULE CommandLineProofs --------------------------
(***************************************************************************)
(* main understands every command line the way it is written: whatever the *)
(* number of arguments and their order, the loop that reads them one after *)
(* the other gives each the role it has, and whatever wraps in between, a  *)
(* size is the number it spells, modulo size_t.                            *)
(***************************************************************************)
EXTENDS CommandLine, Integers, FiniteSetTheorems, WellFoundedInduction, TLAPS

(* A set of numbers with 0 that has the successors of its members has all. *)
LEMMA Induction ==
  ASSUME NEW T \in SUBSET Nat, 0 \in T, \A n \in T : n + 1 \in T
  PROVE  T = Nat
<1> SUFFICES ASSUME Nat \ T # {} PROVE FALSE
  OBVIOUS
<1>1. \A x, y \in Nat : <<y, x>> \in OpToRel(<, Nat) <=> y < x
  BY DEF OpToRel
<1>2. \E x \in Nat \ T : \A y \in Nat \ T : ~(<<y, x>> \in OpToRel(<, Nat))
  BY NatLessThanWellFounded, WFMin
<1> PICK n \in Nat \ T : \A m \in Nat \ T : ~(m < n)
  BY <1>1, <1>2
<1>3. n - 1 \in Nat /\ n - 1 < n /\ (n - 1) + 1 = n
  OBVIOUS
<1> QED BY <1>3

-----------------------------------------------------------------------------
(***************************************************************************)
(* Sizes: what wraps at every digit and every unit is the number modulo    *)
(* size_t.                                                                 *)
(***************************************************************************)
LEMMA Division ==
  ASSUME NEW x \in Nat, NEW n \in Nat \ {0}
  PROVE  /\ x \div n \in Nat /\ x % n \in 0 .. (n - 1)
         /\ x = n * (x \div n) + (x % n)
OBVIOUS

(* A quotient and a remainder are those of the division. *)
LEMMA RemainderOnly ==
  ASSUME NEW n \in Nat \ {0}, NEW q \in Nat, NEW r \in 0 .. (n - 1)
  PROVE  (n * q + r) % n = r
<1> DEFINE x == n * q + r
           p == x \div n
           t == x % n
<1>1. x \in Nat
  OBVIOUS
<1>2. p \in Nat /\ t \in 0 .. (n - 1) /\ x = n * p + t
  <2> HIDE DEF x
  <2> QED BY <1>1, Division
<1> HIDE DEF p, t
<1>3. n * p + t = n * q + r
  BY <1>2
<1>4. CASE p = q
  BY <1>2, <1>3, <1>4 DEF t
<1>5. ASSUME NEW d \in Nat \ {0} PROVE n * d >= n /\ n * d \in Nat
  <2>1. d - 1 \in Nat /\ n * (d - 1) \in Nat
    OBVIOUS
  <2>2. n * d = n * (d - 1) + n
    OBVIOUS
  <2> QED BY <2>1, <2>2
<1>6. CASE p > q
  <2>1. p - q \in Nat \ {0}
    BY <1>2, <1>6
  <2>2. n * p = n * q + n * (p - q)
    BY <1>2
  <2>3. n * (p - q) >= n /\ n * (p - q) \in Nat
    BY <1>5, <2>1
  <2> DEFINE a == n * q
             b == n * (p - q)
             c == n * p
  <2>4. a \in Nat /\ b \in Nat /\ b >= n /\ c = a + b /\ c + t = a + r
    BY <1>2, <1>3, <2>2, <2>3
  <2> HIDE DEF a, b, c
  <2> QED BY <1>2, <2>4
<1>7. CASE q > p
  <2>1. q - p \in Nat \ {0}
    BY <1>2, <1>7
  <2>2. n * q = n * p + n * (q - p)
    BY <1>2
  <2>3. n * (q - p) >= n /\ n * (q - p) \in Nat
    BY <1>5, <2>1
  <2> DEFINE a == n * p
             b == n * (q - p)
             c == n * q
  <2>4. a \in Nat /\ b \in Nat /\ b >= n /\ c = a + b /\ a + t = c + r
    BY <1>2, <1>3, <2>2, <2>3
  <2> HIDE DEF a, b, c
  <2> QED BY <1>2, <2>4
<1> QED BY <1>2, <1>4, <1>6, <1>7

(* What wraps in between does not matter to a product and a sum. *)
LEMMA WrapsOnce ==
  \A n \in Nat \ {0} : \A x, c, d \in Nat : ((x % n) * c + d) % n = (x * c + d) % n
<1> TAKE n \in Nat \ {0}
<1> TAKE x, c, d \in Nat
<1> DEFINE q == x \div n
           r == x % n
<1>1. q \in Nat /\ r \in Nat /\ x = n * q + r
  BY Division
<1> HIDE DEF q, r
<1> DEFINE y == r * c + d
           p == y \div n
           t == y % n
<1>2. y \in Nat
  BY <1>1
<1>3. p \in Nat /\ t \in 0 .. (n - 1) /\ y = n * p + t
  <2> HIDE DEF y
  <2> QED BY <1>2, Division
<1> HIDE DEF p, t
<1>4. x * c + d = n * (q * c + p) + t
  <2>1. q * c \in Nat /\ r * c \in Nat /\ n * p \in Nat /\ n * (q * c) \in Nat
    BY <1>1, <1>3
  <2>2. x * c = n * (q * c) + r * c
    BY <1>1
  <2>3. n * (q * c + p) = n * (q * c) + n * p
    BY <1>1, <1>3
  <2>4. r * c + d = n * p + t
    BY <1>3
  <2> QED BY <1>3, <2>1, <2>2, <2>3, <2>4
<1>5. (x * c + d) % n = t
  <2>1. q * c + p \in Nat
    BY <1>1, <1>3
  <2> QED BY <1>3, <1>4, <2>1, RemainderOnly
<1> QED BY <1>5 DEF t, r

(* The number in the first n digits. *)
Spells(f, digits, n) ==
  f = [k \in 0 .. n |-> IF k = 0 THEN 0 ELSE f[k - 1] * 10 + digits[k]]

LEMMA SpellsExist == \A digits : \A n \in Nat : \E f : Spells(f, digits, n)
<1> TAKE digits
<1> DEFINE Reached == {n \in Nat : \E f : Spells(f, digits, n)}
<1>1. 0 \in Reached
  <2> DEFINE zero == [k \in 0 .. 0 |-> 0]
  <2>1. zero = [k \in 0 .. 0 |-> IF k = 0 THEN 0 ELSE zero[k - 1] * 10 + digits[k]]
    OBVIOUS
  <2> HIDE DEF zero
  <2> QED BY <2>1 DEF Spells
<1>2. ASSUME NEW n \in Reached PROVE n + 1 \in Reached
  <2> PICK f : Spells(f, digits, n)
    OBVIOUS
  <2> DEFINE last == f[n] * 10 + digits[n + 1]
             g == [k \in 0 .. (n + 1) |-> IF k <= n THEN f[k] ELSE last]
  <2>1. \A k \in 0 .. n : f[k] = IF k = 0 THEN 0 ELSE f[k - 1] * 10 + digits[k]
    BY DEF Spells
  <2>2. (\A k \in 0 .. n : g[k] = f[k]) /\ g[n + 1] = last
    <3> HIDE DEF last
    <3> QED OBVIOUS
  <2>3. g = [k \in 0 .. (n + 1) |-> g[k]]
    <3> HIDE DEF last
    <3> QED OBVIOUS
  <2> HIDE DEF g
  <2>4. \A k \in 0 .. (n + 1) : g[k] = IF k = 0 THEN 0 ELSE g[k - 1] * 10 + digits[k]
    <3> TAKE k \in 0 .. (n + 1)
    <3>1. CASE k = 0
      <4>1. k \in 0 .. n
        BY <3>1
      <4> QED BY <2>1, <2>2, <3>1, <4>1
    <3>2. CASE k # 0 /\ k \in 0 .. n
      <4>1. k - 1 \in 0 .. n
        BY <3>2
      <4> QED BY <2>1, <2>2, <3>2, <4>1
    <3>3. CASE k = n + 1
      <4>1. k # 0 /\ k - 1 = n /\ n \in 0 .. n
        BY <3>3
      <4> QED BY <2>2, <3>3, <4>1
    <3> QED BY <3>1, <3>2, <3>3
  <2>5. Spells(g, digits, n + 1)
    BY <2>3, <2>4 DEF Spells
  <2> QED BY <2>5
<1>3. Reached = Nat
  <2> HIDE DEF Reached
  <2>1. Reached \in SUBSET Nat
    BY DEF Reached
  <2> QED BY <1>1, <1>2, <2>1, Induction
<1> QED BY <1>3

(* Digits is that number, modulo size_t. *)
LEMMA DigitsRead ==
  ASSUME NEW digits \in Seq(0 .. 9), NEW f, Spells(f, digits, Len(digits))
  PROVE  f[Len(digits)] \in Nat /\ Digits(digits) = f[Len(digits)] % MODULUS
<1> DEFINE length == Len(digits)
           Wraps(g) == g = [n \in 0 .. length |->
                              IF n = 0 THEN 0 ELSE (g[n - 1] * 10 + digits[n]) % MODULUS]
           wrapped == [n \in 0 .. length |-> f[n] % MODULUS]
<1>1. length \in Nat /\ \A n \in 1 .. length : digits[n] \in Nat
  OBVIOUS
<1>2. MODULUS \in Nat \ {0} /\ 0 % MODULUS = 0
  BY CommandLinesAssumption
<1> HIDE DEF length
<1>3. \A n \in 0 .. length : f[n] = IF n = 0 THEN 0 ELSE f[n - 1] * 10 + digits[n]
  BY DEF Spells, length
<1>4. \A n \in 0 .. length : f[n] \in Nat
  <2> DEFINE Known == {n \in Nat : n \in 0 .. length => f[n] \in Nat}
  <2>1. 0 \in Known
    BY <1>1, <1>3
  <2>2. ASSUME NEW n \in Known PROVE n + 1 \in Known
    <3> SUFFICES ASSUME n + 1 \in 0 .. length PROVE f[n + 1] \in Nat
      OBVIOUS
    <3>1. n \in 0 .. length /\ n + 1 \in 1 .. length /\ n + 1 # 0 /\ (n + 1) - 1 = n
      BY <1>1
    <3>2. f[n] \in Nat /\ digits[n + 1] \in Nat /\ f[n + 1] = f[n] * 10 + digits[n + 1]
      BY <1>1, <1>3, <3>1
    <3> QED BY <3>2
  <2>3. Known = Nat
    <3> HIDE DEF Known
    <3>1. Known \in SUBSET Nat
      BY DEF Known
    <3> QED BY <2>1, <2>2, <3>1, Induction
  <2> TAKE n \in 0 .. length
  <2>4. n \in Known
    <3> HIDE DEF Known
    <3> QED BY <1>1, <2>3
  <2> QED BY <2>4
<1>5. \A n \in 1 .. length :
        ((f[n - 1] % MODULUS) * 10 + digits[n]) % MODULUS = f[n] % MODULUS
  <2> TAKE n \in 1 .. length
  <2>1. n - 1 \in 0 .. length /\ n \in 0 .. length /\ n # 0
    BY <1>1
  <2>2. f[n - 1] \in Nat /\ digits[n] \in Nat /\ f[n] = f[n - 1] * 10 + digits[n]
    BY <1>1, <1>3, <1>4, <2>1
  <2>3. 10 \in Nat
    OBVIOUS
  <2>4. ((f[n - 1] % MODULUS) * 10 + digits[n]) % MODULUS = (f[n - 1] * 10 + digits[n]) % MODULUS
    BY <1>2, <2>2, <2>3, WrapsOnce, Zenon
  <2> QED BY <2>2, <2>4, Zenon
<1>6. Wraps(wrapped)
  <2>1. \A n \in 0 .. length :
          wrapped[n] = IF n = 0 THEN 0 ELSE (wrapped[n - 1] * 10 + digits[n]) % MODULUS
    <3> TAKE n \in 0 .. length
    <3>1. CASE n = 0
      BY <1>2, <1>3, <3>1
    <3>2. CASE n # 0
      <4>1. n - 1 \in 0 .. length /\ n \in 1 .. length
        BY <1>1, <3>2
      <4>2. wrapped[n] = f[n] % MODULUS /\ wrapped[n - 1] = f[n - 1] % MODULUS
        BY <4>1
      <4> HIDE DEF wrapped
      <4> QED BY <1>5, <3>2, <4>1, <4>2
    <3> QED BY <3>1, <3>2
  <2>2. wrapped = [n \in 0 .. length |-> wrapped[n]]
    OBVIOUS
  <2> HIDE DEF wrapped
  <2> QED BY <2>1, <2>2
<1> DEFINE value == CHOOSE g : Wraps(g)
<1>7. Wraps(value)
  <2> HIDE DEF Wraps, wrapped
  <2> QED BY <1>6
<1>8. Digits(digits) = value[length]
  BY DEF Digits, length
<1> HIDE DEF value
<1>9. \A n \in 0 .. length :
        value[n] = IF n = 0 THEN 0 ELSE (value[n - 1] * 10 + digits[n]) % MODULUS
  BY <1>7
<1> HIDE DEF Wraps, wrapped
<1>10. value[length] = f[length] % MODULUS
  <2> DEFINE Known == {n \in Nat : n \in 0 .. length => value[n] = f[n] % MODULUS}
  <2>1. 0 \in Known
    BY <1>1, <1>2, <1>3, <1>9
  <2>2. ASSUME NEW n \in Known PROVE n + 1 \in Known
    <3> SUFFICES ASSUME n + 1 \in 0 .. length PROVE value[n + 1] = f[n + 1] % MODULUS
      OBVIOUS
    <3>1. n \in 0 .. length /\ n + 1 \in 1 .. length /\ n + 1 # 0 /\ (n + 1) - 1 = n
      BY <1>1
    <3>2. value[n] = f[n] % MODULUS
      BY <3>1
    <3>3. value[n + 1] = ((f[n] % MODULUS) * 10 + digits[n + 1]) % MODULUS
      BY <1>9, <3>1, <3>2
    <3> QED BY <1>5, <3>1, <3>3
  <2>3. Known = Nat
    <3> HIDE DEF Known
    <3>1. Known \in SUBSET Nat
      BY DEF Known
    <3> QED BY <2>1, <2>2, <3>1, Induction
  <2>4. length \in Known /\ length \in 0 .. length
    <3> HIDE DEF Known
    <3> QED BY <1>1, <2>3
  <2> QED BY <2>4
<1>11. length \in 0 .. length
  BY <1>1
<1> QED BY <1>4, <1>8, <1>10, <1>11 DEF length

(* A unit more. *)
LEMMA TimesRead ==
  ASSUME NEW x \in Nat
  PROVE  Times(x % MODULUS) = (x * KILO) % MODULUS /\ x * KILO \in Nat
<1>1. MODULUS \in Nat \ {0} /\ KILO \in Nat
  BY CommandLinesAssumption
<1>2. ((x % MODULUS) * KILO + 0) % MODULUS = (x * KILO + 0) % MODULUS
  <2>1. 0 \in Nat
    OBVIOUS
  <2> QED BY <1>1, <2>1, WrapsOnce, Zenon
<1>3. x * KILO \in Nat /\ (x % MODULUS) * KILO \in Nat
  <2>1. x % MODULUS \in Nat
    BY <1>1, Division
  <2> QED BY <1>1, <2>1
<1>4. x * KILO + 0 = x * KILO /\ (x % MODULUS) * KILO + 0 = (x % MODULUS) * KILO
  BY <1>3
<1> QED BY <1>2, <1>3, <1>4 DEF Times

LEMMA SizeRead ==
  ASSUME NEW a \in Argument, IsSize(a)
  PROVE  parse_size(a) = Number(a) % MODULUS
<1>1. a.digits \in Seq(0 .. 9) /\ a.behind \in {"end", "k", "m", "g"}
  BY DEF Argument, IsSize
<1> DEFINE f == CHOOSE g : Spells(g, a.digits, Len(a.digits))
           x == f[Len(a.digits)]
<1>2. Spells(f, a.digits, Len(a.digits))
  <2>1. Len(a.digits) \in Nat
    BY <1>1
  <2> HIDE DEF Spells
  <2> QED BY <2>1, SpellsExist
<1>3. Number(a) = x * Factor[a.behind]
  BY DEF Number, Spells
<1> HIDE DEF f
<1>4. x \in Nat /\ Digits(a.digits) = x % MODULUS
  BY <1>1, <1>2, DigitsRead
<1> HIDE DEF x
<1>5. parse_size(a) = Scaled(x % MODULUS, a.behind)
  BY <1>4 DEF parse_size
<1>6. /\ Times(x % MODULUS) = (x * KILO) % MODULUS
      /\ Times(Times(x % MODULUS)) = ((x * KILO) * KILO) % MODULUS
      /\ Times(Times(Times(x % MODULUS))) = (((x * KILO) * KILO) * KILO) % MODULUS
  <2>1. Times(x % MODULUS) = (x * KILO) % MODULUS /\ x * KILO \in Nat
    BY <1>4, TimesRead
  <2> DEFINE y == x * KILO
  <2> HIDE DEF y
  <2>2. y \in Nat /\ Times(x % MODULUS) = y % MODULUS
    BY <2>1 DEF y
  <2>3. Times(y % MODULUS) = (y * KILO) % MODULUS /\ y * KILO \in Nat
    BY <2>2, TimesRead
  <2> DEFINE z == y * KILO
  <2> HIDE DEF z
  <2>4. z \in Nat /\ Times(y % MODULUS) = z % MODULUS
    BY <2>3 DEF z
  <2>5. Times(z % MODULUS) = (z * KILO) % MODULUS
    BY <2>4, TimesRead
  <2> QED BY <2>2, <2>4, <2>5 DEF y, z
<1>7. /\ x * 1 = x /\ (x * KILO) * KILO = x * (KILO * KILO)
      /\ ((x * KILO) * KILO) * KILO = x * (KILO * KILO * KILO)
  BY <1>4, CommandLinesAssumption
<1>8. CASE a.behind = "end"
  BY <1>3, <1>5, <1>7, <1>8 DEF Scaled, Factor
<1>9. CASE a.behind = "k"
  BY <1>3, <1>5, <1>6, <1>9 DEF Scaled, Factor
<1>10. CASE a.behind = "m"
  BY <1>3, <1>5, <1>6, <1>7, <1>10 DEF Scaled, Factor
<1>11. CASE a.behind = "g"
  BY <1>3, <1>5, <1>6, <1>7, <1>11 DEF Scaled, Factor
<1> QED BY <1>1, <1>8, <1>9, <1>10, <1>11

-----------------------------------------------------------------------------
(***************************************************************************)
(* The roles.                                                              *)
(***************************************************************************)
RoleAt(role, n) ==
  CASE n > 1 /\ argv[n - 1].option \in Sizes /\ role[n - 1] = "option" -> "size"
    [] OTHER ->
         IF argv[n].option = "none" \/ \E m \in 1 .. (n - 1) : role[m] = "separator"
         THEN "file"
         ELSE IF argv[n].option = "separator" THEN "separator" ELSE "option"

(* A role depends on those in front. *)
LEMMA RoleDepends ==
  ASSUME NEW f, NEW g, NEW n \in Nat, \A m \in 1 .. (n - 1) : f[m] = g[m]
  PROVE  RoleAt(f, n) = RoleAt(g, n)
<1>1. n > 1 => n - 1 \in 1 .. (n - 1)
  OBVIOUS
<1>2. n > 1 => f[n - 1] = g[n - 1]
  BY <1>1
<1>3. (\E m \in 1 .. (n - 1) : f[m] = "separator") <=> (\E m \in 1 .. (n - 1) : g[m] = "separator")
  OBVIOUS
<1>4. CASE n > 1
  BY <1>2, <1>3, <1>4, Zenon DEF RoleAt
<1>5. CASE ~(n > 1)
  BY <1>3, <1>5, Zenon DEF RoleAt
<1> QED BY <1>4, <1>5

Assigns(f, n) == f = [k \in 1 .. n |-> RoleAt(f, k)]

LEMMA RolesExist == \A n \in Nat : \E f : Assigns(f, n)
<1> DEFINE Reached == {n \in Nat : \E f : Assigns(f, n)}
<1>1. 0 \in Reached
  <2>1. Assigns([k \in 1 .. 0 |-> k], 0)
    BY DEF Assigns
  <2> QED BY <2>1
<1>2. ASSUME NEW n \in Reached PROVE n + 1 \in Reached
  <2> PICK f : Assigns(f, n)
    OBVIOUS
  <2> DEFINE g == [k \in 1 .. (n + 1) |-> IF k <= n THEN f[k] ELSE RoleAt(f, k)]
  <2>1. \A k \in 1 .. n : f[k] = RoleAt(f, k)
    BY DEF Assigns
  <2>2. \A k \in 1 .. n : g[k] = f[k]
    OBVIOUS
  <2>3. g[n + 1] = RoleAt(f, n + 1)
    OBVIOUS
  <2>4. \A k \in 1 .. (n + 1) : g[k] = RoleAt(g, k)
    <3> TAKE k \in 1 .. (n + 1)
    <3>1. RoleAt(f, k) = RoleAt(g, k)
      <4>1. \A m \in 1 .. (k - 1) : m \in 1 .. n
        OBVIOUS
      <4>2. \A m \in 1 .. (k - 1) : f[m] = g[m]
        BY <2>2, <4>1
      <4>3. k \in Nat
        OBVIOUS
      <4> HIDE DEF g
      <4> QED BY <4>2, <4>3, RoleDepends
    <3>2. k \in 1 .. n \/ k = n + 1
      OBVIOUS
    <3> HIDE DEF g
    <3> QED BY <2>1, <2>2, <2>3, <3>1, <3>2
  <2>5. g = [k \in 1 .. (n + 1) |-> g[k]]
    OBVIOUS
  <2> HIDE DEF g
  <2>6. Assigns(g, n + 1)
    BY <2>4, <2>5 DEF Assigns
  <2> QED BY <2>6
<1>3. Reached = Nat
  <2> HIDE DEF Reached
  <2>1. Reached \in SUBSET Nat
    BY DEF Reached
  <2> QED BY <1>1, <1>2, <2>1, Induction
<1> QED BY <1>3

(* Command lines are sequences of arguments. *)
LEMMA ArgumentsTyped ==
  ASSUME argv \in CommandLines
  PROVE  /\ Len(argv) \in Nat /\ DOMAIN argv = 1 .. Len(argv)
         /\ \A n \in 1 .. Len(argv) : argv[n].option \in Options \cup {"none"}
         /\ \A n \in 1 .. Len(argv) : argv[n] \in Argument
<1>1. argv \in Seq(Argument)
  BY CommandLinesAssumption
<1>2. \A n \in 1 .. Len(argv) : argv[n] \in Argument
  BY <1>1
<1>3. \A a \in Argument : a.option \in Options \cup {"none"}
  BY DEF Argument
<1> QED BY <1>1, <1>2, <1>3

LEMMA RolesAre ==
  ASSUME argv \in CommandLines
  PROVE  /\ DOMAIN Roles = 1 .. Len(argv)
         /\ \A n \in 1 .. Len(argv) : Roles[n] = RoleAt(Roles, n)
<1>1. Len(argv) \in Nat /\ DOMAIN argv = 1 .. Len(argv)
  BY ArgumentsTyped
<1>2. Roles = CHOOSE f : Assigns(f, Len(argv))
  BY <1>1 DEF Roles, Assigns, RoleAt
<1>3. Assigns(Roles, Len(argv))
  <2>1. \E f : Assigns(f, Len(argv))
    BY <1>1, RolesExist
  <2> QED BY <1>2, <2>1
<1> QED BY <1>3 DEF Assigns

-----------------------------------------------------------------------------
(***************************************************************************)
(* The invariant: what has been read is understood.                        *)
(***************************************************************************)
Seen(role) == { n \in With(role) : n < i }

(* The last of the options for a measure, and of the sizes, in a set.      *)
MeasureOf(S) ==
  LET given == { n \in S : argv[n].option \in Entropy }
  IN  IF given = {} THEN "none" ELSE argv[LastOf(given)].option

SizeOf(S, option) ==
  LET given == { n \in S : argv[n - 1].option = option }
  IN  IF given = {} THEN Defaults[option] ELSE parse_size(argv[LastOf(given)])

Defective(options, files, numbers) ==
  \/ \E n \in options : argv[n].option = "unknown"
  \/ \E m, n \in files : m # n
  \/ \E n \in numbers : ~IsSize(argv[n])
  \/ \E n \in options : argv[n].option \in Sizes /\ n = Len(argv)

(* The loop stands on an argument that is not the size of the one before.  *)
Loop ==
  /\ argv \in CommandLines
  /\ i \in 1 .. (Len(argv) + 1)
  /\ i <= Len(argv) => Roles[i] # "size"
  /\ outcome # "reading" => i = Len(argv) + 1

Understood ==
  /\ path_separator \in BOOLEAN /\ user_error \in BOOLEAN
  /\ path_separator <=> Seen("separator") # {}
  /\ flags = { option \in Flags : \E n \in Seen("option") : argv[n].option = option }
  /\ entropy_measure = MeasureOf(Seen("option"))
  /\ sizes = [option \in Sizes |-> SizeOf(Seen("size"), option)]
  /\ IF Seen("file") = {} THEN input_file = 0 ELSE input_file \in Seen("file")
  /\ user_error <=> Defective(Seen("option"), Seen("file"), Seen("size"))

Decided ==
  outcome # "reading" =>
    outcome = CASE "help" \in flags -> "help"
                [] "version" \in flags /\ "help" \notin flags -> "version"
                [] "help" \notin flags /\ "version" \notin flags ->
                     IF user_error \/ input_file = 0 THEN "exit_2" ELSE "load"

CInv == Loop /\ Understood /\ Decided

-----------------------------------------------------------------------------
(* Who is the size of an option, and what the others are.                  *)
LEMMA SizeRole ==
  ASSUME argv \in CommandLines, NEW n \in 1 .. Len(argv)
  PROVE  Roles[n] = "size" <=> n > 1 /\ argv[n - 1].option \in Sizes /\ Roles[n - 1] = "option"
<1> DEFINE roles == Roles
<1>1. Roles[n] = RoleAt(Roles, n)
  BY RolesAre
<1> HIDE DEF roles
<1>2. RoleAt(roles, n) = "size" <=> n > 1 /\ argv[n - 1].option \in Sizes /\ roles[n - 1] = "option"
  <2>1. CASE n > 1 /\ argv[n - 1].option \in Sizes /\ roles[n - 1] = "option"
    <3>1. RoleAt(roles, n) = "size"
      BY <2>1 DEF RoleAt
    <3> QED BY <2>1, <3>1
  <2>2. CASE ~(n > 1 /\ argv[n - 1].option \in Sizes /\ roles[n - 1] = "option")
    <3>1. RoleAt(roles, n) \in {"file", "separator", "option"}
      BY <2>2 DEF RoleAt
    <3> QED BY <2>2, <3>1
  <2> QED BY <2>1, <2>2
<1> QED BY <1>1, <1>2 DEF roles

LEMMA OtherRole ==
  ASSUME argv \in CommandLines, NEW n \in 1 .. Len(argv), Roles[n] # "size"
  PROVE  Roles[n] = IF argv[n].option = "none" \/ \E m \in 1 .. (n - 1) : Roles[m] = "separator"
                    THEN "file"
                    ELSE IF argv[n].option = "separator" THEN "separator" ELSE "option"
<1> DEFINE roles == Roles
<1>1. Roles[n] = RoleAt(Roles, n)
  BY RolesAre
<1>2. ~(n > 1 /\ argv[n - 1].option \in Sizes /\ Roles[n - 1] = "option")
  BY SizeRole
<1> HIDE DEF roles
<1>3. RoleAt(roles, n) =
        IF argv[n].option = "none" \/ \E m \in 1 .. (n - 1) : roles[m] = "separator"
        THEN "file"
        ELSE IF argv[n].option = "separator" THEN "separator" ELSE "option"
  BY <1>2 DEF RoleAt, roles
<1> QED BY <1>1, <1>3 DEF roles

(* The last of a set that gets a new last element. *)
LEMMA LastIs ==
  ASSUME NEW S \in SUBSET Nat, NEW m \in S, \A n \in S : n <= m
  PROVE  LastOf(S) = m
<1>1. \A n \in S : (\A k \in S : k <= n) => n = m
  OBVIOUS
<1> QED BY <1>1 DEF LastOf

(* Some arguments have a last one. *)
LEMMA LastIn ==
  ASSUME NEW length \in Nat, NEW S \in SUBSET (1 .. length), S # {}
  PROVE  LastOf(S) \in S
<1> DEFINE HasLast(T) == \E n \in T : \A m \in T : m <= n
           Known == {k \in Nat : \A T \in SUBSET (1 .. k) : T # {} => HasLast(T)}
<1>1. 0 \in Known
  <2>1. \A T \in SUBSET (1 .. 0) : T = {}
    OBVIOUS
  <2> HIDE DEF HasLast
  <2> QED BY <2>1
<1>2. ASSUME NEW k \in Known PROVE k + 1 \in Known
  <2> SUFFICES ASSUME NEW T \in SUBSET (1 .. (k + 1)), T # {} PROVE HasLast(T)
    OBVIOUS
  <2>1. CASE k + 1 \in T
    <3>1. \A m \in T : m <= k + 1
      OBVIOUS
    <3> QED BY <2>1, <3>1
  <2>2. CASE k + 1 \notin T
    <3>1. T \in SUBSET (1 .. k)
      BY <2>2
    <3> QED BY <3>1
  <2> QED BY <2>1, <2>2
<1>3. Known = Nat
  <2> HIDE DEF Known
  <2>1. Known \in SUBSET Nat
    BY DEF Known
  <2> QED BY <1>1, <1>2, <2>1, Induction
<1>4. HasLast(S)
  <2>1. length \in Known
    <3> HIDE DEF Known
    <3> QED BY <1>3
  <2> QED BY <2>1
<1> QED BY <1>4, Zenon DEF LastOf

LEMMA MeasureMore ==
  ASSUME NEW S \in SUBSET Nat, NEW m \in Nat, \A n \in S : n < m
  PROVE  MeasureOf(S \cup {m}) =
           IF argv[m].option \in Entropy THEN argv[m].option ELSE MeasureOf(S)
<1> DEFINE given == { n \in S \cup {m} : argv[n].option \in Entropy }
<1>1. CASE argv[m].option \in Entropy
  <2>1. given \in SUBSET Nat /\ m \in given /\ \A n \in given : n <= m
    <3>1. \A n \in S \cup {m} : n \in Nat /\ n <= m
      OBVIOUS
    <3>2. m \in given /\ given \subseteq S \cup {m}
      BY <1>1, Zenon
    <3> HIDE DEF given
    <3> QED BY <3>1, <3>2
  <2> HIDE DEF given
  <2>2. LastOf(given) = m /\ given # {}
    BY <2>1, LastIs
  <2> QED BY <1>1, <2>2 DEF MeasureOf, given
<1>2. CASE argv[m].option \notin Entropy
  <2>1. given = { n \in S : argv[n].option \in Entropy }
    BY <1>2
  <2> QED BY <1>2, <2>1 DEF MeasureOf
<1> QED BY <1>1, <1>2

LEMMA SizeMore ==
  ASSUME NEW S \in SUBSET Nat, NEW m \in Nat, \A n \in S : n < m, NEW option
  PROVE  SizeOf(S \cup {m}, option) =
           IF argv[m - 1].option = option THEN parse_size(argv[m]) ELSE SizeOf(S, option)
<1> DEFINE given == { n \in S \cup {m} : argv[n - 1].option = option }
<1>1. CASE argv[m - 1].option = option
  <2>1. given \in SUBSET Nat /\ m \in given /\ \A n \in given : n <= m
    <3>1. \A n \in S \cup {m} : n \in Nat /\ n <= m
      OBVIOUS
    <3>2. m \in given /\ given \subseteq S \cup {m}
      BY <1>1, Zenon
    <3> HIDE DEF given
    <3> QED BY <3>1, <3>2
  <2> HIDE DEF given
  <2>2. LastOf(given) = m /\ given # {}
    BY <2>1, LastIs
  <2> QED BY <1>1, <2>2 DEF SizeOf, given
<1>2. CASE argv[m - 1].option # option
  <2>1. given = { n \in S : argv[n - 1].option = option }
    BY <1>2
  <2> QED BY <1>2, <2>1 DEF SizeOf
<1> QED BY <1>1, <1>2

-----------------------------------------------------------------------------
(* What is said of the arguments does not change.                          *)
LEMMA SameLine ==
  ASSUME argv' = argv
  PROVE  /\ Roles' = Roles
         /\ \A role : With(role)' = With(role)
         /\ \A role : Seen(role)' = { n \in With(role) : n < i' }
         /\ MeasureOf(Seen("option"))' = MeasureOf(Seen("option")')
         /\ \A option : SizeOf(Seen("size"), option)' = SizeOf(Seen("size")', option)
         /\ Defective(Seen("option"), Seen("file"), Seen("size"))'
              <=> Defective(Seen("option")', Seen("file")', Seen("size")')
<1>1. Roles' = Roles
  BY DEF Roles
<1>2. \A role : With(role)' = With(role)
  BY <1>1 DEF With
<1>3. \A role : Seen(role)' = { n \in With(role) : n < i' }
  BY <1>2 DEF Seen
<1>4. MeasureOf(Seen("option"))' = MeasureOf(Seen("option")')
  BY DEF MeasureOf
<1>5. \A option : SizeOf(Seen("size"), option)' = SizeOf(Seen("size")', option)
  BY DEF SizeOf
<1>6. Defective(Seen("option"), Seen("file"), Seen("size"))'
        <=> Defective(Seen("option")', Seen("file")', Seen("size")')
  BY DEF Defective
<1> QED BY <1>1, <1>2, <1>3, <1>4, <1>5, <1>6

LEMMA WithIs ==
  ASSUME argv \in CommandLines
  PROVE  \A role : \A n : n \in With(role) <=> n \in 1 .. Len(argv) /\ Roles[n] = role
BY ArgumentsTyped DEF With

(* What has been seen is in front. *)
LEMMA SeenIs ==
  ASSUME Loop
  PROVE  \A role : /\ Seen(role) \in SUBSET Nat /\ \A n \in Seen(role) : n < i
                   /\ \A n : n \in Seen(role) <=> n \in 1 .. (i - 1) /\ Roles[n] = role
<1>1. Len(argv) \in Nat /\ i \in 1 .. (Len(argv) + 1)
  BY ArgumentsTyped DEF Loop
<1> QED BY <1>1, WithIs DEF Seen, Loop

(* One argument more, and a size with its option. *)
LEMMA OneMore ==
  ASSUME Loop, i <= Len(argv), argv' = argv, i' = i + 1
  PROVE  \A role : Seen(role)' = IF Roles[i] = role THEN Seen(role) \cup {i} ELSE Seen(role)
<1>1. Len(argv) \in Nat /\ i \in 1 .. Len(argv)
  BY ArgumentsTyped DEF Loop
<1>2. argv \in CommandLines
  BY DEF Loop
<1> TAKE role
<1>3. \A n : n \in Seen(role)' <=> n \in With(role) /\ n < i + 1
  BY SameLine
<1>4. \A n \in 1 .. Len(argv) : n < i + 1 <=> n < i \/ n = i
  BY <1>1
<1>5. \A n : n \in Seen(role)' <=> n \in Seen(role) \/ (n = i /\ Roles[i] = role)
  BY <1>1, <1>2, <1>3, <1>4, WithIs DEF Seen
<1> HIDE DEF Seen
<1> QED BY <1>5

LEMMA TwoMore ==
  ASSUME Loop, i < Len(argv), argv' = argv, i' = i + 2, Roles[i] = "option", Roles[i + 1] = "size"
  PROVE  /\ Seen("option")' = Seen("option") \cup {i}
         /\ Seen("size")' = Seen("size") \cup {i + 1}
         /\ \A role : role \notin {"option", "size"} => Seen(role)' = Seen(role)
<1>1. Len(argv) \in Nat /\ i \in 1 .. Len(argv) /\ i + 1 \in 1 .. Len(argv)
  BY ArgumentsTyped DEF Loop
<1>2. argv \in CommandLines
  BY DEF Loop
<1>3. \A role : \A n : n \in Seen(role)' <=> n \in With(role) /\ n < i + 2
  BY SameLine
<1>4. \A n \in 1 .. Len(argv) : n < i + 2 <=> n < i \/ n = i \/ n = i + 1
  BY <1>1
<1>5. \A role : \A n : n \in Seen(role)' <=>
                         n \in Seen(role) \/ (n \in {i, i + 1} /\ Roles[n] = role)
  BY <1>1, <1>2, <1>3, <1>4, WithIs DEF Seen
<1>6. Seen("option")' = Seen("option") \cup {i}
  BY <1>5
<1>7. Seen("size")' = Seen("size") \cup {i + 1}
  BY <1>5
<1>8. ASSUME NEW role, role \notin {"option", "size"} PROVE Seen(role)' = Seen(role)
  BY <1>5, <1>8
<1> QED BY <1>6, <1>7, <1>8

(* The role of the argument that is read. *)
LEMMA RoleRead ==
  ASSUME Loop, Understood, i <= Len(argv)
  PROVE  Roles[i] = IF argv[i].option = "none" \/ path_separator THEN "file"
                    ELSE IF argv[i].option = "separator" THEN "separator" ELSE "option"
<1>1. i \in 1 .. Len(argv) /\ Roles[i] # "size" /\ argv \in CommandLines
  BY ArgumentsTyped DEF Loop
<1>2. path_separator <=> \E m \in 1 .. (i - 1) : Roles[m] = "separator"
  BY SeenIs DEF Understood
<1> QED BY <1>1, <1>2, OtherRole

(* The next argument is no size, unless the one read is an option for one. *)
LEMMA LoopMoves ==
  ASSUME Loop, i <= Len(argv), argv' = argv, i' = i + 1, outcome' = outcome, outcome = "reading",
         i < Len(argv) => ~(argv[i].option \in Sizes /\ Roles[i] = "option")
  PROVE  Loop'
<1>1. Len(argv) \in Nat /\ i \in 1 .. Len(argv) /\ argv \in CommandLines
  BY ArgumentsTyped DEF Loop
<1>2. i + 1 <= Len(argv) => Roles[i + 1] # "size"
  <2> SUFFICES ASSUME i + 1 <= Len(argv) PROVE Roles[i + 1] # "size"
    OBVIOUS
  <2>1. i + 1 \in 1 .. Len(argv) /\ (i + 1) - 1 = i /\ i < Len(argv)
    BY <1>1
  <2> QED BY <1>1, <2>1, SizeRole
<1> QED BY <1>1, <1>2, SameLine DEF Loop

LEMMA FlagKeeps ==
  ASSUME CInv, NEW option \in Flags, Flag(option)
  PROVE  CInv'
<1>1. /\ argv' = argv /\ i' = i + 1 /\ flags' = flags \cup {option} /\ outcome = "reading"
      /\ i <= Len(argv) /\ ~path_separator /\ argv[i].option = option
      /\ UNCHANGED <<input_file, entropy_measure, sizes, path_separator, user_error, outcome>>
  BY DEF Flag, Reads, Current
<1>2. Loop /\ Understood /\ i \in Nat
  BY ArgumentsTyped DEF CInv, Loop
<1>3. option \notin Sizes \cup Entropy \cup {"separator", "unknown", "none"}
  BY DEF Flags, Sizes, Entropy
<1>4. Roles[i] = "option"
  BY <1>1, <1>2, <1>3, RoleRead
<1>5. Loop'
  BY <1>1, <1>2, <1>3, LoopMoves
<1>6. /\ Seen("option")' = Seen("option") \cup {i} /\ Seen("size")' = Seen("size")
      /\ Seen("file")' = Seen("file") /\ Seen("separator")' = Seen("separator")
  BY <1>1, <1>2, <1>4, OneMore
<1>7. Seen("option") \in SUBSET Nat /\ \A n \in Seen("option") : n < i
  BY <1>2, SeenIs
<1>8. flags' = { o \in Flags : \E n \in Seen("option")' : argv'[n].option = o }
  BY <1>1, <1>2, <1>6 DEF Understood
<1>9. entropy_measure' = MeasureOf(Seen("option"))'
  BY <1>1, <1>2, <1>3, <1>6, <1>7, MeasureMore, SameLine DEF Understood
<1>10. sizes' = [o \in Sizes |-> SizeOf(Seen("size"), o)']
  BY <1>1, <1>2, <1>6, SameLine DEF Understood
<1>11. user_error' <=> Defective(Seen("option"), Seen("file"), Seen("size"))'
  BY <1>1, <1>2, <1>3, <1>6, SameLine DEF Understood, Defective
<1>12. Understood'
  BY <1>1, <1>2, <1>6, <1>8, <1>9, <1>10, <1>11 DEF Understood
<1> QED BY <1>1, <1>5, <1>12 DEF CInv, Decided

LEMMA MeasureKeeps ==
  ASSUME CInv, NEW option \in Entropy, Measure(option)
  PROVE  CInv'
<1>1. /\ argv' = argv /\ i' = i + 1 /\ entropy_measure' = option /\ outcome = "reading"
      /\ i <= Len(argv) /\ ~path_separator /\ argv[i].option = option
      /\ UNCHANGED <<input_file, flags, sizes, path_separator, user_error, outcome>>
  BY DEF Measure, Reads, Current
<1>2. Loop /\ Understood /\ i \in Nat
  BY ArgumentsTyped DEF CInv, Loop
<1>3. option \notin Sizes \cup Flags \cup {"separator", "unknown", "none"}
  BY DEF Flags, Sizes, Entropy
<1>4. Roles[i] = "option"
  BY <1>1, <1>2, <1>3, RoleRead
<1>5. Loop'
  BY <1>1, <1>2, <1>3, LoopMoves
<1>6. /\ Seen("option")' = Seen("option") \cup {i} /\ Seen("size")' = Seen("size")
      /\ Seen("file")' = Seen("file") /\ Seen("separator")' = Seen("separator")
  BY <1>1, <1>2, <1>4, OneMore
<1>7. Seen("option") \in SUBSET Nat /\ \A n \in Seen("option") : n < i
  BY <1>2, SeenIs
<1>8. flags' = { o \in Flags : \E n \in Seen("option")' : argv'[n].option = o }
  BY <1>1, <1>2, <1>3, <1>6 DEF Understood
<1>9. entropy_measure' = MeasureOf(Seen("option"))'
  BY <1>1, <1>2, <1>6, <1>7, MeasureMore, SameLine
<1>10. sizes' = [o \in Sizes |-> SizeOf(Seen("size"), o)']
  BY <1>1, <1>2, <1>6, SameLine DEF Understood
<1>11. user_error' <=> Defective(Seen("option"), Seen("file"), Seen("size"))'
  BY <1>1, <1>2, <1>3, <1>6, SameLine DEF Understood, Defective
<1>12. Understood'
  BY <1>1, <1>2, <1>6, <1>8, <1>9, <1>10, <1>11 DEF Understood
<1> QED BY <1>1, <1>5, <1>12 DEF CInv, Decided

LEMMA UnknownKeeps ==
  ASSUME CInv, Unknown
  PROVE  CInv'
<1>1. /\ argv' = argv /\ i' = i + 1 /\ user_error' = TRUE /\ outcome = "reading"
      /\ i <= Len(argv) /\ ~path_separator /\ argv[i].option = "unknown"
      /\ UNCHANGED <<input_file, flags, entropy_measure, sizes, path_separator, outcome>>
  BY DEF Unknown, Reads, Current
<1>2. Loop /\ Understood /\ i \in Nat
  BY ArgumentsTyped DEF CInv, Loop
<1>3. "unknown" \notin Sizes \cup Flags \cup Entropy
  BY DEF Flags, Sizes, Entropy
<1>4. Roles[i] = "option"
  BY <1>1, <1>2, RoleRead
<1>5. Loop'
  BY <1>1, <1>2, <1>3, LoopMoves
<1>6. /\ Seen("option")' = Seen("option") \cup {i} /\ Seen("size")' = Seen("size")
      /\ Seen("file")' = Seen("file") /\ Seen("separator")' = Seen("separator")
  BY <1>1, <1>2, <1>4, OneMore
<1>7. Seen("option") \in SUBSET Nat /\ \A n \in Seen("option") : n < i
  BY <1>2, SeenIs
<1>8. flags' = { o \in Flags : \E n \in Seen("option")' : argv'[n].option = o }
  BY <1>1, <1>2, <1>3, <1>6 DEF Understood
<1>9. entropy_measure' = MeasureOf(Seen("option"))'
  BY <1>1, <1>2, <1>3, <1>6, <1>7, MeasureMore, SameLine DEF Understood
<1>10. sizes' = [o \in Sizes |-> SizeOf(Seen("size"), o)']
  BY <1>1, <1>2, <1>6, SameLine DEF Understood
<1>11. Defective(Seen("option"), Seen("file"), Seen("size"))'
  BY <1>1, <1>2, <1>6, SameLine DEF Defective
<1>12. Understood'
  BY <1>1, <1>2, <1>6, <1>8, <1>9, <1>10, <1>11 DEF Understood
<1> QED BY <1>1, <1>5, <1>12 DEF CInv, Decided

LEMMA SeparatorKeeps ==
  ASSUME CInv, Separator
  PROVE  CInv'
<1>1. /\ argv' = argv /\ i' = i + 1 /\ path_separator' = TRUE /\ outcome = "reading"
      /\ i <= Len(argv) /\ ~path_separator /\ argv[i].option = "separator"
      /\ UNCHANGED <<input_file, flags, entropy_measure, sizes, user_error, outcome>>
  BY DEF Separator, Reads, Current
<1>2. Loop /\ Understood /\ i \in Nat
  BY ArgumentsTyped DEF CInv, Loop
<1>3. "separator" \notin Sizes
  BY DEF Sizes
<1>4. Roles[i] = "separator"
  BY <1>1, <1>2, RoleRead
<1>5. Loop'
  BY <1>1, <1>2, <1>3, LoopMoves
<1>6. /\ Seen("option")' = Seen("option") /\ Seen("size")' = Seen("size")
      /\ Seen("file")' = Seen("file") /\ Seen("separator")' = Seen("separator") \cup {i}
  BY <1>1, <1>2, <1>4, OneMore
<1>7. flags' = { o \in Flags : \E n \in Seen("option")' : argv'[n].option = o }
  BY <1>1, <1>2, <1>6 DEF Understood
<1>8. entropy_measure' = MeasureOf(Seen("option"))'
  BY <1>1, <1>2, <1>6, SameLine DEF Understood
<1>9. sizes' = [o \in Sizes |-> SizeOf(Seen("size"), o)']
  BY <1>1, <1>2, <1>6, SameLine DEF Understood
<1>10. user_error' <=> Defective(Seen("option"), Seen("file"), Seen("size"))'
  BY <1>1, <1>2, <1>6, SameLine DEF Understood
<1>11. Understood'
  BY <1>1, <1>2, <1>6, <1>7, <1>8, <1>9, <1>10 DEF Understood
<1> QED BY <1>1, <1>5, <1>11 DEF CInv, Decided

LEMMA FileKeeps ==
  ASSUME CInv, File
  PROVE  CInv'
<1>1. /\ argv' = argv /\ i' = i + 1 /\ outcome = "reading" /\ i <= Len(argv)
      /\ path_separator \/ argv[i].option = "none"
      /\ input_file' = IF input_file = 0 THEN i ELSE input_file
      /\ user_error' = (user_error \/ input_file # 0)
      /\ UNCHANGED <<flags, entropy_measure, sizes, path_separator, outcome>>
  BY DEF File, Current
<1>2. Loop /\ Understood /\ i \in Nat \ {0}
  BY ArgumentsTyped DEF CInv, Loop
<1>3. Roles[i] = "file"
  BY <1>1, <1>2, RoleRead
<1>4. Loop'
  BY <1>1, <1>2, <1>3, LoopMoves
<1>5. /\ Seen("option")' = Seen("option") /\ Seen("size")' = Seen("size")
      /\ Seen("file")' = Seen("file") \cup {i} /\ Seen("separator")' = Seen("separator")
  BY <1>1, <1>2, <1>3, OneMore
<1>6. \A n \in Seen("file") : n # 0 /\ n # i
  <2>1. \A n \in Seen("file") : n \in 1 .. (i - 1)
    BY <1>2, SeenIs
  <2> QED BY <1>2, <2>1
<1>7. flags' = { o \in Flags : \E n \in Seen("option")' : argv'[n].option = o }
  BY <1>1, <1>2, <1>5 DEF Understood
<1>8. entropy_measure' = MeasureOf(Seen("option"))'
  BY <1>1, <1>2, <1>5, SameLine DEF Understood
<1>9. sizes' = [o \in Sizes |-> SizeOf(Seen("size"), o)']
  BY <1>1, <1>2, <1>5, SameLine DEF Understood
<1>10. input_file # 0 <=> Seen("file") # {}
  BY <1>2, <1>6 DEF Understood
<1>11. (\E m, n \in Seen("file")' : m # n) <=> (\E m, n \in Seen("file") : m # n) \/ input_file # 0
  BY <1>5, <1>6, <1>10
<1>12. user_error' <=> Defective(Seen("option"), Seen("file"), Seen("size"))'
  <2>1. user_error' <=> user_error \/ input_file # 0
    BY <1>1
  <2> QED BY <1>1, <1>2, <1>5, <1>11, <2>1, SameLine DEF Understood, Defective
<1>13. user_error' \in BOOLEAN
  BY <1>1, <1>2 DEF Understood
<1>14. IF Seen("file")' = {} THEN input_file' = 0 ELSE input_file' \in Seen("file")'
  BY <1>1, <1>2, <1>5, <1>10 DEF Understood
<1>15. Understood'
  BY <1>1, <1>2, <1>5, <1>7, <1>8, <1>9, <1>12, <1>13, <1>14 DEF Understood
<1> QED BY <1>1, <1>4, <1>15 DEF CInv, Decided

LEMMA SizeKeeps ==
  ASSUME CInv, NEW option \in Sizes, Size(option)
  PROVE  CInv'
<1>1. /\ argv' = argv /\ outcome = "reading"
      /\ i <= Len(argv) /\ ~path_separator /\ argv[i].option = option
      /\ UNCHANGED <<input_file, flags, entropy_measure, path_separator, outcome>>
  BY DEF Size, Reads, Current
<1>2. Loop /\ Understood /\ i \in Nat
  BY ArgumentsTyped DEF CInv, Loop
<1>3. option \notin Flags \cup Entropy \cup {"separator", "unknown", "none"}
  BY DEF Flags, Sizes, Entropy
<1>4. Roles[i] = "option"
  BY <1>1, <1>2, <1>3, RoleRead
<1>5. Len(argv) \in Nat /\ i \in 1 .. Len(argv) /\ argv \in CommandLines
  BY <1>1, <1>2, ArgumentsTyped DEF Loop
<1>6. /\ Seen("option") \in SUBSET Nat /\ \A n \in Seen("option") : n < i
      /\ Seen("size") \in SUBSET Nat /\ \A n \in Seen("size") : n < i
  BY <1>2, SeenIs
<1>7. CASE i < Len(argv)
  <2>1. /\ sizes' = [sizes EXCEPT ![option] = parse_size(argv[i + 1])]
        /\ user_error' = (user_error \/ ~IsSize(argv[i + 1])) /\ i' = i + 2
    BY <1>7 DEF Size
  <2>2. i + 1 \in 1 .. Len(argv) /\ i + 1 > 1 /\ (i + 1) - 1 = i /\ i # Len(argv)
    BY <1>5, <1>7
  <2>3. Roles[i + 1] = "size"
    BY <1>1, <1>4, <1>5, <2>2, SizeRole
  <2>4. /\ Seen("option")' = Seen("option") \cup {i} /\ Seen("size")' = Seen("size") \cup {i + 1}
        /\ Seen("file")' = Seen("file") /\ Seen("separator")' = Seen("separator")
    BY <1>1, <1>2, <1>4, <1>7, <2>1, <2>3, TwoMore
  <2>5. Loop'
    <3>1. i + 2 <= Len(argv) => Roles[i + 2] # "size"
      <4> SUFFICES ASSUME i + 2 <= Len(argv) PROVE Roles[i + 2] # "size"
        OBVIOUS
      <4>1. i + 2 \in 1 .. Len(argv) /\ (i + 2) - 1 = i + 1
        BY <1>5
      <4> QED BY <1>5, <2>3, <4>1, SizeRole
    <3>2. i + 2 \in 1 .. (Len(argv) + 1)
      BY <1>5, <1>7
    <3> QED BY <1>1, <1>5, <2>1, <3>1, <3>2, SameLine DEF Loop
  <2>6. flags' = { o \in Flags : \E n \in Seen("option")' : argv'[n].option = o }
    BY <1>1, <1>2, <1>3, <2>4 DEF Understood
  <2>7. entropy_measure' = MeasureOf(Seen("option"))'
    BY <1>1, <1>2, <1>3, <1>6, <2>4, MeasureMore, SameLine DEF Understood
  <2>8. \A o : SizeOf(Seen("size"), o)' =
                 IF o = option THEN parse_size(argv[i + 1]) ELSE SizeOf(Seen("size"), o)
    <3>1. i + 1 \in Nat /\ \A n \in Seen("size") : n < i + 1
      BY <1>2, <1>6
    <3>2. \A o : SizeOf(Seen("size") \cup {i + 1}, o) =
                   IF argv[i].option = o THEN parse_size(argv[i + 1]) ELSE SizeOf(Seen("size"), o)
      BY <1>6, <2>2, <3>1, SizeMore
    <3> QED BY <1>1, <2>4, <3>2, SameLine
  <2>9. sizes' = [o \in Sizes |-> SizeOf(Seen("size"), o)']
    <3>1. sizes = [o \in Sizes |-> SizeOf(Seen("size"), o)]
      BY <1>2 DEF Understood
    <3>2. sizes' = [o \in Sizes |-> IF o = option THEN parse_size(argv[i + 1])
                                                  ELSE SizeOf(Seen("size"), o)]
      BY <2>1, <3>1
    <3> QED BY <2>8, <3>2
  <2>10. user_error' <=> Defective(Seen("option"), Seen("file"), Seen("size"))'
    <3>1. user_error' <=> user_error \/ ~IsSize(argv[i + 1])
      BY <2>1
    <3>2. Defective(Seen("option"), Seen("file"), Seen("size"))'
            <=> Defective(Seen("option") \cup {i}, Seen("file"), Seen("size") \cup {i + 1})
      BY <1>1, <2>4, SameLine
    <3>3. Defective(Seen("option") \cup {i}, Seen("file"), Seen("size") \cup {i + 1})
            <=> Defective(Seen("option"), Seen("file"), Seen("size")) \/ ~IsSize(argv[i + 1])
      BY <1>1, <1>3, <2>2 DEF Defective
    <3> QED BY <1>2, <3>1, <3>2, <3>3 DEF Understood
  <2>11. user_error' \in BOOLEAN
    BY <1>2, <2>1 DEF Understood
  <2>12. Understood'
    BY <1>1, <1>2, <2>4, <2>6, <2>7, <2>9, <2>10, <2>11 DEF Understood
  <2> QED BY <1>1, <2>5, <2>12 DEF CInv, Decided
<1>8. CASE ~(i < Len(argv))
  <2>1. user_error' = TRUE /\ i' = i + 1 /\ sizes' = sizes
    BY <1>8 DEF Size
  <2>2. i = Len(argv)
    BY <1>5, <1>8
  <2>3. Loop'
    BY <1>1, <1>2, <1>8, <2>1, LoopMoves
  <2>4. /\ Seen("option")' = Seen("option") \cup {i} /\ Seen("size")' = Seen("size")
        /\ Seen("file")' = Seen("file") /\ Seen("separator")' = Seen("separator")
    BY <1>1, <1>2, <1>4, <2>1, OneMore
  <2>5. flags' = { o \in Flags : \E n \in Seen("option")' : argv'[n].option = o }
    BY <1>1, <1>2, <1>3, <2>4 DEF Understood
  <2>6. entropy_measure' = MeasureOf(Seen("option"))'
    BY <1>1, <1>2, <1>3, <1>6, <2>4, MeasureMore, SameLine DEF Understood
  <2>7. sizes' = [o \in Sizes |-> SizeOf(Seen("size"), o)']
    BY <1>1, <1>2, <2>1, <2>4, SameLine DEF Understood
  <2>8. Defective(Seen("option"), Seen("file"), Seen("size"))'
    BY <1>1, <2>2, <2>4, SameLine DEF Defective
  <2>9. Understood'
    BY <1>1, <1>2, <2>1, <2>4, <2>5, <2>6, <2>7, <2>8 DEF Understood
  <2> QED BY <1>1, <2>3, <2>9 DEF CInv, Decided
<1> QED BY <1>7, <1>8

(* Nothing more is read. *)
LEMMA UnderstoodStays ==
  ASSUME Understood, UNCHANGED <<argv, i, input_file, flags, entropy_measure, sizes,
                                 path_separator, user_error>>
  PROVE  Understood'
<1>1. \A role : Seen(role)' = Seen(role)
  BY SameLine DEF Seen
<1>2. MeasureOf(Seen("option"))' = MeasureOf(Seen("option"))
  BY <1>1, SameLine
<1>3. \A option : SizeOf(Seen("size"), option)' = SizeOf(Seen("size"), option)
  BY <1>1, SameLine
<1>4. Defective(Seen("option"), Seen("file"), Seen("size"))'
        <=> Defective(Seen("option"), Seen("file"), Seen("size"))
  BY <1>1, SameLine
<1> QED BY <1>1, <1>2, <1>3, <1>4 DEF Understood

LEMMA DecideKeeps ==
  ASSUME CInv, Decide
  PROVE  CInv'
<1>1. /\ UNCHANGED <<argv, i, input_file, flags, entropy_measure, sizes, path_separator, user_error>>
      /\ i > Len(argv)
      /\ outcome' = CASE "help" \in flags                 -> "help"
                      [] flags \cap {"help", "version"} = {"version"} -> "version"
                      [] flags \cap {"help", "version"} = {} ->
                           IF user_error \/ input_file = 0 THEN "exit_2" ELSE "load"
  BY DEF Decide
<1>2. Loop'
  <2>1. i = Len(argv) + 1
    BY <1>1, ArgumentsTyped DEF CInv, Loop
  <2> QED BY <1>1, <2>1, SameLine DEF CInv, Loop
<1>3. Understood'
  BY <1>1, UnderstoodStays DEF CInv
<1>4. Decided'
  <2> DEFINE verdict == IF user_error \/ input_file = 0 THEN "exit_2" ELSE "load"
  <2> HIDE DEF verdict
  <2>1. outcome' = CASE "help" \in flags -> "help"
                     [] flags \cap {"help", "version"} = {"version"} -> "version"
                     [] flags \cap {"help", "version"} = {} -> verdict
    BY <1>1 DEF verdict
  <2>2. CASE "help" \in flags
    <3>1. outcome' = "help"
      BY <2>1, <2>2
    <3> QED BY <1>1, <2>2, <3>1 DEF Decided
  <2>3. CASE "help" \notin flags /\ "version" \in flags
    <3>1. flags \cap {"help", "version"} = {"version"} /\ flags \cap {"help", "version"} # {}
      BY <2>3
    <3>2. outcome' = "version"
      BY <2>1, <2>3, <3>1
    <3> QED BY <1>1, <2>3, <3>2 DEF Decided
  <2>4. CASE "help" \notin flags /\ "version" \notin flags
    <3>1. flags \cap {"help", "version"} = {} /\ flags \cap {"help", "version"} # {"version"}
      BY <2>4
    <3>2. outcome' = verdict
      BY <2>1, <2>4, <3>1
    <3> QED BY <1>1, <2>4, <3>2 DEF Decided, verdict
  <2> QED BY <2>2, <2>3, <2>4
<1> QED BY <1>2, <1>3, <1>4 DEF CInv

LEMMA InitCInv == Init => CInv
<1> SUFFICES ASSUME Init PROVE CInv
  OBVIOUS
<1> USE DEF Init
<1>1. Len(argv) \in Nat /\ argv \in CommandLines
  BY ArgumentsTyped
<1>2. Loop
  <2>1. 1 <= Len(argv) => Roles[1] # "size"
    <3>1. 1 <= Len(argv) => 1 \in 1 .. Len(argv) /\ ~(1 > 1)
      BY <1>1
    <3> QED BY <1>1, <3>1, SizeRole
  <2>2. 1 \in 1 .. (Len(argv) + 1)
    BY <1>1
  <2> QED BY <1>1, <2>1, <2>2 DEF Loop
<1>3. \A role : Seen(role) = {}
  <2>1. \A role : \A n : n \notin Seen(role)
    BY <1>2, SeenIs
  <2> QED BY <2>1
<1>4. MeasureOf({}) = "none"
  BY DEF MeasureOf
<1>5. \A option : SizeOf({}, option) = Defaults[option]
  BY DEF SizeOf
<1>6. sizes = [option \in Sizes |-> Defaults[option]]
  BY DEF Defaults, Sizes
<1>7. ~Defective({}, {}, {})
  BY DEF Defective
<1>8. sizes = [option \in Sizes |-> SizeOf(Seen("size"), option)]
  BY <1>3, <1>5, <1>6
<1>9. Understood
  BY <1>3, <1>4, <1>7, <1>8 DEF Understood
<1> QED BY <1>2, <1>9 DEF CInv, Decided

LEMMA NextCInv == CInv /\ [Next]_vars => CInv'
<1> SUFFICES ASSUME CInv, [Next]_vars PROVE CInv'
  OBVIOUS
<1>1. ASSUME NEW option \in Flags, Flag(option) PROVE CInv'
  BY <1>1, FlagKeeps
<1>2. ASSUME NEW option \in Entropy, Measure(option) PROVE CInv'
  BY <1>2, MeasureKeeps
<1>3. ASSUME NEW option \in Sizes, Size(option) PROVE CInv'
  BY <1>3, SizeKeeps
<1>4. CASE Separator
  BY <1>4, SeparatorKeeps
<1>5. CASE Unknown
  BY <1>5, UnknownKeeps
<1>6. CASE File
  BY <1>6, FileKeeps
<1>7. CASE Decide
  BY <1>7, DecideKeeps
<1>8. CASE UNCHANGED vars
  <2>1. UNCHANGED <<argv, i, input_file, flags, entropy_measure, sizes, path_separator,
                    user_error, outcome>>
    BY <1>8 DEF vars
  <2>2. Understood'
    BY <2>1, UnderstoodStays DEF CInv
  <2> QED BY <2>1, <2>2, SameLine DEF CInv, Loop, Decided
<1> QED BY <1>1, <1>2, <1>3, <1>4, <1>5, <1>6, <1>7, <1>8 DEF Next

-----------------------------------------------------------------------------
(* What main decides, with which file, sizes, measure and flags, is what   *)
(* the roles of the arguments and the numbers in them say, for command     *)
(* lines of every length, numbers of every length and every size_t.        *)
THEOREM CommandLineUnderstood == Spec => []MeansWhatIsWritten
<1>1. Init => CInv
  BY InitCInv
<1>2. CInv /\ [Next]_vars => CInv'
  BY NextCInv
<1>3. CInv => MeansWhatIsWritten
  <2> SUFFICES ASSUME CInv, outcome # "reading"
               PROVE  /\ outcome = CASE Given("help") -> "help"
                                     [] Given("version") /\ ~Given("help") -> "version"
                                     [] ~Given("help") /\ ~Given("version") ->
                                          IF Invalid THEN "exit_2" ELSE "load"
                      /\ outcome = "load" =>
                           /\ With("file") = {input_file}
                           /\ sizes = [option \in Sizes |-> SizeGiven(option)]
                           /\ entropy_measure = MeasureGiven
                           /\ flags = { option \in Flags : Given(option) }
    BY DEF MeansWhatIsWritten
  <2>1. Loop /\ Understood /\ Decided /\ argv \in CommandLines /\ Len(argv) \in Nat
    BY ArgumentsTyped DEF CInv, Loop
  <2>2. \A role : Seen(role) = With(role)
    <3>1. i = Len(argv) + 1
      BY <2>1 DEF Loop
    <3>2. \A role : \A n \in With(role) : n < i
      BY <2>1, <3>1, WithIs
    <3> QED BY <3>2 DEF Seen
  <2>3. flags = { option \in Flags : Given(option) }
    BY <2>1, <2>2 DEF Understood, Given
  <2>4. ("help" \in flags <=> Given("help")) /\ ("version" \in flags <=> Given("version"))
    <3>1. "help" \in Flags /\ "version" \in Flags
      BY DEF Flags
    <3> QED BY <2>3, <3>1
  <2>5. With("file") \in SUBSET (1 .. Len(argv)) /\ IsFiniteSet(With("file"))
    <3>1. With("file") \in SUBSET (1 .. Len(argv))
      BY <2>1, WithIs
    <3>2. IsFiniteSet(1 .. Len(argv))
      BY <2>1, FS_Interval
    <3> QED BY <3>1, <3>2, FS_Subset
  <2>6. Cardinality(With("file")) = 1 <=> \E n : With("file") = {n}
    BY <2>5, FS_Singleton
  <2>7. Cardinality(With("file")) # 1
          <=> With("file") = {} \/ \E m, n \in With("file") : m # n
    BY <2>6
  <2>8. input_file = 0 <=> With("file") = {}
    <3>1. IF With("file") = {} THEN input_file = 0 ELSE input_file \in With("file")
      BY <2>1, <2>2 DEF Understood
    <3>2. 0 \notin With("file")
      BY <2>5
    <3> QED BY <3>1, <3>2
  <2>9. Invalid <=> user_error \/ input_file = 0
    <3>1. user_error <=> Defective(With("option"), With("file"), With("size"))
      BY <2>1, <2>2 DEF Understood
    <3> QED BY <2>7, <2>8, <3>1 DEF Invalid, Defective, Given
  <2>10. outcome = CASE Given("help") -> "help"
                     [] Given("version") /\ ~Given("help") -> "version"
                     [] ~Given("help") /\ ~Given("version") ->
                          IF Invalid THEN "exit_2" ELSE "load"
    BY <2>1, <2>4, <2>9 DEF Decided
  <2>11. ASSUME outcome = "load" PROVE ~Invalid
    <3>1. CASE Given("help")
      BY <2>10, <2>11, <3>1
    <3>2. CASE Given("version") /\ ~Given("help")
      BY <2>10, <2>11, <3>2
    <3>3. CASE ~Given("help") /\ ~Given("version")
      BY <2>10, <2>11, <3>3
    <3> QED BY <3>1, <3>2, <3>3
  <2>12. ASSUME ~Invalid PROVE With("file") = {input_file}
    <3>1. With("file") # {} /\ \E n : With("file") = {n}
      BY <2>6, <2>8, <2>9, <2>12 DEF Invalid
    <3>2. input_file \in With("file")
      BY <2>1, <2>2, <3>1 DEF Understood
    <3> QED BY <3>1, <3>2
  <2>13. entropy_measure = MeasureGiven
    BY <2>1, <2>2 DEF Understood, MeasureOf, MeasureGiven
  <2>14. ASSUME ~Invalid PROVE sizes = [option \in Sizes |-> SizeGiven(option)]
    <3>1. ASSUME NEW option PROVE SizeOf(With("size"), option) = SizeGiven(option)
      <4> DEFINE given == { n \in With("size") : argv[n - 1].option = option }
                 last == LastOf(given)
      <4>1. With("size") \in SUBSET (1 .. Len(argv))
        BY <2>1, WithIs
      <4>2. given \in SUBSET (1 .. Len(argv)) /\ given \subseteq With("size")
        BY <4>1
      <4>3. /\ SizeOf(With("size"), option) = IF given = {} THEN Defaults[option] ELSE parse_size(argv[last])
            /\ SizeGiven(option) = IF given = {} THEN Defaults[option] ELSE Number(argv[last]) % MODULUS
        BY DEF SizeOf, SizeGiven
      <4> HIDE DEF given
      <4>4. CASE given = {}
        BY <4>3, <4>4, Zenon
      <4>5. CASE given # {}
        <5>1. last \in given
          BY <2>1, <4>2, <4>5, LastIn
        <5> HIDE DEF last
        <5>2. argv[last] \in Argument
          BY <2>1, <4>2, <5>1, ArgumentsTyped
        <5>3. IsSize(argv[last])
          BY <2>14, <4>2, <5>1 DEF Invalid
        <5>4. parse_size(argv[last]) = Number(argv[last]) % MODULUS
          BY <5>2, <5>3, SizeRead
        <5> QED BY <4>3, <4>5, <5>4, Zenon
      <4> QED BY <4>4, <4>5
    <3> QED BY <2>1, <2>2, <3>1 DEF Understood
  <2> QED BY <2>3, <2>10, <2>11, <2>13, <2>14, <2>12
<1> QED BY <1>1, <1>2, <1>3, PTL DEF Spec
=============================================================================
