-------------------------- MODULE SensorConversions --------------------------
(***************************************************************************)
(* What i2c.h makes of the registers of the two sensors: whole numbers of  *)
(* lux, centimetres, millibars and degrees, in the widths of the variables *)
(* that hold them.  The products and quotients with floating point are     *)
(* those of whole numbers: a double or a float is exact enough for the     *)
(* fractional part that is dropped not to be the wrong one, for every      *)
(* value of the registers.                                                 *)
(***************************************************************************)
EXTENDS Integers, TLAPS

Uint16(x) == x % 65536

-----------------------------------------------------------------------------
(* read_lux.  A count is 0.32 lux at gain 1; the gain is 5.                *)
Counted(count) == ((count * 32) \div 100) \div 5

(* The multiplication and the division for the integration time of 100 ms, *)
(* the product stored in a uint16_t.                                       *)
Lux(count) == Uint16(100 * Counted(count)) \div 100

(* read_pressure: 4096 counts to a millibar, in a uint16_t.  The pressures *)
(* LPS22HB measures, 260 to 1260 millibars, are positive.                  *)
Pressure(raw) == Uint16(raw \div 4096)

(* read_temperature: the two bytes are put together as an unsigned number, *)
(* although the sensor gives hundredths of a degree in two's complement.   *)
Register(hundredths) == Uint16(hundredths)
Temperature(hundredths) == Register(hundredths) \div 100

-----------------------------------------------------------------------------
(* What is stored in a uint16_t is within its range, and is what was given *)
(* when that is in range already.                                          *)
LEMMA Uint16Range ==
    ASSUME NEW x \in Nat
    PROVE  /\ Uint16(x) \in Nat /\ Uint16(x) <= 65535
           /\ x <= 65535 => Uint16(x) = x
  BY DEF Uint16

(* A quotient by 100 is rounded down.                                      *)
LEMMA Hundredth ==
    ASSUME NEW x \in Nat
    PROVE  /\ x \div 100 \in Nat
           /\ 100 * (x \div 100) <= x
           /\ x < 100 * (x \div 100) + 100
  OBVIOUS

(* The count in lux is a natural number.                                   *)
LEMMA CountedIsNat ==
    ASSUME NEW count \in Nat
    PROVE  Counted(count) \in Nat
<1>1. ((count * 32) \div 100) \in Nat
  BY Hundredth
<1> QED
  BY <1>1 DEF Counted

(* What is left of any product is between 0 and 655 lux; of the product    *)
(* for up to 655 lux, it is those.                                         *)
LEMMA ProductThenQuotient ==
    ASSUME NEW l \in Nat
    PROVE  /\ Uint16(100 * l) \div 100 \in Nat
           /\ Uint16(100 * l) \div 100 <= 655
           /\ l <= 655 => Uint16(100 * l) \div 100 = l
<1> DEFINE p == Uint16(100 * l)
           q == p \div 100
<1>1. 100 * l \in Nat
  OBVIOUS
<1>2. p \in Nat /\ p <= 65535 /\ (100 * l <= 65535 => p = 100 * l)
  BY <1>1, Uint16Range
<1>3. q \in Nat /\ 100 * q <= p /\ p < 100 * q + 100
  <2> HIDE DEF p
  <2> QED  BY <1>2, Hundredth
<1> HIDE DEF p, q
<1>4. q \in Nat /\ q <= 655 /\ (l <= 655 => q = l)
  BY <1>2, <1>3
<1> QED
  BY <1>4 DEF q, p

(* The illuminance reported is the one counted, up to 655 lux: the product *)
(* fits its variable (i2c.h:371).                                          *)
THEOREM LuxIsExact ==
    ASSUME NEW count \in Nat, Counted(count) <= 655
    PROVE  Lux(count) = Counted(count)
  BY CountedIsNat, ProductThenQuotient DEF Lux

(* Above 655 lux, the illuminance reported is never the one counted, and   *)
(* never more than 655 (i2c.h:371).                                        *)
THEOREM LuxWraps ==
    ASSUME NEW count \in Nat, Counted(count) > 655
    PROVE  Lux(count) <= 655 /\ Lux(count) # Counted(count)
<1>1. Counted(count) \in Nat
  BY CountedIsNat
<1>2. Lux(count) \in Nat /\ Lux(count) <= 655
  BY <1>1, ProductThenQuotient DEF Lux
<1> QED
  BY <1>1, <1>2

(* From freezing upward, the temperature reported is the one measured,     *)
(* rounded down to whole degrees (i2c.h:475).                              *)
THEOREM TemperatureIsExact ==
    ASSUME NEW h \in Nat, h <= 32767
    PROVE  100 * Temperature(h) <= h /\ h < 100 * Temperature(h) + 100
<1>1. Register(h) = h
  BY Uint16Range DEF Register
<1> QED
  BY <1>1, Hundredth DEF Temperature

(* Below freezing, down to the -40 degrees the sensor measures, the value  *)
(* reported is 615 degrees or more: 655.36 above the one measured, before  *)
(* it is rounded down (i2c.h:475).                                         *)
THEOREM TemperatureBelowZero ==
    ASSUME NEW h \in Int, -4000 <= h, h <= -1
    PROVE  /\ Temperature(h) >= 615
           /\ 100 * Temperature(h) <= h + 65536
           /\ h + 65536 < 100 * Temperature(h) + 100
<1>1. Register(h) = h + 65536
  BY DEF Register, Uint16
<1>2. /\ Temperature(h) \in Nat
      /\ 100 * Temperature(h) <= h + 65536
      /\ h + 65536 < 100 * Temperature(h) + 100
  BY <1>1, Hundredth DEF Temperature
<1> QED
  BY <1>2

(* The pressure reported is the one measured, rounded down, over the whole *)
(* range of the sensor, 4096 * 260 to 4096 * 1260 counts: it fits the      *)
(* variable of 16 bits (i2c.h:430).                                        *)
THEOREM PressureIsExact ==
    ASSUME NEW raw \in Nat, 1064960 <= raw, raw <= 5160960
    PROVE  /\ 4096 * Pressure(raw) <= raw
           /\ raw < 4096 * Pressure(raw) + 4096
<1>1. /\ raw \div 4096 \in Nat
      /\ 4096 * (raw \div 4096) <= raw
      /\ raw < 4096 * (raw \div 4096) + 4096
  OBVIOUS
<1>2. Pressure(raw) = raw \div 4096
  BY <1>1, Uint16Range DEF Pressure
<1> QED
  BY <1>1, <1>2
=============================================================================
