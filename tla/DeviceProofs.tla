------------------------------ MODULE DeviceProofs ------------------------------
(***************************************************************************)
(* Proofs about devices one by one, each for every value of its constants: *)
(* the external UART, the trace of the audio route, line supervision, the  *)
(* coin validator, the card reader, the smartcard, the voice chip and the  *)
(* phrases it decodes, the display, the keypad, the soft keys and the      *)
(* security inputs.  Each section states the inductive invariant first.    *)
(***************************************************************************)
EXTENDS Supervision, LineAudio, ExternalUart, CoinValidator, CardReader, SmartCard, Voiceware, VoiceDecode,
        Vfd, KeypadScan, PanelEvents, SecurityInputs, SequenceTheorems, BoundedInduction

-------------------------------------------------------------------------------
(* A function on 1..n is a sequence, and division by a number that is not known.          *)

LEMMA SeqOfFunction ==
    ASSUME NEW S, NEW n \in Nat, NEW f \in [1..n -> S]
    PROVE  f \in Seq(S) /\ Len(f) = n
  OBVIOUS

LEMMA DivMod ==
    ASSUME NEW D \in Nat \ {0}, NEW a \in Nat
    PROVE  a = (D * (a \div D)) + (a % D) /\ a % D \in 0..(D - 1) /\ a \div D \in Nat
  BY SMTT(30)

LEMMA TimesSign ==
    ASSUME NEW D \in Nat \ {0}, NEW k \in Int
    PROVE  (k >= 1 => D * k >= D) /\ (k <= -1 => D * k <= -D)
  BY SMTT(30)

LEMMA TimesSum ==
    ASSUME NEW D \in Nat \ {0}, NEW k \in Int, NEW m \in Int
    PROVE  D * (k - m) = (D * k) - (D * m) /\ D * (k + m) = (D * k) + (D * m)
  BY SMTT(30)

-------------------------------------------------------------------------------
(* External UART.  DeltaOfOneWrite speaks of at most one write since the   *)
(* last reading; what makes it inductive is that none leaves the lines.    *)

UartInv == /\ UartTypeOK
           /\ DeltaOfOneWrite
           /\ msrReader.writes = 0 /\ ~msrReader.forged => uart.lines = msrReader.lines

LEMMA UartInitInv == UartInit => UartInv
  BY ExternalUartAssumption
     DEF UartInit, UartInv, UartTypeOK, Uart, MsrReader, ModemLines, Iir, DeltaOfOneWrite, Changed

LEMMA RecomputedType ==
    ASSUME NEW u \in Uart
    PROVE  /\ Recomputed(u) \in Uart
           /\ Recomputed(u).iir = Iir(u) /\ Iir(Recomputed(u)) = Iir(u)
           /\ Recomputed(u).lines = u.lines /\ Recomputed(u).delta = u.delta
           /\ Recomputed(u).msiOn = u.msiOn
<1>1. Iir(u) \in {"none", "modem_status"}
  BY DEF Iir
<1> QED
  BY <1>1 DEF Recomputed, Uart, Iir

LEMMA UartStepInv == UartInv /\ [UartNext]_uartVars => UartInv'
<1> SUFFICES ASSUME UartInv, [UartNext]_uartVars PROVE UartInv'
  OBVIOUS
<1>0. /\ uart \in Uart /\ msrReader \in MsrReader
      /\ uart.lines \subseteq ModemLines /\ uart.delta \subseteq ModemLines
      /\ uart.iir = Iir(uart) /\ uart.msiOn \in BOOLEAN /\ uart.dlab \in BOOLEAN
      /\ msrReader.lines \subseteq ModemLines /\ msrReader.writes \in 0 .. MaxWrites
      /\ msrReader.forged \in BOOLEAN
  BY DEF UartInv, UartTypeOK, Uart, MsrReader
<1>1. CASE \/ \E v \in BOOLEAN : UartWriteIer(v) \/ UartWriteLcr(v)
           \/ UartOther
  <2>1. PICK u \in Uart : /\ uart' = Recomputed(u) /\ msrReader' = msrReader
                          /\ u.lines = uart.lines /\ u.delta = uart.delta
    <3>1. CASE UartOther
      BY <1>0, <3>1 DEF UartOther
    <3>2. ASSUME NEW v \in BOOLEAN, UartWriteIer(v)
          PROVE  \E u \in Uart : /\ uart' = Recomputed(u) /\ msrReader' = msrReader
                                 /\ u.lines = uart.lines /\ u.delta = uart.delta
      <4> DEFINE w == [uart EXCEPT !.msiOn = v]
      <4>1. w \in Uart /\ w.lines = uart.lines /\ w.delta = uart.delta
        BY <1>0 DEF Uart
      <4> QED
        BY <3>2, <4>1 DEF UartWriteIer
    <3>3. ASSUME NEW v \in BOOLEAN, UartWriteLcr(v)
          PROVE  \E u \in Uart : /\ uart' = Recomputed(u) /\ msrReader' = msrReader
                                 /\ u.lines = uart.lines /\ u.delta = uart.delta
      <4> DEFINE w == [uart EXCEPT !.dlab = v]
      <4>1. w \in Uart /\ w.lines = uart.lines /\ w.delta = uart.delta
        BY <1>0 DEF Uart
      <4> QED
        BY <3>3, <4>1 DEF UartWriteLcr
    <3> QED
      BY <1>1, <3>1, <3>2, <3>3
  <2>2. /\ uart' \in Uart /\ uart'.iir = Iir(uart')
        /\ uart'.lines = uart.lines /\ uart'.delta = uart.delta
    BY <2>1, RecomputedType
  <2>3. DeltaOfOneWrite'
    BY <1>0, <2>1, <2>2 DEF UartInv, DeltaOfOneWrite, Changed, Iir
  <2> QED
    BY <1>0, <2>1, <2>2, <2>3 DEF UartInv, UartTypeOK
<1>2. ASSUME NEW lines \in SUBSET ModemLines, UartWriteMcr(lines) PROVE UartInv'
  <2> DEFINE w == [uart EXCEPT !.lines = lines, !.delta = Changed(lines, uart.lines)]
  <2>1. Changed(lines, uart.lines) \subseteq ModemLines
    BY <1>0 DEF Changed
  <2>2. w \in Uart /\ w.lines = lines /\ w.delta = Changed(lines, uart.lines)
    BY <1>0, <2>1 DEF Uart
  <2>3. uart' = Recomputed(w)
    BY <1>2 DEF UartWriteMcr
  <2> HIDE DEF w
  <2>4. /\ uart' \in Uart /\ uart'.iir = Iir(uart')
        /\ uart'.lines = lines /\ uart'.delta = Changed(lines, uart.lines)
    BY <2>2, <2>3, RecomputedType
  <2>5. /\ msrReader' \in MsrReader /\ msrReader'.writes = msrReader.writes + 1
        /\ msrReader'.lines = msrReader.lines /\ msrReader'.forged = msrReader.forged
    BY <1>0, <1>2, ExternalUartAssumption DEF UartWriteMcr, MsrReader
  <2>6. ASSUME msrReader'.writes <= 1, ~msrReader'.forged
        PROVE  /\ uart'.delta = Changed(uart'.lines, msrReader'.lines)
               /\ uart'.msiOn => (uart'.iir = "modem_status" <=> uart'.lines # msrReader'.lines)
    <3>1. uart.lines = msrReader.lines
      BY <1>0, <2>5, <2>6 DEF UartInv
    <3>2. uart'.delta = Changed(uart'.lines, msrReader'.lines)
      BY <2>4, <2>5, <3>1
    <3>3. uart'.delta # {} <=> uart'.lines # msrReader'.lines
      BY <2>4, <2>5, <3>1 DEF Changed
    <3> QED
      BY <2>4, <3>2, <3>3 DEF Iir
  <2> QED
    BY <1>0, <2>4, <2>5, <2>6 DEF UartInv, UartTypeOK, DeltaOfOneWrite
<1>3. ASSUME NEW lines \in SUBSET ModemLines, NEW delta \in SUBSET ModemLines, UartWriteMsr(lines, delta)
      PROVE  UartInv'
  <2> DEFINE w == [uart EXCEPT !.lines = lines, !.delta = delta]
  <2>1. w \in Uart
    BY <1>0 DEF Uart
  <2>2. uart' = Recomputed(w)
    BY <1>3 DEF UartWriteMsr
  <2> HIDE DEF w
  <2>3. uart' \in Uart /\ uart'.iir = Iir(uart')
    BY <2>1, <2>2, RecomputedType
  <2>4. msrReader' \in MsrReader /\ msrReader'.forged
    BY <1>0, <1>3 DEF UartWriteMsr, MsrReader
  <2> QED
    BY <2>3, <2>4 DEF UartInv, UartTypeOK, DeltaOfOneWrite
<1>4. CASE UartReadMsr
  <2> DEFINE w == [uart EXCEPT !.delta = {}]
  <2>1. w \in Uart /\ w.lines = uart.lines /\ w.delta = {}
    BY <1>0 DEF Uart
  <2>2. uart' = Recomputed(w)
    BY <1>4 DEF UartReadMsr
  <2> HIDE DEF w
  <2>3. uart' \in Uart /\ uart'.iir = Iir(uart') /\ uart'.lines = uart.lines /\ uart'.delta = {}
    BY <2>1, <2>2, RecomputedType
  <2>4. msrReader' \in MsrReader /\ msrReader'.lines = uart.lines
    BY <1>0, <1>4, ExternalUartAssumption DEF UartReadMsr, MsrReader
  <2> QED
    BY <2>3, <2>4 DEF UartInv, UartTypeOK, DeltaOfOneWrite, Changed, Iir
<1>5. CASE UartReset
  BY <1>5, ExternalUartAssumption
     DEF UartReset, UartInv, UartTypeOK, Uart, MsrReader, ModemLines, Iir, DeltaOfOneWrite, Changed
<1>6. CASE UNCHANGED uartVars
  BY <1>6 DEF uartVars, UartInv, UartTypeOK, DeltaOfOneWrite
<1> QED
  BY <1>1, <1>2, <1>3, <1>4, <1>5, <1>6 DEF UartNext

\* DeltaOfOneWrite in every reachable state, whatever the firmware writes and reads in between.
THEOREM UartCorrect == UartSpec => []DeltaOfOneWrite
<1>1. UartInv => DeltaOfOneWrite
  BY DEF UartInv
<1> QED
  BY <1>1, UartInitInv, UartStepInv, PTL DEF UartSpec

-------------------------------------------------------------------------------
(* Audio route.  A row of the trace leaves both remembered strings equal   *)
(* to the state, so a step may change the route or the mutes between two   *)
(* rows, and never both.                                                   *)

\* The strings of the last rows are those of the state and of the log.
RouteToldOf(r, l) ==
    /\ r \in Route /\ l \in [route : Routes, mute : Mutes]
    /\ l = [route |-> RouteOf(r), mute |-> r.mute]
    /\ r.prevRoute = l.route /\ r.prevMute = l.mute

\* Of the modem only its carrier matters here.
LineInv == /\ "dcd" \in DOMAIN modem /\ modem.dcd \in BOOLEAN /\ lastDcd \in BOOLEAN
           /\ RouteToldOf(route, log) /\ route.carrier = lastDcd

LEMMA RouteOfType ==
    ASSUME NEW r \in Route, EstablishedCalls \subseteq Calls
    PROVE  RouteOf(r) \in Routes
  BY DEF Route, RouteOf, Routes, Established, Calls

LEMMA RememberedType ==
    ASSUME NEW r \in Route
    PROVE  /\ Remembered(r) \in Route
           /\ RouteOf(Remembered(r)) = RouteOf(r) /\ Remembered(r).mute = r.mute
           /\ Remembered(r).prevRoute = RouteOf(r) /\ Remembered(r).prevMute = r.mute
           /\ Remembered(r).carrier = r.carrier
           /\ Remembered(r).hookOff = r.hookOff /\ Remembered(r).prompt = r.prompt
           /\ Remembered(r).call = r.call
<1>1. RouteOf(r) \in Routes /\ r.mute \in Mutes
  BY RouteOfType DEF Calls, Route
<1> DEFINE R == RouteOf(r)
           w == [r EXCEPT !.prevRoute = R, !.prevMute = r.mute]
<1>2. Remembered(r) = w
  BY DEF Remembered
<1> HIDE DEF R
<1>3. w \in Route /\ w.prevRoute = R /\ w.prevMute = r.mute /\ w.mute = r.mute /\ w.call = r.call
      /\ w.hookOff = r.hookOff /\ w.prompt = r.prompt /\ w.carrier = r.carrier
  BY <1>1 DEF Route, R
<1>4. RouteOf(w) = RouteOf(r)
  BY <1>3 DEF RouteOf, Established
<1> QED
  BY <1>2, <1>3, <1>4 DEF R

\* After a change of the route alone, its row restores the agreement.
LEMMA RouteRow ==
    ASSUME NEW r \in Route, NEW l \in [route : Routes, mute : Mutes],
           r.prevRoute = l.route, r.prevMute = l.mute, l.mute = r.mute
    PROVE  LET p == EmitRoute(<<r, l>>)
           IN /\ RouteToldOf(p[1], p[2])
              /\ p = <<p[1], p[2]>>
              /\ p[1].carrier = r.carrier
<1>1. CASE RouteOf(r) = r.prevRoute
  <2>1. EmitRoute(<<r, l>>) = <<r, l>>
    BY <1>1 DEF EmitRoute
  <2>2. l = [route |-> RouteOf(r), mute |-> r.mute]
    BY <1>1
  <2> QED
    BY <2>1, <2>2 DEF RouteToldOf
<1>2. CASE RouteOf(r) # r.prevRoute
  <2> DEFINE w == [l EXCEPT !.route = RouteOf(r)]
  <2>1. EmitRoute(<<r, l>>) = <<Remembered(r), w>>
    BY <1>2 DEF EmitRoute
  <2>2. w = [route |-> RouteOf(r), mute |-> r.mute]
    OBVIOUS
  <2>3. RouteOf(r) \in Routes /\ r.mute \in Mutes
    BY RouteOfType DEF Calls, Route
  <2> HIDE DEF w
  <2> QED
    BY <2>1, <2>2, <2>3, RememberedType DEF RouteToldOf
<1> QED
  BY <1>1, <1>2

\* After a change of the mutes alone, theirs does.
LEMMA MuteRow ==
    ASSUME NEW r \in Route, NEW l \in [route : Routes, mute : Mutes],
           r.prevRoute = l.route, r.prevMute = l.mute, l.route = RouteOf(r)
    PROVE  LET p == EmitMute(<<r, l>>)
           IN /\ RouteToldOf(p[1], p[2])
              /\ p = <<p[1], p[2]>>
              /\ p[1].carrier = r.carrier
<1>1. CASE r.mute = r.prevMute
  <2>1. EmitMute(<<r, l>>) = <<r, l>>
    BY <1>1 DEF EmitMute
  <2>2. l = [route |-> RouteOf(r), mute |-> r.mute]
    BY <1>1
  <2> QED
    BY <2>1, <2>2 DEF RouteToldOf
<1>2. CASE r.mute # r.prevMute
  <2> DEFINE w == [l EXCEPT !.mute = r.mute]
  <2>1. EmitMute(<<r, l>>) = <<Remembered(r), w>>
    BY <1>2 DEF EmitMute
  <2>2. w = [route |-> RouteOf(r), mute |-> r.mute]
    OBVIOUS
  <2>3. RouteOf(r) \in Routes /\ r.mute \in Mutes
    BY RouteOfType DEF Calls, Route
  <2> HIDE DEF w
  <2> QED
    BY <2>1, <2>2, <2>3, RememberedType DEF RouteToldOf
<1> QED
  BY <1>1, <1>2

\* A command changes the mutes or the route, never both.
LEMMA EffectType ==
    ASSUME NEW r \in Route, NEW e \in RouteEffects
    PROVE  /\ Effect(r, e) \in Route
           /\ Effect(r, e).prevRoute = r.prevRoute /\ Effect(r, e).prevMute = r.prevMute
           /\ Effect(r, e).carrier = r.carrier
           /\ Effect(r, e).mute = r.mute \/ RouteOf(Effect(r, e)) = RouteOf(r)
<1> DEFINE Kept(w) == /\ w \in Route
                      /\ w.prevRoute = r.prevRoute /\ w.prevMute = r.prevMute
                      /\ w.carrier = r.carrier
                      /\ w.mute = r.mute \/ RouteOf(w) = RouteOf(r)
<1>0. /\ r.mute \in Mutes /\ r.gain \in 0 .. MaxGain /\ MaxGain \in Nat
      /\ r.mute.tx \in BOOLEAN /\ r.mute.rx \in BOOLEAN
  BY LineAudioAssumption DEF Route, Mutes
<1>13. Calls \cap RouteCommands = {}
  BY LineAudioAssumption DEF Calls, RouteCommands
<1>1. ASSUME NEW m \in Mutes PROVE Kept([r EXCEPT !.mute = m])
  BY <1>0 DEF Route, RouteOf, Established
<1>2. ASSUME NEW b \in BOOLEAN PROVE Kept([r EXCEPT !.sidetoneOff = b])
  BY <1>0 DEF Route
<1>3. ASSUME NEW g \in 0 .. MaxGain PROVE Kept([r EXCEPT !.gain = g])
  BY <1>0 DEF Route
<1>4. ASSUME NEW c \in Calls PROVE Kept([r EXCEPT !.call = c])
  BY <1>0 DEF Route
<1>5. Kept(r)
  OBVIOUS
<1>6. \A b \in BOOLEAN : [r.mute EXCEPT !.tx = b] \in Mutes /\ [r.mute EXCEPT !.rx = b] \in Mutes
  BY <1>0 DEF Mutes
<1>7. (IF r.gain > 0 THEN r.gain - 1 ELSE r.gain) \in 0 .. MaxGain
      /\ (IF r.gain < MaxGain THEN r.gain + 1 ELSE r.gain) \in 0 .. MaxGain
      /\ MaxGain \in 0 .. MaxGain
  BY <1>0
<1> HIDE DEF Kept
<1>8. CASE e \in {"tx_mute", "tx_unmute", "rx_mute", "rx_unmute"}
  <2> DEFINE m == CASE e = "tx_mute" -> [r.mute EXCEPT !.tx = TRUE]
                    [] e = "tx_unmute" -> [r.mute EXCEPT !.tx = FALSE]
                    [] e = "rx_mute" -> [r.mute EXCEPT !.rx = TRUE]
                    [] e = "rx_unmute" -> [r.mute EXCEPT !.rx = FALSE]
  <2>1. Effect(r, e) = [r EXCEPT !.mute = m]
    BY <1>8, <1>13 DEF Effect, RouteCommands
  <2>2. m \in Mutes
    BY <1>6, <1>8
  <2> HIDE DEF m
  <2> QED
    BY <1>1, <2>1, <2>2 DEF Kept
<1>9. CASE e \in {"sidetone_on", "sidetone_off"}
  <2>1. Effect(r, e) = [r EXCEPT !.sidetoneOff = (e = "sidetone_on")]
    BY <1>9, <1>13 DEF Effect, RouteCommands
  <2> QED
    BY <1>2, <2>1 DEF Kept
<1>10. CASE e \in {"gain_down", "gain_up", "gain_preset"}
  <2> DEFINE g == CASE e = "gain_down" -> (IF r.gain > 0 THEN r.gain - 1 ELSE r.gain)
                    [] e = "gain_up" -> (IF r.gain < MaxGain THEN r.gain + 1 ELSE r.gain)
                    [] e = "gain_preset" -> MaxGain
  <2>1. Effect(r, e) = [r EXCEPT !.gain = g]
    BY <1>10, <1>13 DEF Effect, RouteCommands
  <2>2. g \in 0 .. MaxGain
    BY <1>7, <1>10
  <2> HIDE DEF g
  <2> QED
    BY <1>3, <2>1, <2>2 DEF Kept
<1>11. CASE e \in Calls
  <2>1. Effect(r, e) = [r EXCEPT !.call = e]
    BY <1>11, <1>13 DEF Effect, RouteCommands
  <2> QED
    BY <1>4, <1>11, <2>1 DEF Kept
<1>12. CASE e = "no_mux_state"
  <2>1. Effect(r, e) = r
    BY <1>12, <1>13 DEF Effect, RouteCommands
  <2> QED
    BY <1>5, <2>1 DEF Kept
<1> QED
  BY <1>8, <1>9, <1>10, <1>11, <1>12 DEF RouteEffects, RouteCommands

LEMMA AppliedTold ==
    ASSUME NEW r, NEW l, RouteToldOf(r, l), NEW e \in RouteEffects
    PROVE  LET p == Applied(<<r, l>>, e)
           IN /\ RouteToldOf(p[1], p[2])
              /\ p = <<p[1], p[2]>>
              /\ p[1].carrier = r.carrier
<1> DEFINE w == Effect(r, e)
           q == EmitMute(<<w, l>>)
<1>1. r \in Route /\ l \in [route : Routes, mute : Mutes] /\ l.mute = r.mute /\ l.route = RouteOf(r)
      /\ r.prevRoute = l.route /\ r.prevMute = l.mute
  BY DEF RouteToldOf
<1>2. /\ w \in Route /\ w.prevRoute = l.route /\ w.prevMute = l.mute /\ w.carrier = r.carrier
      /\ w.mute = r.mute \/ RouteOf(w) = RouteOf(r)
  BY <1>1, EffectType
<1>3. Applied(<<r, l>>, e) = EmitRoute(q)
  BY DEF Applied
<1> HIDE DEF w
<1>4. CASE w.mute = r.mute
  <2>1. q = <<w, l>>
    BY <1>1, <1>2, <1>4 DEF EmitMute
  <2> HIDE DEF q
  <2> QED
    BY <1>1, <1>2, <1>3, <1>4, <2>1, RouteRow
<1>5. CASE RouteOf(w) = RouteOf(r)
  <2>1. RouteToldOf(q[1], q[2]) /\ q = <<q[1], q[2]>> /\ q[1].carrier = w.carrier
    BY <1>1, <1>2, <1>5, MuteRow
  <2> HIDE DEF q
  <2>2. /\ q[1] \in Route /\ q[2] \in [route : Routes, mute : Mutes]
        /\ q[1].prevRoute = q[2].route /\ q[1].prevMute = q[2].mute /\ q[2].mute = q[1].mute
    BY <2>1 DEF RouteToldOf
  <2> DEFINE a == q[1]
             b == q[2]
  <2> HIDE DEF a, b
  <2>3. a \in Route /\ b \in [route : Routes, mute : Mutes]
        /\ a.prevRoute = b.route /\ a.prevMute = b.mute /\ b.mute = a.mute
    BY <2>2 DEF a, b
  <2>4. RouteToldOf(EmitRoute(<<a, b>>)[1], EmitRoute(<<a, b>>)[2])
        /\ EmitRoute(<<a, b>>) = <<EmitRoute(<<a, b>>)[1], EmitRoute(<<a, b>>)[2]>>
        /\ EmitRoute(<<a, b>>)[1].carrier = a.carrier
    BY <2>3, RouteRow
  <2>5. <<a, b>> = q /\ a.carrier = r.carrier
    BY <1>2, <2>1 DEF a, b
  <2> QED
    BY <1>3, <2>4, <2>5
<1> QED
  BY <1>2, <1>4, <1>5

LEMMA ConditionedTold ==
    ASSUME NEW r, NEW l, RouteToldOf(r, l), NEW spoken \in BOOLEAN
    PROVE  LET p == Conditioned(<<r, l>>, spoken)
           IN RouteToldOf(p[1], p[2]) /\ p[1].carrier = r.carrier
<1> DEFINE a == Applied(<<r, l>>, "rx_mute")
           e == IF spoken THEN "sidetone_off" ELSE "sidetone_on"
           b == Applied(a, e)
<1>1. {"rx_mute", "rx_unmute", e} \subseteq RouteEffects
  BY DEF RouteEffects, RouteCommands
<1>2. Conditioned(<<r, l>>, spoken) = Applied(b, "rx_unmute")
  BY DEF Conditioned
<1> HIDE DEF e
<1>3. RouteToldOf(a[1], a[2]) /\ a = <<a[1], a[2]>> /\ a[1].carrier = r.carrier
  BY <1>1, AppliedTold, ZenonT(60)
<1> HIDE DEF a
<1>4. LET q == Applied(<<a[1], a[2]>>, e)
      IN RouteToldOf(q[1], q[2]) /\ q = <<q[1], q[2]>> /\ q[1].carrier = a[1].carrier
  BY <1>1, <1>3, AppliedTold, ZenonT(60)
<1>5. RouteToldOf(b[1], b[2]) /\ b = <<b[1], b[2]>> /\ b[1].carrier = r.carrier
  BY <1>3, <1>4
<1> HIDE DEF b
<1>6. LET q == Applied(<<b[1], b[2]>>, "rx_unmute")
      IN RouteToldOf(q[1], q[2]) /\ q[1].carrier = b[1].carrier
  BY <1>1, <1>5, AppliedTold
<1> QED
  BY <1>2, <1>5, <1>6

LEMMA LineInitInv == LineInit => LineInv
<1> SUFFICES ASSUME LineInit PROVE LineInv
  OBVIOUS
<1>1. "dcd" \in DOMAIN IdleModem(FALSE) /\ IdleModem(FALSE).dcd = FALSE
  BY DEF IdleModem
<1>2. IdleRoute \in Route /\ RouteOf(IdleRoute) = "idle"
  BY LineAudioAssumption
     DEF IdleRoute, Route, Calls, Mutes, Open, Routes, RouteOf, Established
<1> QED
  BY <1>1, <1>2 DEF LineInit, LineInv, RouteToldOf, IdleRoute, IdleLog, Open, Mutes, Routes

\* The steps of the modem alone leave its carrier a truth value.
LEMMA ModemStep ==
    ASSUME LineInv,
           \/ \E e \in LineEvents : LineEvent(e)
           \/ \E lines \in ModemFixtures : ReplayFixture(lines)
           \/ \E v \in BOOLEAN : SetDtr(v) \/ SetRts(v)
    PROVE  LineInv'
<1>1. "dcd" \in DOMAIN modem /\ modem.dcd \in BOOLEAN
  BY DEF LineInv
<1>2. ASSUME NEW e \in LineEvents, LineEvent(e)
      PROVE  "dcd" \in DOMAIN modem' /\ modem'.dcd \in BOOLEAN /\ UNCHANGED <<lastDcd, route, log>>
  BY <1>1, <1>2 DEF LineEvent, AfterEvent
<1>3. ASSUME NEW lines \in ModemFixtures, ReplayFixture(lines)
      PROVE  "dcd" \in DOMAIN modem' /\ modem'.dcd \in BOOLEAN /\ UNCHANGED <<lastDcd, route, log>>
  <2>1. PICK s, turned, on : modem' = [modem EXCEPT !.state = s, !.dcd = IF turned = {} THEN @ ELSE on = "connected"]
    BY <1>3 DEF ReplayFixture, AfterReplay
  <2> QED
    BY <1>1, <1>3, <2>1 DEF ReplayFixture
<1>4. ASSUME NEW v \in BOOLEAN, SetDtr(v) \/ SetRts(v)
      PROVE  "dcd" \in DOMAIN modem' /\ modem'.dcd \in BOOLEAN /\ UNCHANGED <<lastDcd, route, log>>
  BY <1>1, <1>4 DEF SetDtr, SetRts
<1>5. "dcd" \in DOMAIN modem' /\ modem'.dcd \in BOOLEAN /\ UNCHANGED <<lastDcd, route, log>>
  BY <1>2, <1>3, <1>4
<1> QED
  BY <1>5 DEF LineInv

\* The actions of the route, from RouteTold alone.
LEMMA RouteStepTold ==
    ASSUME RouteToldOf(route, log), route.carrier = lastDcd, modem.dcd \in BOOLEAN,
           \/ ScreenUpdate
           \/ \E b \in BOOLEAN : NotifyHook(b) \/ NotifyVoice(b)
           \/ \E e \in RouteEffects : HostCommand(e)
    PROVE  RouteToldOf(route', log') /\ route'.carrier = lastDcd' /\ modem' = modem
<1>1. /\ route \in Route /\ log \in [route : Routes, mute : Mutes]
      /\ log.mute = route.mute /\ route.prevRoute = log.route /\ route.prevMute = log.mute
      /\ route.call \in Calls
  BY DEF RouteToldOf, Route
<1>2. CASE ScreenUpdate
  <2>1. CASE modem.dcd = lastDcd
    BY <1>2, <2>1 DEF ScreenUpdate
  <2>2. CASE modem.dcd # lastDcd
    <3> DEFINE c == IF ~modem.dcd /\ Established(route.call) THEN "idle" ELSE route.call
               w == [route EXCEPT !.carrier = modem.dcd, !.call = c]
    <3>1. c \in Calls
      BY <1>1 DEF Calls
    <3>2. route' = EmitRoute(<<w, log>>)[1] /\ log' = EmitRoute(<<w, log>>)[2]
          /\ lastDcd' = modem.dcd /\ modem' = modem
      BY <1>2, <2>2 DEF ScreenUpdate, RouteBecomes
    <3> HIDE DEF c
    <3>3. w \in Route /\ w.prevRoute = log.route /\ w.prevMute = log.mute /\ log.mute = w.mute
          /\ w.carrier = modem.dcd
      BY <1>1, <3>1 DEF Route
    <3> HIDE DEF w
    <3> QED
      BY <1>1, <3>2, <3>3, RouteRow
  <2> QED
    BY <2>1, <2>2
<1>3. ASSUME NEW off \in BOOLEAN, NotifyHook(off)
      PROVE  RouteToldOf(route', log') /\ route'.carrier = lastDcd' /\ modem' = modem
  <2> DEFINE w == [route EXCEPT !.hookOff = off]
  <2>1. w \in Route /\ w.prevRoute = log.route /\ w.prevMute = log.mute /\ log.mute = w.mute
        /\ w.carrier = route.carrier
    BY <1>1 DEF Route
  <2>2. route' = EmitRoute(<<w, log>>)[1] /\ log' = EmitRoute(<<w, log>>)[2]
        /\ lastDcd' = lastDcd /\ modem' = modem
    BY <1>3 DEF NotifyHook, RouteBecomes
  <2> HIDE DEF w
  <2> QED
    BY <1>1, <2>1, <2>2, RouteRow
<1>4. ASSUME NEW active \in BOOLEAN, NotifyVoice(active)
      PROVE  RouteToldOf(route', log') /\ route'.carrier = lastDcd' /\ modem' = modem
  <2> DEFINE w == [route EXCEPT !.prompt = active]
             told == EmitRoute(<<w, log>>)
             cond == Conditioned(told, active)
  <2>1. w \in Route /\ w.prevRoute = log.route /\ w.prevMute = log.mute /\ log.mute = w.mute
        /\ w.carrier = route.carrier
    BY <1>1 DEF Route
  <2>2. /\ lastDcd' = lastDcd /\ modem' = modem
        /\ \/ route' = told[1] /\ log' = told[2]
           \/ route' = cond[1] /\ log' = cond[2]
    BY <1>4 DEF NotifyVoice, RouteBecomes
  <2> HIDE DEF w
  <2>3. RouteToldOf(told[1], told[2]) /\ told = <<told[1], told[2]>> /\ told[1].carrier = route.carrier
    BY <1>1, <2>1, RouteRow
  <2> HIDE DEF told
  <2>4. LET q == Conditioned(<<told[1], told[2]>>, active)
        IN RouteToldOf(q[1], q[2]) /\ q[1].carrier = told[1].carrier
    BY <2>3, ConditionedTold
  <2>5. RouteToldOf(cond[1], cond[2]) /\ cond[1].carrier = route.carrier
    BY <2>3, <2>4
  <2> HIDE DEF cond
  <2> QED
    BY <2>2, <2>3, <2>5
<1>5. ASSUME NEW e \in RouteEffects, HostCommand(e)
      PROVE  RouteToldOf(route', log') /\ route'.carrier = lastDcd' /\ modem' = modem
  <2> DEFINE q == Applied(<<route, log>>, e)
  <2>1. route' = q[1] /\ log' = q[2] /\ lastDcd' = lastDcd /\ modem' = modem
    BY <1>5 DEF HostCommand, RouteBecomes
  <2>2. RouteToldOf(q[1], q[2]) /\ q[1].carrier = route.carrier
    BY AppliedTold
  <2> HIDE DEF q
  <2> QED
    BY <2>1, <2>2
<1> QED
  BY <1>2, <1>3, <1>4, <1>5

LEMMA LineStepInv == LineInv /\ [LineNext]_lineVars => LineInv'
<1> SUFFICES ASSUME LineInv, [LineNext]_lineVars PROVE LineInv'
  OBVIOUS
<1>1. CASE \/ \E e \in LineEvents : LineEvent(e)
           \/ \E lines \in ModemFixtures : ReplayFixture(lines)
           \/ \E v \in BOOLEAN : SetDtr(v) \/ SetRts(v)
  BY <1>1, ModemStep
<1>2. CASE \/ ScreenUpdate
           \/ \E b \in BOOLEAN : NotifyHook(b) \/ NotifyVoice(b)
           \/ \E e \in RouteEffects : HostCommand(e)
  <2>1. RouteToldOf(route', log') /\ route'.carrier = lastDcd' /\ modem' = modem
    BY <1>2, RouteStepTold DEF LineInv
  <2>2. lastDcd' \in BOOLEAN
    BY <1>2 DEF LineInv, ScreenUpdate, NotifyHook, NotifyVoice, HostCommand
  <2> QED
    BY <2>1, <2>2 DEF LineInv
<1>3. CASE LineReset
  <2>1. "dcd" \in DOMAIN modem' /\ modem'.dcd = FALSE
    BY <1>3 DEF LineReset, IdleModem
  <2>2. IdleRoute \in Route /\ RouteOf(IdleRoute) = "idle"
    BY LineAudioAssumption
       DEF IdleRoute, Route, Calls, Mutes, Open, Routes, RouteOf, Established
  <2> QED
    BY <1>3, <2>1, <2>2
       DEF LineReset, LineInv, RouteToldOf, IdleRoute, IdleLog, Open, Mutes, Routes
<1>4. CASE UNCHANGED lineVars
  BY <1>4 DEF lineVars, LineInv
<1> QED
  BY <1>1, <1>2, <1>3, <1>4 DEF LineNext

\* RouteTold in every reachable state: no order of line events, polls, hook, prompt and
\* commands leaves the trace, its remembered strings and the route apart.
THEOREM RouteCorrect == LineSpec => []RouteTold
<1>1. LineInv => RouteTold
  BY DEF LineInv, RouteToldOf, RouteTold
<1> QED
  BY <1>1, LineInitInv, LineStepInv, PTL DEF LineSpec

-------------------------------------------------------------------------------
(* Line supervision.  The flags of the machine stand for what it has       *)
(* heard, in order: that is what the invariant adds to DisconnectEarned.   *)

HeardOnce(a) == \E i \in DOMAIN heard : heard[i] = a

FlagsEarned ==
    /\ fsm.connected => HeardOnce("connection")
    /\ fsm.interrupted => Then("connection", "interruption")
    /\ fsm.rev0 => HeardOnce("reversal0")
    /\ fsm.carrier => HeardOnce("carrier")

SupervisionInv == SupervisionTypeOK /\ FlagsEarned /\ DisconnectEarned

Sounds == LineCodes \cup {"carrier", "carrier_lost"}

\* Hearing one thing more keeps what was heard, and puts the new behind all of it.
LEMMA HeardMore ==
    ASSUME heard \in Seq(Sounds), NEW x \in Sounds, heard' = Append(heard, x)
    PROVE  /\ heard' \in Seq(Sounds)
           /\ HeardOnce(x)'
           /\ \A a \in Sounds : HeardOnce(a) => HeardOnce(a)' /\ Then(a, x)'
           /\ \A a, b \in Sounds : Then(a, b) => Then(a, b)'
<1>1. /\ Len(heard') = Len(heard) + 1 /\ heard'[Len(heard) + 1] = x
      /\ \A i \in DOMAIN heard : i \in DOMAIN heard' /\ heard'[i] = heard[i] /\ i < Len(heard) + 1
      /\ Len(heard) + 1 \in DOMAIN heard'
      /\ heard' \in Seq(Sounds)
  OBVIOUS
<1>2. HeardOnce(x)'
  BY <1>1 DEF HeardOnce
<1>3. ASSUME NEW a \in Sounds, HeardOnce(a) PROVE HeardOnce(a)' /\ Then(a, x)'
  BY <1>1, <1>3 DEF HeardOnce, Then
<1>4. ASSUME NEW a \in Sounds, NEW b \in Sounds, Then(a, b) PROVE Then(a, b)'
  BY <1>1, <1>4 DEF Then
<1> QED
  BY <1>1, <1>2, <1>3, <1>4

LEMMA HeardSame ==
    ASSUME heard' = heard
    PROVE  /\ \A a \in Sounds : HeardOnce(a) => HeardOnce(a)'
           /\ \A a, b \in Sounds : Then(a, b) => Then(a, b)'
  BY DEF HeardOnce, Then

\* A disconnect goes out only if none has.
LEMMA OneDisconnect ==
    ASSUME SupervisionInv, NEW kind \in Disconnects, NEW when \in BOOLEAN
    PROVE  /\ when /\ ~fsm.gone => emitted \o Disconnect(kind, when) = <<kind>>
           /\ ~(when /\ ~fsm.gone) => emitted \o Disconnect(kind, when) = emitted
<1>1. emitted \in Seq(Disconnects) /\ (fsm.gone <=> emitted # <<>>)
  BY DEF SupervisionInv, SupervisionTypeOK, DisconnectEarned
<1>2. CASE when /\ ~fsm.gone
  <2>1. Disconnect(kind, when) = <<kind>> /\ emitted = <<>>
    BY <1>1, <1>2 DEF Disconnect
  <2>2. <<>> \o <<kind>> = <<kind>>
    OBVIOUS
  <2> QED
    BY <1>2, <2>1, <2>2
<1>3. CASE ~(when /\ ~fsm.gone)
  <2>1. Disconnect(kind, when) = <<>>
    BY <1>3 DEF Disconnect
  <2> QED
    BY <1>1, <1>3, <2>1
<1> QED
  BY <1>2, <1>3

\* What a step has to show when it may disconnect.
LEMMA StepEarned ==
    ASSUME SupervisionInv, NEW kind \in Disconnects, NEW when \in BOOLEAN,
           fsm' \in Fsm, heard' \in Seq(Sounds), FlagsEarned',
           emitted' = emitted \o Disconnect(kind, when),
           fsm'.gone <=> fsm.gone \/ when,
           \A a, b \in Sounds : Then(a, b) => Then(a, b)',
           when /\ kind = "cpc" => Then("reversal0", "reversal1")',
           when /\ kind = "normal_disconnect" =>
              Then("connection", "interruption")' /\ Then("carrier", "carrier_lost")',
           fsm'.armed /\ CutoffTicks # 0 /\ fsm'.ticks >= CutoffTicks => fsm'.gone
    PROVE  SupervisionInv'
<1>1. emitted \in Seq(Disconnects) /\ (fsm.gone <=> emitted # <<>>) /\ Len(emitted) <= 1
  BY DEF SupervisionInv, SupervisionTypeOK, DisconnectEarned
<1>2. {"connection", "interruption", "reversal0", "reversal1", "carrier", "carrier_lost"} \subseteq Sounds
  BY DEF Sounds, LineCodes
<1>3. CASE when /\ ~fsm.gone
  <2>1. emitted' = <<kind>>
    BY <1>3, OneDisconnect
  <2>0. fsm'.gone
    BY <1>3
  <2>2. Len(emitted') <= 1 /\ emitted' # <<>>
    BY <2>1
  <2>3. \A k : emitted' = <<k>> => k = kind
    BY <2>1
  <2>4. emitted' = <<"cpc">> => Then("reversal0", "reversal1")'
    BY <1>3, <2>3
  <2>5. emitted' = <<"normal_disconnect">> =>
          Then("connection", "interruption")' /\ Then("carrier", "carrier_lost")'
    BY <1>3, <2>3
  <2>6. DisconnectEarned'
    BY <2>0, <2>2, <2>4, <2>5 DEF DisconnectEarned
  <2> QED
    BY <2>1, <2>6 DEF SupervisionInv, SupervisionTypeOK, Sounds
<1>4. CASE ~(when /\ ~fsm.gone)
  <2>1. emitted' = emitted
    BY <1>4, OneDisconnect
  <2>2. fsm'.gone <=> fsm.gone
    BY <1>4
  <2>3. emitted = <<"cpc">> => Then("reversal0", "reversal1")'
    BY <1>2 DEF SupervisionInv, DisconnectEarned
  <2>4. emitted = <<"normal_disconnect">> =>
          Then("connection", "interruption")' /\ Then("carrier", "carrier_lost")'
    BY <1>2 DEF SupervisionInv, DisconnectEarned
  <2>5. Len(emitted') <= 1 /\ (fsm'.gone <=> emitted' # <<>>)
    BY <1>1, <2>1, <2>2
  <2>6. emitted' = <<"cpc">> => Then("reversal0", "reversal1")'
    BY <2>1, <2>3
  <2>7. emitted' = <<"normal_disconnect">> =>
          Then("connection", "interruption")' /\ Then("carrier", "carrier_lost")'
    BY <2>1, <2>4
  <2>8. fsm'.armed /\ CutoffTicks # 0 /\ fsm'.ticks >= CutoffTicks => emitted' # <<>>
    BY <2>5
  <2>9. DisconnectEarned'
    BY <2>5, <2>6, <2>7, <2>8 DEF DisconnectEarned
  <2> QED
    BY <1>1, <2>1, <2>9 DEF SupervisionInv, SupervisionTypeOK, Sounds
<1> QED
  BY <1>3, <1>4

LEMMA SupervisionInitInv ==
    fsm = FsmReset /\ heard = <<>> /\ emitted = <<>> => SupervisionInv
  BY DEF FsmReset, Fsm, SupervisionInv, SupervisionTypeOK, FlagsEarned, DisconnectEarned

LEMMA SupervisionStepInv ==
    SupervisionInv /\ [SupervisionNext]_supervisionVars => SupervisionInv'
<1> SUFFICES ASSUME SupervisionInv, [SupervisionNext]_supervisionVars PROVE SupervisionInv'
  OBVIOUS
<1>0. /\ fsm \in Fsm /\ heard \in Seq(Sounds) /\ emitted \in Seq(Disconnects)
      /\ FlagsEarned /\ (fsm.gone <=> emitted # <<>>)
      /\ fsm.armed /\ CutoffTicks # 0 /\ fsm.ticks >= CutoffTicks => fsm.gone
  BY DEF SupervisionInv, SupervisionTypeOK, DisconnectEarned, Sounds
<1>a. {"connection", "interruption", "reversal0", "reversal1", "carrier", "carrier_lost"} \subseteq Sounds
      /\ LineCodes \subseteq Sounds /\ {"normal_disconnect", "cpc", "timeout"} \subseteq Disconnects
  BY DEF Sounds, LineCodes, Disconnects
<1>1. ASSUME NEW code \in LineCodes, StepStatus(code) PROVE SupervisionInv'
  <2> DEFINE cpc == code = "reversal1" /\ fsm.rev0
             con == fsm.connected \/ code = "connection"
             int == fsm.interrupted \/ (code = "interruption" /\ fsm.connected)
             rev == code = "reversal0" \/ (fsm.rev0 /\ code # "reversal1")
             gon == fsm.gone \/ cpc
             w == [fsm EXCEPT !.connected = con, !.interrupted = int, !.rev0 = rev, !.gone = gon]
  <2>1. fsm' = w /\ heard' = Append(heard, code) /\ emitted' = emitted \o Disconnect("cpc", cpc)
    BY <1>1 DEF StepStatus
  <2>2. /\ w \in Fsm /\ w.carrier = fsm.carrier /\ w.armed = fsm.armed /\ w.ticks = fsm.ticks
        /\ w.connected => fsm.connected \/ code = "connection"
        /\ w.interrupted => fsm.interrupted \/ (code = "interruption" /\ fsm.connected)
        /\ w.rev0 => code = "reversal0" \/ fsm.rev0
        /\ w.gone <=> fsm.gone \/ cpc
    <3>1. con \in BOOLEAN /\ int \in BOOLEAN /\ rev \in BOOLEAN /\ gon \in BOOLEAN
      BY <1>0 DEF Fsm
    <3> HIDE DEF con, int, rev, gon
    <3>2. /\ w \in Fsm /\ w.carrier = fsm.carrier /\ w.armed = fsm.armed /\ w.ticks = fsm.ticks
          /\ w.connected = con /\ w.interrupted = int /\ w.rev0 = rev /\ w.gone = gon
      BY <1>0, <3>1, ZenonT(40) DEF Fsm
    <3> HIDE DEF w
    <3> QED
      BY <3>2 DEF con, int, rev, gon
  <2>3. /\ heard' \in Seq(Sounds) /\ HeardOnce(code)'
        /\ \A a \in Sounds : HeardOnce(a) => HeardOnce(a)' /\ Then(a, code)'
        /\ \A a, b \in Sounds : Then(a, b) => Then(a, b)'
    BY <1>0, <1>a, <2>1, HeardMore
  <2> HIDE DEF w
  <2>4. FlagsEarned'
    <3>1. fsm'.connected => HeardOnce("connection")'
      BY <1>0, <1>a, <2>1, <2>2, <2>3 DEF FlagsEarned
    <3>2. fsm'.interrupted => Then("connection", "interruption")'
      BY <1>0, <1>a, <2>1, <2>2, <2>3 DEF FlagsEarned
    <3>3. fsm'.rev0 => HeardOnce("reversal0")'
      BY <1>0, <1>a, <2>1, <2>2, <2>3 DEF FlagsEarned
    <3>4. fsm'.carrier => HeardOnce("carrier")'
      BY <1>0, <1>a, <2>1, <2>2, <2>3 DEF FlagsEarned
    <3> QED
      BY <3>1, <3>2, <3>3, <3>4 DEF FlagsEarned
  <2>5. cpc => Then("reversal0", "reversal1")'
    BY <1>0, <1>a, <2>3 DEF FlagsEarned
  <2>6. cpc \in BOOLEAN
    BY <1>0 DEF Fsm
  <2> HIDE DEF cpc
  <2>7. fsm' \in Fsm /\ (fsm'.gone <=> fsm.gone \/ cpc)
        /\ (fsm'.armed /\ CutoffTicks # 0 /\ fsm'.ticks >= CutoffTicks => fsm'.gone)
    BY <1>0, <2>1, <2>2
  <2> QED
    BY <1>a, <2>1, <2>3, <2>4, <2>5, <2>6, <2>7, StepEarned
<1>2. ASSUME NEW up \in BOOLEAN, StepCarrier(up) PROVE SupervisionInv'
  <2> DEFINE normal == ~up /\ fsm.carrier /\ fsm.connected /\ fsm.interrupted
             sound == IF up THEN "carrier" ELSE "carrier_lost"
             w == [fsm EXCEPT !.carrier = up, !.gone = @ \/ normal]
  <2>1. fsm' = w /\ emitted' = emitted \o Disconnect("normal_disconnect", normal)
        /\ heard' = IF up = fsm.carrier THEN heard ELSE Append(heard, sound)
    BY <1>2 DEF StepCarrier
  <2>2. /\ w \in Fsm /\ w.carrier = up /\ w.armed = fsm.armed /\ w.ticks = fsm.ticks
        /\ w.connected = fsm.connected /\ w.interrupted = fsm.interrupted /\ w.rev0 = fsm.rev0
        /\ w.gone <=> fsm.gone \/ normal
    BY <1>0 DEF Fsm
  <2>3. sound \in Sounds
    BY <1>a
  <2>4. up # fsm.carrier => /\ heard' \in Seq(Sounds) /\ HeardOnce(sound)'
                            /\ \A a \in Sounds : HeardOnce(a) => HeardOnce(a)' /\ Then(a, sound)'
                            /\ \A a, b \in Sounds : Then(a, b) => Then(a, b)'
    <3> HIDE DEF sound
    <3> QED
      BY <1>0, <2>1, <2>3, HeardMore
  <2>5. /\ heard' \in Seq(Sounds)
        /\ \A a \in Sounds : HeardOnce(a) => HeardOnce(a)'
        /\ \A a, b \in Sounds : Then(a, b) => Then(a, b)'
    BY <1>0, <2>1, <2>4, HeardSame
  <2> HIDE DEF w
  <2>6. FlagsEarned'
    BY <1>0, <1>a, <2>1, <2>2, <2>4, <2>5 DEF FlagsEarned
  <2>7. normal => Then("connection", "interruption")' /\ Then("carrier", "carrier_lost")'
    BY <1>0, <1>a, <2>4, <2>5 DEF FlagsEarned
  <2>8. normal \in BOOLEAN
    BY <1>0 DEF Fsm
  <2> HIDE DEF normal
  <2>9. fsm' \in Fsm /\ (fsm'.gone <=> fsm.gone \/ normal)
        /\ (fsm'.armed /\ CutoffTicks # 0 /\ fsm'.ticks >= CutoffTicks => fsm'.gone)
    BY <1>0, <2>1, <2>2
  <2> QED
    BY <1>a, <2>1, <2>5, <2>6, <2>7, <2>8, <2>9, StepEarned
<1>3. CASE StepWatchdog
  <2>1. /\ fsm' = [fsm EXCEPT !.gone = TRUE] /\ heard' = heard
        /\ emitted' = emitted \o Disconnect("timeout", TRUE)
    BY <1>3 DEF StepWatchdog
  <2>2. /\ fsm' \in Fsm /\ fsm'.gone = TRUE /\ fsm'.carrier = fsm.carrier
        /\ fsm'.connected = fsm.connected /\ fsm'.interrupted = fsm.interrupted /\ fsm'.rev0 = fsm.rev0
    BY <1>0, <2>1 DEF Fsm
  <2>3. FlagsEarned' /\ \A a, b \in Sounds : Then(a, b) => Then(a, b)'
    BY <1>0, <1>a, <2>1, <2>2, HeardSame DEF FlagsEarned
  <2> QED
    BY <1>0, <1>a, <2>1, <2>2, <2>3, StepEarned
<1>4. CASE ArmTimer
  <2>1. /\ fsm' = [fsm EXCEPT !.armed = TRUE, !.ticks = 0, !.wink = FALSE, !.defer = FALSE]
        /\ heard' = heard /\ emitted' = emitted
    BY <1>4 DEF ArmTimer
  <2>2. /\ fsm' \in Fsm /\ fsm'.gone = fsm.gone /\ fsm'.carrier = fsm.carrier /\ fsm'.ticks = 0
        /\ fsm'.connected = fsm.connected /\ fsm'.interrupted = fsm.interrupted /\ fsm'.rev0 = fsm.rev0
    BY <1>0, <2>1 DEF Fsm
  <2>3. FlagsEarned' /\ \A a, b \in Sounds : Then(a, b) => Then(a, b)'
    BY <1>0, <1>a, <2>1, <2>2, HeardSame DEF FlagsEarned
  <2>4. emitted' = emitted \o Disconnect("timeout", FALSE)
    BY <1>a, <2>1, OneDisconnect
  <2>5. ~(CutoffTicks # 0 /\ fsm'.ticks >= CutoffTicks)
    BY <2>2, SupervisionAssumption
  <2> QED
    BY <1>0, <1>a, <2>1, <2>2, <2>3, <2>4, <2>5, StepEarned
<1>5. CASE TimerTick
  <2> DEFINE n == fsm.ticks + 1
             wink == WinkTicks # 0 /\ ~fsm.wink /\ n >= WinkTicks
             defer == DeferTicks # 0 /\ ~fsm.defer /\ n >= DeferTicks
             cutoff == CutoffTicks # 0 /\ n >= CutoffTicks /\ ~fsm.gone
  <2>1. /\ fsm' = [fsm EXCEPT !.ticks = n, !.wink = @ \/ wink, !.defer = @ \/ defer,
                              !.gone = @ \/ cutoff, !.armed = ~cutoff]
        /\ heard' = heard /\ emitted' = emitted \o Disconnect("timeout", cutoff)
    BY <1>5 DEF TimerTick
  <2>2. n \in Nat /\ wink \in BOOLEAN /\ defer \in BOOLEAN /\ cutoff \in BOOLEAN
    BY <1>0 DEF Fsm
  <2>3. CutoffTicks # 0 /\ n >= CutoffTicks => cutoff \/ fsm.gone
    OBVIOUS
  <2> HIDE DEF n, wink, defer, cutoff
  <2>4. /\ fsm' \in Fsm /\ (fsm'.gone <=> fsm.gone \/ cutoff) /\ fsm'.ticks = n /\ fsm'.carrier = fsm.carrier
        /\ fsm'.connected = fsm.connected /\ fsm'.interrupted = fsm.interrupted /\ fsm'.rev0 = fsm.rev0
    <3> DEFINE win == fsm.wink \/ wink
               def == fsm.defer \/ defer
               gon == fsm.gone \/ cutoff
               arm == ~cutoff
    <3>1. win \in BOOLEAN /\ def \in BOOLEAN /\ gon \in BOOLEAN /\ arm \in BOOLEAN
      BY <1>0, <2>2 DEF Fsm
    <3>2. fsm' = [fsm EXCEPT !.ticks = n, !.wink = win, !.defer = def, !.gone = gon, !.armed = arm]
      BY <2>1
    <3> HIDE DEF win, def, gon, arm
    <3>3. /\ fsm' \in Fsm /\ fsm'.gone = gon /\ fsm'.ticks = n /\ fsm'.carrier = fsm.carrier
          /\ fsm'.connected = fsm.connected /\ fsm'.interrupted = fsm.interrupted /\ fsm'.rev0 = fsm.rev0
      BY <1>0, <2>2, <3>1, <3>2, ZenonT(40) DEF Fsm
    <3> QED
      BY <3>3 DEF gon
  <2>5. FlagsEarned' /\ \A a, b \in Sounds : Then(a, b) => Then(a, b)'
    BY <1>0, <1>a, <2>1, <2>4, HeardSame DEF FlagsEarned
  <2> QED
    BY <1>0, <1>a, <2>1, <2>2, <2>3, <2>4, <2>5, StepEarned
<1>6. CASE SupervisionReset
  BY <1>6 DEF SupervisionReset, FsmReset, Fsm, SupervisionInv, SupervisionTypeOK, FlagsEarned, DisconnectEarned
<1>7. CASE UNCHANGED supervisionVars
  BY <1>7 DEF supervisionVars, SupervisionInv, SupervisionTypeOK, FlagsEarned, DisconnectEarned, HeardOnce, Then
<1> QED
  BY <1>1, <1>2, <1>3, <1>4, <1>5, <1>6, <1>7 DEF SupervisionNext

\* DisconnectEarned in every reachable state, for every choice of the timing windows.
THEOREM SupervisionCorrect == SupervisionSpec => []DisconnectEarned
<1>1. SupervisionInv => DisconnectEarned
  BY DEF SupervisionInv
<1> QED
  BY <1>1, SupervisionInitInv, SupervisionStepInv, PTL DEF SupervisionSpec, SupervisionInit

-------------------------------------------------------------------------------
(* Coin validator: types.  *)

\* A train under way is one of a whole number of pulses for a coin the profile allows.
CoinFit(c) ==
    /\ c \in CoinState
    /\ c.emitting => c.pending \in Denominations /\ c.target = PulsesOf(c.pending) /\ c.target > 0
    /\ ~c.emitting => c.pending = 0 /\ c.age = 0
    /\ c.escrow \in Denominations \cup {0}

LEMMA CoinFields ==
    ASSUME NEW c, CoinFit(c)
    PROVE  /\ c.disabled \in BOOLEAN /\ c.jam \in BOOLEAN /\ c.reject \in BOOLEAN
           /\ c.emitting \in BOOLEAN /\ c.pending \in Nat /\ c.escrow \in Nat
           /\ c.target \in Nat /\ c.age \in Nat
  BY DEF CoinFit, CoinState

LEMMA CoinIdleFit == CoinFit(CoinIdle)
  BY DEF CoinFit, CoinIdle, CoinState

LEMMA InsertFit == ASSUME NEW c, CoinFit(c), NEW cents \in Nat PROVE CoinFit(Insert(c, cents))
<1>1. PulsesOf(cents) \in Nat
  BY DEF PulsesOf
<1>2. CASE Accepts(c, cents)
  <2> DEFINE d == [disabled |-> c.disabled, jam |-> c.jam, reject |-> FALSE, emitting |-> TRUE,
                   pending |-> cents, escrow |-> cents, target |-> PulsesOf(cents), age |-> 0]
  <2>1. Insert(c, cents) = d
    BY <1>2 DEF Insert, CoinFit, CoinState
  <2>2. CoinFit(d)
    BY <1>1, <1>2, CoinFields DEF CoinFit, CoinState, Accepts
  <2> QED
    BY <2>1, <2>2
<1> QED
  BY <1>2 DEF Insert

LEMMA DroppedFit ==
    ASSUME NEW c, CoinFit(c)
    PROVE  /\ CoinFit(RejectRoute(c)) /\ ~RejectRoute(c).emitting
           /\ CoinFit(Jam(c)) /\ ~Jam(c).emitting
<1>1. /\ Dropped(c) \in CoinState /\ ~Dropped(c).emitting /\ Dropped(c).pending = 0
      /\ Dropped(c).age = 0 /\ Dropped(c).escrow = 0
  BY DEF Dropped, CoinFit, CoinState
<1>2. \A d \in CoinState : ~d.emitting /\ d.pending = 0 /\ d.age = 0 /\ d.escrow = 0 => CoinFit(d)
  BY DEF CoinFit
<1>3. \A d \in CoinState : /\ [d EXCEPT !.reject = TRUE] \in CoinState
                           /\ [d EXCEPT !.jam = TRUE] \in CoinState
  BY DEF CoinState
<1>4. \A d \in CoinState : ~d.emitting /\ d.pending = 0 /\ d.age = 0 /\ d.escrow = 0 =>
         /\ LET e == [d EXCEPT !.reject = TRUE]
            IN ~e.emitting /\ e.pending = 0 /\ e.age = 0 /\ e.escrow = 0
         /\ LET e == [d EXCEPT !.jam = TRUE]
            IN ~e.emitting /\ e.pending = 0 /\ e.age = 0 /\ e.escrow = 0
  BY DEF CoinState
<1> QED
  BY <1>1, <1>2, <1>3, <1>4 DEF RejectRoute, Jam

LEMMA AfterReadFit == ASSUME NEW c, CoinFit(c) PROVE CoinFit(AfterRead(c))
<1> DEFINE d == [c EXCEPT !.emitting = FALSE, !.pending = 0, !.age = 0]
<1>1. d \in CoinState /\ ~d.emitting /\ d.pending = 0 /\ d.age = 0 /\ d.escrow = c.escrow
  BY DEF CoinFit, CoinState
<1>2. CoinFit(d)
  BY <1>1 DEF CoinFit
<1> QED
  BY <1>2 DEF AfterRead

\* What leaves the train and the escrow alone.
LEMMA LatchesFit ==
    ASSUME NEW c, CoinFit(c), NEW d \in CoinState, d.emitting = c.emitting, d.pending = c.pending,
           d.target = c.target, d.age = c.age, d.escrow \in {c.escrow, 0}
    PROVE  CoinFit(d)
  BY DEF CoinFit

LEMMA ControlFit == ASSUME NEW c, CoinFit(c), NEW bits PROVE CoinFit(Control(c, bits))
<1> DEFINE off == 0 \in bits
           jam == c.jam /\ 1 \notin bits
           reject == c.reject /\ 1 \notin bits /\ 2 \notin bits
<1>1. Control(c, bits) \in CoinState
  <2>1. off \in BOOLEAN /\ jam \in BOOLEAN /\ reject \in BOOLEAN
    OBVIOUS
  <2>2. Control(c, bits) = [c EXCEPT !.disabled = off, !.jam = jam, !.reject = reject]
    BY DEF Control
  <2> HIDE DEF off, jam, reject
  <2> QED
    BY <2>1, <2>2 DEF CoinFit, CoinState
<1>2. /\ Control(c, bits).emitting = c.emitting /\ Control(c, bits).pending = c.pending
      /\ Control(c, bits).target = c.target /\ Control(c, bits).age = c.age
      /\ Control(c, bits).escrow = c.escrow
  BY DEF Control, CoinFit, CoinState
<1> QED
  BY <1>1, <1>2, LatchesFit

LEMMA CommandedFit ==
    ASSUME NEW c, CoinFit(c), NEW cmd \in ProtocolCommands
    PROVE  CoinFit(Commanded(c, cmd))
<1> DEFINE d == Commanded(c, cmd)
<1>1. d \in CoinState
  BY CoinFields DEF Commanded, CoinFit, CoinState, ProtocolCommands
<1>2. /\ d.emitting = c.emitting /\ d.pending = c.pending /\ d.target = c.target
      /\ d.age = c.age /\ d.escrow \in {c.escrow, 0}
  BY DEF Commanded, CoinFit, CoinState, ProtocolCommands
<1> HIDE DEF d
<1> QED
  BY <1>1, <1>2, LatchesFit DEF d

LEMMA CoinTypeAs ==
    CoinTypeOK <=> CoinFit(coin) /\ coinUi \subseteq CoinSwitches /\ sampler \in Sampler
  BY DEF CoinTypeOK, CoinFit

\* A poll drops the train, or leaves it, or starts the one of a coin accepted.
LEMMA PollCoinUiType ==
    ASSUME CoinTypeOK, NEW down \in SUBSET CoinSwitches, NEW cents \in Nat, PollCoinUi(down, cents)
    PROVE  /\ CoinTypeOK'
           /\ \/ ~coin'.emitting
              \/ /\ coin' = coin
                 /\ sampler'.counted = sampler.counted
                 /\ sampler'.whole => sampler.whole
              \/ /\ Accepts(coin, cents)
                 /\ coin' = Insert(coin, cents)
                 /\ sampler'.counted = 0
                 /\ sampler'.whole => ~sampler.line
           /\ sampler'.whole => coin'.emitting
           /\ sampler'.line = sampler.line
           /\ sampler'.wait = sampler.wait
<1> DEFINE rise == down \ coinUi
           inserted == IF "insert" \in rise THEN Insert(coin, cents) ELSE coin
           rejected == IF "reject" \in rise THEN RejectRoute(inserted) ELSE inserted
           starts == "insert" \in rise /\ Accepts(coin, cents)
           count == IF starts THEN 0 ELSE sampler.counted
           whole == coin'.emitting /\ (IF starts THEN ~sampler.line ELSE sampler.whole)
<1>1. CoinFit(coin) /\ sampler \in Sampler
  BY CoinTypeAs
<1>2. CoinFit(inserted)
  BY <1>1, InsertFit
<1>3. CoinFit(rejected) /\ (rejected = inserted \/ ~rejected.emitting)
  BY <1>2, DroppedFit
<1>4. coin' = (IF "jam" \in rise THEN Jam(rejected) ELSE rejected) /\ coinUi' = down
  BY DEF PollCoinUi
<1>5. CoinFit(coin') /\ (coin' = inserted \/ ~coin'.emitting)
  <2> HIDE DEF rejected, inserted
  <2> QED
    BY <1>3, <1>4, DroppedFit
<1>6. sampler' = [sampler EXCEPT !.counted = count, !.whole = whole]
  BY DEF PollCoinUi
<1>7. count \in Nat /\ whole \in BOOLEAN
  BY <1>1 DEF Sampler
<1>8. /\ sampler' \in Sampler /\ sampler'.counted = count /\ sampler'.whole = whole
      /\ sampler'.line = sampler.line /\ sampler'.wait = sampler.wait
  <2> HIDE DEF count, whole
  <2> QED
    BY <1>1, <1>6, <1>7 DEF Sampler
<1>9. (~starts /\ inserted = coin) \/ (starts /\ inserted = Insert(coin, cents))
  BY DEF Insert
<1>10. CoinTypeOK'
  BY <1>4, <1>5, <1>8, CoinTypeAs DEF CoinTypeOK, CoinFit
<1>11. CASE starts
  BY <1>5, <1>8, <1>9, <1>10, <1>11
<1>12. CASE ~starts
  BY <1>5, <1>8, <1>9, <1>10, <1>12
<1> QED
  BY <1>11, <1>12

LEMMA CoinTypeInitially == CoinInit => CoinTypeOK
  BY CoinIdleFit, CoinTypeAs, CoinAssumption DEF CoinInit, Sampler

LEMMA CoinTypeStep == CoinTypeOK /\ [CoinNext]_coinVars => CoinTypeOK'
<1> SUFFICES ASSUME CoinTypeOK, [CoinNext]_coinVars
             PROVE  CoinTypeOK'
  OBVIOUS
<1>1. CoinFit(coin) /\ coinUi \subseteq CoinSwitches /\ sampler \in Sampler
  BY CoinTypeAs
<1>2. SUFFICES CoinFit(coin') /\ coinUi' \subseteq CoinSwitches /\ sampler' \in Sampler
  BY DEF CoinTypeOK, CoinFit
<1>3. ASSUME NEW down \in SUBSET CoinSwitches,
             NEW cents \in IF "insert" \in down THEN Offered ELSE {0}, PollCoinUi(down, cents)
      PROVE  CoinTypeOK'
  BY <1>3, PollCoinUiType, CoinAssumption
<1>4. CASE CoinStatusRead
  <2> DEFINE line == StatusPulse(coin)
             count == IF sampler.whole /\ StatusPulse(coin) /\ ~sampler.line
                      THEN sampler.counted + 1 ELSE sampler.counted
             whole == sampler.whole /\ ~TrainOver(coin)
  <2>1. line \in BOOLEAN /\ count \in Nat /\ whole \in BOOLEAN /\ 0 \in 0..SamplePeriod
    BY <1>1, CoinAssumption DEF Sampler, StatusPulse, TrainSeen
  <2>2. sampler' = [line |-> line, counted |-> count, wait |-> 0, whole |-> whole]
    BY <1>4 DEF CoinStatusRead
  <2>3. sampler' \in Sampler
    <3> HIDE DEF line, count, whole
    <3> QED
      BY <2>1, <2>2 DEF Sampler
  <2> QED
    BY <1>1, <1>4, <2>3, AfterReadFit DEF CoinStatusRead
<1>5. ASSUME NEW bits \in SUBSET (0..2), CoinControlWrite(bits)
      PROVE  CoinFit(coin') /\ coinUi' \subseteq CoinSwitches /\ sampler' \in Sampler
  BY <1>1, <1>5, ControlFit DEF CoinControlWrite
<1>6. ASSUME NEW cmd \in ProtocolCommands, CoinCommand(cmd)
      PROVE  CoinFit(coin') /\ coinUi' \subseteq CoinSwitches /\ sampler' \in Sampler
  BY <1>1, <1>6, CommandedFit DEF CoinCommand
<1>7. CASE CoinTimeout
  <2> DEFINE d == [coin EXCEPT !.jam = TRUE]
  <2>1. d \in CoinState /\ d.emitting = coin.emitting /\ d.pending = coin.pending
        /\ d.target = coin.target /\ d.age = coin.age /\ d.escrow = coin.escrow
    BY <1>1 DEF CoinFit, CoinState
  <2>2. CoinFit(d)
    <3> HIDE DEF d
    <3> QED
      BY <1>1, <2>1, LatchesFit
  <2> QED
    BY <1>1, <1>7, <2>2 DEF CoinTimeout, Sampler
<1>8. CASE CoinReset
  BY <1>1, <1>8, CoinIdleFit DEF CoinReset, Sampler
<1>9. CASE CoinTick
  <2> DEFINE age == IF coin.emitting /\ coin.age < TrainLength(coin.target) THEN coin.age + 1 ELSE coin.age
  <2>1. age \in Nat /\ (~coin.emitting => age = coin.age)
    BY <1>1, CoinFields
  <2>2. coin' = [coin EXCEPT !.age = age]
    BY <1>9 DEF CoinTick
  <2>3. /\ coin' \in CoinState /\ coin'.emitting = coin.emitting /\ coin'.pending = coin.pending
        /\ coin'.target = coin.target /\ coin'.age = age /\ coin'.escrow = coin.escrow
    <3> HIDE DEF age
    <3> QED
      BY <1>1, <2>1, <2>2 DEF CoinFit, CoinState
  <2>4. CoinFit(coin')
    <3> HIDE DEF age
    <3> QED
      BY <1>1, <2>1, <2>3 DEF CoinFit
  <2>5. sampler.wait + 1 \in 0..SamplePeriod
    BY <1>1, <1>9, CoinAssumption DEF CoinTick, Sampler
  <2> QED
    BY <1>1, <1>9, <2>4, <2>5 DEF CoinTick, Sampler
<1>10. CASE UNCHANGED coinVars
  BY <1>1, <1>10 DEF coinVars
<1> QED
  BY <1>3, <1>4, <1>5, <1>6, <1>7, <1>8, <1>9, <1>10, CoinTypeAs DEF CoinNext, CoinTypeOK, CoinFit

-------------------------------------------------------------------------------
(* Coin validator: the pulses.  A sample of the line is at s = k * Period + r, in the pulse  *)
(* period k at the phase r, and at most SamplePeriod old.                               *)

Period == PulseWidth + PulseGap

LEMMA Bounds ==
    /\ Period \in Nat /\ PulseWidth \in Nat /\ SamplePeriod \in Nat /\ PulseGap \in Nat
    /\ 0 < SamplePeriod /\ SamplePeriod < PulseWidth /\ PulseWidth + SamplePeriod <= Period
    /\ PulseWidth < Period
  BY CoinAssumption DEF Period

LEMMA Periods ==
    ASSUME NEW q \in Nat, NEW a \in Nat, NEW b \in Nat, a < b
    PROVE  a * q \in Nat /\ b * q \in Nat /\ (a + 1) * q = a * q + q /\ a * q + q <= b * q
<1> DEFINE d == b - (a + 1)
<1>1. d \in Nat /\ b = (a + 1) + d
  OBVIOUS
<1>2. (a + 1) * q = a * q + q
  OBVIOUS
<1>3. ((a + 1) + d) * q = (a + 1) * q + d * q
  BY <1>1
<1>4. a * q \in Nat /\ d * q \in Nat /\ b * q \in Nat
  BY <1>1
<1> QED
  BY <1>1, <1>2, <1>3, <1>4

LEMMA TrainPeriods ==
    ASSUME NEW n \in Nat, n > 0
    PROVE  (n - 1) * Period \in Nat /\ TrainLength(n) = (n - 1) * Period + PulseWidth
<1>1. n - 1 \in Nat /\ 0 < n
  OBVIOUS
<1> DEFINE m == n - 1
<1>2. n = m + 1 /\ m \in Nat
  OBVIOUS
<1>3. m * Period = m * PulseWidth + m * PulseGap /\ (m + 1) * PulseWidth = m * PulseWidth + PulseWidth
  BY <1>2, Bounds DEF Period
<1>4. m * PulseWidth \in Nat /\ m * PulseGap \in Nat
  BY <1>2, Bounds
<1> QED
  BY <1>2, <1>3, <1>4, Bounds DEF TrainLength

\* In the period k of a train of n pulses the line is high during the pulse and low after it.
LEMMA PulsePhase ==
    ASSUME NEW n \in Nat, NEW k \in 0..(n - 1), NEW r \in 0..(Period - 1)
    PROVE  PulseLine(n, k * Period + r) <=> r < PulseWidth
<1>1. k \in Nat /\ r \in Nat /\ k * Period \in Nat /\ r < Period
  BY Bounds
<1>2. ASSUME r < PulseWidth
      PROVE  PulseLine(n, k * Period + r)
  <2>1. k * Period <= k * Period + r /\ k * Period + r < k * Period + PulseWidth
    BY <1>1, <1>2, Bounds
  <2> QED
    BY <2>1 DEF PulseLine, Period
<1>3. ASSUME PulseLine(n, k * Period + r)
      PROVE  r < PulseWidth
  <2>1. PICK i \in 0..(n - 1) : i * Period <= k * Period + r /\ k * Period + r < i * Period + PulseWidth
    BY <1>3 DEF PulseLine, Period
  <2>2. i \in Nat /\ i * Period \in Nat
    BY Bounds
  <2>3. ~(k < i)
    <3>1. k < i => k * Period + Period <= i * Period
      BY <1>1, <2>2, Periods, Bounds
    <3> QED
      BY <1>1, <2>1, <2>2, <3>1, Bounds
  <2>4. i < k => FALSE
    <3>1. i < k => i * Period + Period <= k * Period
      BY <1>1, <2>2, Periods, Bounds
    <3> QED
      BY <1>1, <2>1, <2>2, <3>1, Bounds
  <2>5. i = k
    BY <1>1, <2>2, <2>3, <2>4
  <2> QED
    BY <1>1, <2>1, <2>2, <2>5, Bounds
<1> QED
  BY <1>2, <1>3

\* The sample last taken of a train not cut: before its first pulse, or in period k at phase r.
Sampled(n, age, line, counted, wait) ==
    \/ ~line /\ counted = 0 /\ age <= wait
    \/ \E k \in 0..(n - 1), r \in 0..(Period - 1) :
          /\ k * Period + r < TrainLength(n)
          /\ k * Period + r <= age
          /\ age <= k * Period + r + wait
          /\ counted = k + 1
          /\ line <=> r < PulseWidth

SampledTrain ==
    sampler.whole => /\ coin.emitting
                     /\ ~coin.jam
                     /\ Sampled(coin.target, coin.age, sampler.line, sampler.counted, sampler.wait)

\* A train seen to its end has been sampled in its last period.
LEMMA SampledToEnd ==
    ASSUME NEW n \in Nat, n > 0, NEW age \in Nat, NEW line \in BOOLEAN, NEW counted \in Nat,
           NEW wait \in 0..SamplePeriod, Sampled(n, age, line, counted, wait), age >= TrainLength(n)
    PROVE  counted = n
<1>1. /\ (n - 1) * Period \in Nat /\ TrainLength(n) = (n - 1) * Period + PulseWidth
      /\ n - 1 \in Nat /\ wait \in Nat /\ wait <= SamplePeriod
  BY TrainPeriods, Bounds
<1>2. ~(age <= wait)
  BY <1>1, Bounds
<1>3. PICK k \in 0..(n - 1), r \in 0..(Period - 1) : age <= k * Period + r + wait /\ counted = k + 1
  BY <1>2 DEF Sampled
<1>4. k \in Nat /\ r \in Nat /\ k * Period \in Nat /\ r < Period
  BY Bounds
<1>5. k < n - 1 => k * Period + Period <= (n - 1) * Period
  BY <1>1, <1>4, Periods, Bounds
<1>6. ~(k < n - 1)
  BY <1>1, <1>3, <1>4, <1>5, Bounds
<1> QED
  BY <1>1, <1>3, <1>4, <1>6

\* A sample of a train not yet over counts an edge exactly when it enters the next period.
LEMMA SampledOnce ==
    ASSUME NEW n \in Nat, n > 0, NEW age \in Nat, NEW line \in BOOLEAN, NEW counted \in Nat,
           NEW wait \in 0..SamplePeriod, Sampled(n, age, line, counted, wait), age < TrainLength(n)
    PROVE  Sampled(n, age, PulseLine(n, age),
                   IF PulseLine(n, age) /\ ~line THEN counted + 1 ELSE counted, 0)
<1> DEFINE high == PulseLine(n, age)
           count == IF high /\ ~line THEN counted + 1 ELSE counted
<1>1. /\ (n - 1) * Period \in Nat /\ TrainLength(n) = (n - 1) * Period + PulseWidth
      /\ n - 1 \in Nat /\ wait \in Nat /\ wait <= SamplePeriod
  BY TrainPeriods, Bounds
<1>2. ASSUME NEW k \in 0..(n - 1), NEW r \in 0..(Period - 1), age = k * Period + r, count = k + 1
      PROVE  Sampled(n, age, high, count, 0)
  <2>1. high <=> r < PulseWidth
    BY <1>2, PulsePhase
  <2>2. k * Period + r < TrainLength(n) /\ k * Period + r <= age /\ age <= k * Period + r + 0
    BY <1>2
  <2> HIDE DEF high, count
  <2> QED
    BY <1>2, <2>1, <2>2 DEF Sampled
<1>3. ASSUME ~line, counted = 0, age <= wait
      PROVE  Sampled(n, age, high, count, 0)
  <2>1. 0 \in 0..(n - 1) /\ age \in 0..(Period - 1) /\ age = 0 * Period + age /\ age < PulseWidth
    BY <1>1, <1>3, Bounds
  <2>2. high
    BY <2>1, PulsePhase
  <2>3. count = 0 + 1
    BY <1>3, <2>2
  <2> HIDE DEF count, high
  <2> QED
    BY <1>2, <2>1, <2>3
<1>4. ASSUME NEW k \in 0..(n - 1), NEW r \in 0..(Period - 1), k * Period + r <= age, age <= k * Period + r + wait,
             counted = k + 1, line <=> r < PulseWidth
      PROVE  Sampled(n, age, high, count, 0)
  <2> DEFINE q == k * Period
             e == age - q
  <2>1. k \in Nat /\ r \in Nat /\ q \in Nat /\ r < Period
    BY Bounds
  <2>2. e \in Nat /\ age = q + e /\ r <= e /\ e <= r + wait
    BY <1>4, <2>1
  <2>3. CASE e < Period
    <3>1. e \in 0..(Period - 1)
      BY <2>2, <2>3, Bounds
    <3>2. high <=> e < PulseWidth
      BY <2>2, <3>1, PulsePhase
    <3>3. ~(high /\ ~line)
      BY <1>4, <2>1, <2>2, <3>2, Bounds
    <3>4. count = k + 1
      BY <1>4, <3>3
    <3> HIDE DEF high, count, e
    <3> QED
      BY <1>2, <2>2, <3>1, <3>4
  <2>4. CASE e >= Period
    <3> DEFINE f == e - Period
    <3>1. f \in Nat /\ f < PulseWidth /\ r >= PulseWidth /\ age = (q + Period) + f /\ f \in 0..(Period - 1)
      BY <1>1, <2>1, <2>2, <2>4, Bounds
    <3>2. (k + 1) * Period = q + Period
      BY <2>1, Bounds
    <3>3. k # n - 1
      BY <1>1, <2>1, <2>2, <2>4, Bounds
    <3>4. k + 1 \in 0..(n - 1)
      BY <1>1, <2>1, <3>3
    <3>5. high
      BY <3>1, <3>2, <3>4, PulsePhase
    <3>6. ~line
      BY <1>4, <3>1, <2>1, Bounds
    <3>7. count = (k + 1) + 1
      BY <1>4, <3>5, <3>6
    <3> HIDE DEF high, count, e, f, q
    <3> QED
      BY <1>2, <3>1, <3>2, <3>4, <3>7
  <2> QED
    BY <2>2, <2>3, <2>4, Bounds
<1>5. Sampled(n, age, high, count, 0)
  <2> HIDE DEF high, count
  <2>1. CASE ~line /\ counted = 0 /\ age <= wait
    BY <1>3, <2>1
  <2>2. CASE ~(~line /\ counted = 0 /\ age <= wait)
    <3>1. PICK k \in 0..(n - 1), r \in 0..(Period - 1) :
                /\ k * Period + r <= age
                /\ age <= k * Period + r + wait
                /\ counted = k + 1
                /\ line <=> r < PulseWidth
      BY <2>2 DEF Sampled
    <3> QED
      BY <1>4, <3>1
  <2> QED
    BY <2>1, <2>2
<1> QED
  BY <1>5

\* A tick ages the train and the sample alike.
LEMMA SampledLater ==
    ASSUME NEW n \in Nat, NEW age \in Nat, NEW line \in BOOLEAN, NEW counted \in Nat,
           NEW wait \in Nat, Sampled(n, age, line, counted, wait),
           NEW later \in {age, age + 1}
    PROVE  Sampled(n, later, line, counted, wait + 1)
<1>1. CASE ~line /\ counted = 0 /\ age <= wait
  BY <1>1 DEF Sampled
<1>2. ASSUME NEW k \in 0..(n - 1), NEW r \in 0..(Period - 1), k * Period + r < TrainLength(n),
             k * Period + r <= age, age <= k * Period + r + wait, counted = k + 1, line <=> r < PulseWidth
      PROVE  Sampled(n, later, line, counted, wait + 1)
  <2>1. k \in Nat /\ r \in Nat /\ k * Period \in Nat
    BY Bounds
  <2>2. k * Period + r <= later /\ later <= k * Period + r + (wait + 1)
    BY <1>2, <2>1
  <2> QED
    BY <1>2, <2>2 DEF Sampled
<1> QED
  BY <1>1, <1>2 DEF Sampled

LEMMA SampledTrainStep ==
    CoinTypeOK /\ CoinTypeOK' /\ SampledTrain /\ [CoinNext]_coinVars => SampledTrain'
<1> SUFFICES ASSUME CoinTypeOK, CoinTypeOK', SampledTrain, [CoinNext]_coinVars, sampler'.whole
             PROVE  /\ coin'.emitting
                    /\ ~coin'.jam
                    /\ Sampled(coin'.target, coin'.age, sampler'.line, sampler'.counted, sampler'.wait)
  BY DEF SampledTrain
<1>1. /\ CoinFit(coin) /\ CoinFit(coin') /\ sampler \in Sampler /\ sampler' \in Sampler
      /\ coin.age \in Nat /\ coin'.age \in Nat /\ coin.target \in Nat
      /\ sampler.wait \in 0..SamplePeriod /\ sampler.wait \in Nat /\ sampler.counted \in Nat
      /\ sampler.line \in BOOLEAN /\ (coin.emitting => coin.target > 0)
  BY CoinTypeAs, CoinFields, Bounds DEF CoinTypeOK, CoinFit, Sampler
<1>2. ASSUME NEW down \in SUBSET CoinSwitches,
             NEW cents \in IF "insert" \in down THEN Offered ELSE {0}, PollCoinUi(down, cents)
      PROVE  /\ coin'.emitting
             /\ ~coin'.jam
             /\ Sampled(coin'.target, coin'.age, sampler'.line, sampler'.counted, sampler'.wait)
  <2>1. cents \in Nat
    BY CoinAssumption
  <2>2. coin'.emitting /\ sampler'.line = sampler.line /\ sampler'.wait = sampler.wait
    BY <1>2, <2>1, PollCoinUiType
  <2>3. CASE /\ coin' = coin
             /\ sampler'.counted = sampler.counted
             /\ sampler'.whole => sampler.whole
    BY <2>2, <2>3 DEF SampledTrain
  <2>4. CASE /\ Accepts(coin, cents)
             /\ coin' = Insert(coin, cents)
             /\ sampler'.counted = 0
             /\ sampler'.whole => ~sampler.line
    <3>1. coin'.age = 0 /\ coin'.jam = coin.jam
      BY <1>1, <2>4 DEF Insert, CoinFit, CoinState
    <3>2. ~coin'.jam
      BY <2>4, <3>1 DEF Accepts
    <3> QED
      BY <1>1, <2>2, <2>4, <3>1, <3>2 DEF Sampled
  <2> QED
    BY <1>2, <2>1, <2>2, <2>3, <2>4, PollCoinUiType
<1>3. CASE CoinStatusRead
  <2> DEFINE count == IF sampler.whole /\ StatusPulse(coin) /\ ~sampler.line
                      THEN sampler.counted + 1 ELSE sampler.counted
  <2>1. sampler' = [line |-> StatusPulse(coin), counted |-> count, wait |-> 0,
                    whole |-> sampler.whole /\ ~TrainOver(coin)]
    BY <1>3 DEF CoinStatusRead
  <2>2. /\ sampler'.line = StatusPulse(coin) /\ sampler'.counted = count /\ sampler'.wait = 0
        /\ sampler.whole /\ ~TrainOver(coin)
    BY <2>1
  <2>3. coin' = coin /\ coin.emitting /\ ~coin.jam
    BY <1>3, <2>2 DEF CoinStatusRead, AfterRead, SampledTrain
  <2>4. TrainLength(coin.target) \in Nat /\ coin.age < TrainLength(coin.target)
    BY <1>1, <2>2, <2>3, TrainPeriods, Bounds DEF TrainOver, TrainSeen
  <2>5. StatusPulse(coin) <=> PulseLine(coin.target, coin.age)
    BY <2>2, <2>3 DEF StatusPulse, TrainSeen
  <2>6. Sampled(coin.target, coin.age, PulseLine(coin.target, coin.age),
                IF PulseLine(coin.target, coin.age) /\ ~sampler.line
                THEN sampler.counted + 1 ELSE sampler.counted, 0)
    BY <1>1, <2>2, <2>3, <2>4, SampledOnce DEF SampledTrain
  <2>7. /\ StatusPulse(coin) = PulseLine(coin.target, coin.age)
        /\ count = IF PulseLine(coin.target, coin.age) /\ ~sampler.line
                   THEN sampler.counted + 1 ELSE sampler.counted
    BY <2>2, <2>5 DEF StatusPulse, PulseLine, TrainSeen
  <2> HIDE DEF count
  <2> QED
    BY <2>2, <2>3, <2>6, <2>7
<1>4. ASSUME NEW bits \in SUBSET (0..2), CoinControlWrite(bits)
      PROVE  /\ coin'.emitting
             /\ ~coin'.jam
             /\ Sampled(coin'.target, coin'.age, sampler'.line, sampler'.counted, sampler'.wait)
  <2>1. /\ sampler' = sampler /\ coin'.emitting = coin.emitting /\ coin'.target = coin.target
        /\ coin'.age = coin.age /\ (coin'.jam => coin.jam)
    BY <1>1, <1>4 DEF CoinControlWrite, Control, CoinFit, CoinState
  <2> QED
    BY <2>1 DEF SampledTrain
<1>5. ASSUME NEW cmd \in ProtocolCommands, CoinCommand(cmd)
      PROVE  /\ coin'.emitting
             /\ ~coin'.jam
             /\ Sampled(coin'.target, coin'.age, sampler'.line, sampler'.counted, sampler'.wait)
  <2>1. /\ sampler' = sampler /\ coin'.emitting = coin.emitting /\ coin'.target = coin.target
        /\ coin'.age = coin.age /\ (coin'.jam => coin.jam)
    BY <1>1, <1>5 DEF CoinCommand, Commanded, CoinFit, CoinState, ProtocolCommands
  <2> QED
    BY <2>1 DEF SampledTrain
<1>6. ~CoinTimeout /\ ~CoinReset
  BY <1>1 DEF CoinTimeout, CoinReset, Sampler
<1>7. CASE CoinTick
  <2> DEFINE age == IF coin.emitting /\ coin.age < TrainLength(coin.target) THEN coin.age + 1 ELSE coin.age
  <2>1. /\ sampler' = [sampler EXCEPT !.wait = @ + 1]
        /\ coin' = [coin EXCEPT !.age = age]
    BY <1>7 DEF CoinTick
  <2>2. age \in {coin.age, coin.age + 1}
    OBVIOUS
  <2> HIDE DEF age
  <2>3. /\ coin'.emitting = coin.emitting /\ coin'.jam = coin.jam /\ coin'.target = coin.target
        /\ coin'.age = age
    BY <1>1, <2>1 DEF CoinFit, CoinState
  <2>4. /\ sampler'.line = sampler.line /\ sampler'.counted = sampler.counted
        /\ sampler'.whole = sampler.whole /\ sampler'.wait = sampler.wait + 1
    BY <1>1, <2>1 DEF Sampler
  <2> QED
    BY <1>1, <2>2, <2>3, <2>4, SampledLater DEF SampledTrain
<1>8. CASE UNCHANGED coinVars
  BY <1>8 DEF coinVars, SampledTrain
<1> QED
  BY <1>2, <1>3, <1>4, <1>5, <1>6, <1>7, <1>8 DEF CoinNext

CoinInv == CoinTypeOK /\ SampledTrain

LEMMA CoinInvInitially == CoinInit => CoinInv
  BY CoinTypeInitially DEF CoinInv, CoinInit, SampledTrain

LEMMA CoinInvStep == CoinInv /\ [CoinNext]_coinVars => CoinInv'
  BY CoinTypeStep, SampledTrainStep DEF CoinInv

LEMMA CoinInvImplies == CoinInv => PulsesCounted
<1> SUFFICES ASSUME CoinInv, TrainOver(coin), sampler.whole
             PROVE  sampler.counted = coin.target
  BY DEF PulsesCounted
<1>1. /\ CoinFit(coin) /\ sampler \in Sampler /\ coin.age \in Nat /\ coin.target \in Nat
      /\ sampler.wait \in 0..SamplePeriod /\ sampler.counted \in Nat /\ sampler.line \in BOOLEAN
      /\ coin.emitting /\ coin.target > 0 /\ coin.age >= TrainLength(coin.target)
  BY CoinTypeAs, CoinFields DEF CoinInv, CoinTypeOK, CoinFit, Sampler, TrainOver, TrainSeen
<1> QED
  BY <1>1, SampledToEnd DEF CoinInv, SampledTrain

\* Whatever the profile's timing and the coins, a train nothing cut that began on a line known to
\* be low has, when it is over, shown the firmware exactly its number of rising edges.
THEOREM CoinCorrect == CoinSpec => [](CoinTypeOK /\ PulsesCounted)
<1>1. CoinInv /\ [CoinNext]_coinVars => CoinInv'
  BY CoinInvStep
<1>2. CoinInv => CoinTypeOK /\ PulsesCounted
  BY CoinInvImplies DEF CoinInv
<1> QED
  BY CoinInvInitially, <1>1, <1>2, PTL DEF CoinSpec

-------------------------------------------------------------------------------
(* Card reader.  SwipeReadWhole speaks of a swipe that is over; the invariant follows it: *)
(* the firmware holds the bits of the cells that have gone by, and of the present one at  *)
(* most, and the bits are those of a track whose LRC tells whether it was forced.         *)

LEMMA CellOf ==
    ASSUME NEW i \in Nat \ {0}, NEW b \in 0..7
    PROVE  /\ (8 * (i - 1) + b) \div 8 = i - 1 /\ (8 * (i - 1) + b) % 8 = b
           /\ \A n \in Nat : i <= n => 8 * (i - 1) + b + 1 \in 1..(8 * n)
  OBVIOUS

LEMMA CellsOf ==
    ASSUME NEW n \in Nat, NEW k \in 1..(8 * n)
    PROVE  ((k - 1) \div 8) + 1 \in 1..n /\ (k - 1) % 8 \in 0..7
  OBVIOUS

LEMMA SeqIsFunction ==
    ASSUME NEW S, NEW s \in Seq(S)
    PROVE  s = [i \in 1..Len(s) |-> s[i]] /\ Len(s) \in Nat /\ \A i \in 1..Len(s) : s[i] \in S
  BY ElementOfSeq

\* The bits of a track are put together to the track again.
LEMMA BitsOfTrack ==
    ASSUME NEW track \in Seq(Char)
    PROVE  /\ BitsOf(track) \in Seq({0, 1}) /\ Len(BitsOf(track)) = 8 * Len(track)
           /\ CharsOf(BitsOf(track)) = track
<1> DEFINE n == Len(track)
           bits == BitsOf(track)
<1>1. n \in Nat /\ 8 * n \in Nat /\ (8 * n) \div 8 = n
  OBVIOUS
<1>2. \A i \in 1..n : track[i] \in Char
  BY ElementOfSeq
<1>3. bits \in [1..(8 * n) -> {0, 1}]
  <2> HIDE DEF n
  <2> QED
    BY <1>1, <1>2, CellsOf DEF BitsOf, Char, n
<1>4. bits \in Seq({0, 1}) /\ Len(bits) = 8 * n
  <2> HIDE DEF n, bits
  <2> QED
    BY <1>1, <1>3, SeqOfFunction
<1>5. ASSUME NEW i \in 1..n
      PROVE  [b \in 0..7 |-> bits[8 * (i - 1) + b + 1]] = track[i]
  <2>1. ASSUME NEW b \in 0..7 PROVE bits[8 * (i - 1) + b + 1] = track[i][b]
    <3>1. i \in Nat \ {0} /\ i <= n
      BY <1>1
    <3>2. /\ 8 * (i - 1) + b + 1 \in 1..(8 * n)
          /\ (8 * (i - 1) + b + 1 - 1) \div 8 = i - 1 /\ (8 * (i - 1) + b + 1 - 1) % 8 = b
      BY <1>1, <3>1
    <3> QED
      BY <3>1, <3>2 DEF BitsOf
  <2>2. track[i] = [b \in 0..7 |-> track[i][b]]
    BY <1>2 DEF Char
  <2> HIDE DEF bits
  <2> QED
    BY <2>1, <2>2
<1>6. CharsOf(bits) = [i \in 1..n |-> track[i]]
  <2> HIDE DEF bits
  <2>1. CharsOf(bits) = [i \in 1..n |-> [b \in 0..7 |-> bits[8 * (i - 1) + b + 1]]]
    BY <1>1, <1>4 DEF CharsOf
  <2> HIDE DEF n
  <2> QED
    BY <1>5, <2>1
<1> QED
  BY <1>4, <1>6, SeqIsFunction

\* The characters of a track that have bit b, and a track with one more.
Having(track, b) == {i \in DOMAIN track : track[i][b] = 1}

LEMMA HavingAppend ==
    ASSUME NEW body \in Seq(Char), NEW x \in Char, NEW b \in 0..7
    PROVE  /\ Cardinality(Having(body, b)) \in Nat
           /\ Cardinality(Having(Append(body, x), b)) = Cardinality(Having(body, b)) + x[b]
<1> DEFINE n == Len(body)
           S == Having(body, b)
           T == Having(Append(body, x), b)
<1>1. IsFiniteSet(S) /\ Cardinality(S) \in Nat
  <2>1. IsFiniteSet(1..n) /\ n \in Nat
    BY FS_Interval
  <2>2. S \in SUBSET (1..n)
    BY DEF Having
  <2> HIDE DEF S, n
  <2> QED
    BY <2>1, <2>2, FS_Subset, FS_CardinalityType
<1>2. /\ DOMAIN Append(body, x) = 1..(n + 1) /\ Append(body, x)[n + 1] = x
      /\ \A i \in 1..n : Append(body, x)[i] = body[i]
      /\ DOMAIN body = 1..n /\ n \in Nat
  <2>1. Len(Append(body, x)) = n + 1
    OBVIOUS
  <2> QED
    BY <2>1
<1>3. x[b] \in {0, 1}
  BY DEF Char
<1>4. CASE x[b] = 1
  <2>1. T = S \cup {n + 1} /\ n + 1 \notin S
    BY <1>2, <1>4 DEF Having
  <2> HIDE DEF S, T, n
  <2> QED
    BY <1>1, <1>4, <2>1, FS_AddElement DEF S, T
<1>5. CASE x[b] = 0
  <2>1. T = S
    BY <1>2, <1>5 DEF Having
  <2> HIDE DEF S, T, n
  <2> QED
    BY <1>1, <1>5, <2>1 DEF S, T
<1> QED
  BY <1>3, <1>4, <1>5

\* The LRC of a track holds unless it was forced to be wrong.
LEMMA TrackForced ==
    ASSUME NEW body \in Seq(Char), NEW forced \in BOOLEAN
    PROVE  /\ Track(body, forced) \in Seq(Char) /\ Track(body, forced) # <<>>
           /\ TrackXorOk(Track(body, forced)) <=> ~forced
<1> DEFINE x == IF forced THEN Spoilt(Lrc(body)) ELSE Lrc(body)
<1>1. \A b \in 0..7 : Cardinality(Having(body, b)) \in Nat
  <2>1. [b \in 0..7 |-> 0] \in Char
    BY DEF Char
  <2> QED
    BY <2>1, HavingAppend
<1>2. Lrc(body) = [b \in 0..7 |-> Cardinality(Having(body, b)) % 2]
  BY DEF Lrc, Having
<1>3. Lrc(body) \in Char
  <2>1. \A c \in Nat : c % 2 \in {0, 1}
    OBVIOUS
  <2>2. \A b \in 0..7 : Cardinality(Having(body, b)) % 2 \in {0, 1}
    BY <1>1, <2>1
  <2> QED
    BY <1>2, <2>2 DEF Char
<1>4. Spoilt(Lrc(body)) \in Char
  BY <1>3 DEF Char, Spoilt
<1>5. x \in Char
  BY <1>3, <1>4
<1>6. Track(body, forced) = Append(body, x)
  BY DEF Track
<1>7. Lrc(Append(body, x)) = [b \in 0..7 |-> (Cardinality(Having(body, b)) + x[b]) % 2]
  <2> HIDE DEF x
  <2>1. \A b \in 0..7 : Cardinality(Having(Append(body, x), b)) = Cardinality(Having(body, b)) + x[b]
    BY <1>5, HavingAppend
  <2> QED
    BY <2>1 DEF Lrc, Having
<1>8. CASE ~forced
  <2>1. \A b \in 0..7 : (Cardinality(Having(body, b)) + x[b]) % 2 = 0
    <3> SUFFICES ASSUME NEW b \in 0..7 PROVE (Cardinality(Having(body, b)) + x[b]) % 2 = 0
      OBVIOUS
    <3>1. PICK c \in Nat : c = Cardinality(Having(body, b))
      BY <1>1
    <3>2. x[b] = c % 2
      BY <1>2, <1>8, <3>1
    <3> QED
      BY <3>1, <3>2
  <2> HIDE DEF x
  <2>2. TrackXorOk(Append(body, x))
    BY <1>7, <2>1 DEF TrackXorOk
  <2> QED
    BY <1>5, <1>6, <1>8, <2>2, AppendProperties
<1>9. CASE forced
  <2>1. (Cardinality(Having(body, 1)) + x[1]) % 2 = 1
    <3>1. PICK c \in Nat : c = Cardinality(Having(body, 1))
      BY <1>1
    <3>2. x[1] = 1 - (c % 2)
      BY <1>2, <1>9, <3>1 DEF Spoilt
    <3> QED
      BY <3>1, <3>2
  <2> HIDE DEF x
  <2>2. ~TrackXorOk(Append(body, x))
    BY <1>7, <2>1 DEF TrackXorOk
  <2> QED
    BY <1>5, <1>6, <1>9, <2>2, AppendProperties
<1> QED
  BY <1>8, <1>9

\* A tick leaves the cell or goes to the next one, from the last tick of a cell.
LEMMA NextCell ==
    ASSUME NEW a \in Nat, NEW D \in Nat \ {0}
    PROVE  \/ (a + 1) \div D = a \div D
           \/ (a + 1) \div D = (a \div D) + 1 /\ a % D = D - 1
<1>1. PICK q \in Nat, r \in 0..(D - 1) : a = (D * q) + r /\ q = a \div D /\ r = a % D
  BY DivMod
<1>2. PICK p \in Nat, s \in 0..(D - 1) : a + 1 = (D * p) + s /\ p = (a + 1) \div D
  <2>1. a + 1 \in Nat
    OBVIOUS
  <2> QED
    BY <2>1, DivMod
<1>3. p - q \in Int /\ D * (p - q) = (D * p) - (D * q) /\ D * (p - q) \in Int
  <2>1. p \in Int /\ q \in Int
    BY <1>1, <1>2
  <2>2. D * (p - q) = (D * p) - (D * q)
    BY <2>1, TimesSum
  <2> QED
    BY <2>1, <2>2
<1>8. r \in 0..(D - 1) /\ s \in 0..(D - 1) /\ p \in Nat /\ q \in Nat
  BY <1>1, <1>2
<1>4. D * (p - q) = (r + 1) - s
  <2>1. D * p \in Int /\ D * q \in Int
    BY <1>1, <1>2
  <2> QED
    BY <1>1, <1>2, <1>3, <2>1
<1>5. (p - q >= 2 => D * (p - q) >= 2 * D) /\ (p - q <= -1 => D * (p - q) <= -D)
  <2>1. D * ((p - q) - 1) = (D * (p - q)) - (D * 1)
    BY <1>3, TimesSum
  <2>2. (p - q) - 1 >= 1 => D * ((p - q) - 1) >= D
    BY <1>3, TimesSign
  <2>3. p - q <= -1 => D * (p - q) <= -D
    BY <1>3, TimesSign
  <2> QED
    BY <1>3, <2>1, <2>2, <2>3
<1>6. p = q \/ p = q + 1
  BY <1>1, <1>2, <1>3, <1>4, <1>5
<1>7. p = q + 1 => r = D - 1
  <2> SUFFICES ASSUME p = q + 1 PROVE r = D - 1
    OBVIOUS
  <2>1. p - q = 1 /\ D * 1 = D
    BY <1>8
  <2>2. (r + 1) - s = D
    BY <1>4, <2>1
  <2> QED
    BY <1>8, <2>2
<1> QED
  BY <1>1, <1>2, <1>6, <1>7

Path == {"cp", "cfs"}

WholeSwipe(r, got) ==
    /\ r.armed /\ r.track # <<>> /\ r.bits = BitsOf(r.track)
    /\ TrackXorOk(r.track) <=> ~r.forced
    /\ BitIndex(r) <= Len(r.bits) /\ Len(got) <= Len(r.bits)
    /\ Len(got) = BitIndex(r) \/ Len(got) = BitIndex(r) + 1
    /\ \A i \in 1..Len(got) : got[i] = r.bits[i]

CardInv ==
    /\ CardTypeOK
    /\ head.whole => WholeSwipe(reader, head.got)

\* What a status tells of a reader.
LEMMA StatusTells ==
    ASSUME NEW r \in Reader
    PROVE  /\ "reading" \in StatusBits(r) <=> Showing(r) /\ BitIndex(r) < Len(r.bits)
           /\ "done" \in StatusBits(r) <=> Showing(r) /\ ~(BitIndex(r) < Len(r.bits))
           /\ "lrc_error" \in StatusBits(r) <=> ~r.lrcOk
<1>1. "reading" \notin r.stuck /\ "done" \notin r.stuck /\ "lrc_error" \notin r.stuck
  BY DEF Reader
<1> QED
  BY <1>1, Zenon DEF StatusBits

LEMMA CardInvImplies == CardInv => CardTypeOK /\ SwipeReadWhole
<1> SUFFICES ASSUME CardInv, head.whole, "done" \in StatusBits(reader)
             PROVE  LET track == CharsOf(head.got)
                    IN /\ track = reader.track
                       /\ TrackXorOk(track) <=> ~reader.forced
                       /\ ("lrc_error" \in StatusBits(reader)) <=> DecodeTrack2(track, TRUE, FALSE) = "lrc_failed"
  BY DEF CardInv, SwipeReadWhole
<1> DEFINE track == reader.track
           bits == reader.bits
           got == head.got
<1>1. reader \in Reader /\ WholeSwipe(reader, got)
  BY DEF CardInv, CardTypeOK
<1>2. /\ track \in Seq(Char) /\ track # <<>> /\ got \in Seq({0, 1}) /\ reader.lrcOk \in BOOLEAN
      /\ reader.lrcOk = (bits # <<>> /\ TrackXorOk(CharsOf(bits)))
  BY <1>1 DEF CardInv, CardTypeOK, Reader, HeadSamples, WholeSwipe
<1>3. bits \in Seq({0, 1}) /\ CharsOf(bits) = track
  BY <1>1, <1>2, BitsOfTrack DEF WholeSwipe
<1>4. got = bits
  <2>1. Len(got) = Len(bits)
    <3>1. ~(BitIndex(reader) < Len(bits))
      BY <1>1, StatusTells
    <3>2. /\ Len(got) \in Nat /\ Len(bits) \in Nat /\ Len(got) <= Len(bits)
          /\ BitIndex(reader) <= Len(bits) /\ (Len(got) = BitIndex(reader) \/ Len(got) = BitIndex(reader) + 1)
      BY <1>1, <1>2, <1>3 DEF WholeSwipe
    <3>3. BitIndex(reader) \in Nat
      BY <1>1, DivMod DEF BitIndex, Reader
    <3> QED
      BY <3>1, <3>2, <3>3
  <2>2. \A i \in 1..Len(got) : got[i] = bits[i]
    BY <1>1 DEF WholeSwipe
  <2> QED
    BY <1>2, <1>3, <2>1, <2>2, SeqEqual
<1>5. "lrc_error" \in StatusBits(reader) <=> ~TrackXorOk(track)
  <2>1. "lrc_error" \in StatusBits(reader) <=> ~reader.lrcOk
    BY <1>1, StatusTells
  <2>2. bits # <<>>
    BY <1>1, StatusTells DEF Showing
  <2> QED
    BY <1>2, <1>3, <2>1, <2>2
<1>6. DecodeTrack2(track, TRUE, FALSE) = "lrc_failed" <=> ~TrackXorOk(track)
  BY <1>2, Zenon DEF DecodeTrack2
<1> HIDE DEF track, bits, got
<1> QED
  BY <1>1, <1>3, <1>4, <1>5, <1>6 DEF WholeSwipe, track, got, bits

LEMMA CardInitInv == CardInit => CardInv
<1> SUFFICES ASSUME CardInit PROVE CardInv
  OBVIOUS
<1> DEFINE r == [track |-> <<>>, forced |-> FALSE, cell |-> DefaultCell, bits |-> <<>>, lrcOk |-> FALSE,
                 armed |-> FALSE, age |-> 0, stuck |-> {}]
<1>1. r \in Reader
  <2>1. <<>> \in Seq(Char) /\ <<>> \in Seq({0, 1})
    OBVIOUS
  <2>2. DefaultCell \in Nat \ {0}
    BY CardReaderAssumption
  <2> QED
    BY <2>1, <2>2 DEF Reader
<1>2. NoSwipe \in HeadSamples /\ ~NoSwipe.whole
  BY DEF NoSwipe, HeadSamples
<1>3. r.lrcOk = FALSE /\ r.bits = <<>>
  OBVIOUS
<1>4. reader = r /\ head = NoSwipe
  BY DEF CardInit
<1> HIDE DEF r
<1> QED
  BY <1>1, <1>2, <1>3, <1>4 DEF CardInv, CardTypeOK

LEMMA CardStepInv == CardInv /\ [CardNext]_cardVars => CardInv'
<1> SUFFICES ASSUME CardInv, [CardNext]_cardVars PROVE CardInv'
  OBVIOUS
<1> DEFINE Lrcd(r) == r.lrcOk = (r.bits # <<>> /\ TrackXorOk(CharsOf(r.bits)))
<1>0. /\ reader \in Reader /\ head \in HeadSamples /\ Lrcd(reader)
      /\ reader.cell \in Nat \ {0} /\ reader.age \in Nat /\ reader.bits \in Seq({0, 1})
      /\ head.got \in Seq({0, 1}) /\ BitIndex(reader) \in Nat
  <2>1. reader.cell \in Nat \ {0} /\ reader.age \in Nat
    BY DEF CardInv, CardTypeOK, Reader
  <2>2. BitIndex(reader) \in Nat
    BY <2>1, DivMod DEF BitIndex
  <2> QED
    BY <2>1, <2>2 DEF CardInv, CardTypeOK, Reader, HeadSamples
<1>1. NoSwipe \in HeadSamples /\ ~NoSwipe.whole
  BY DEF NoSwipe, HeadSamples
<1>2. ASSUME reader' \in Reader, Lrcd(reader'), head' = NoSwipe PROVE CardInv'
  BY <1>1, <1>2 DEF CardInv, CardTypeOK
<1>3. ASSUME NEW body \in TrackBodies, NEW forced \in LrcErrors, NEW cell \in CellTicks,
             SwipeCard(body, forced, cell)
      PROVE  CardInv'
  <2> DEFINE t == Track(body, forced)
             b == BitsOf(t)
             k == TrackXorOk(t)
             r == [reader EXCEPT !.track = t, !.forced = forced, !.cell = cell, !.bits = b, !.lrcOk = k,
                                 !.armed = TRUE, !.age = 0]
             A == Seq(Char)
             B == BOOLEAN
             N == Nat
             P == Nat \ {0}
             Z == Seq({0, 1})
             C == SUBSET Path
  <2>1. body \in Seq(Char) /\ forced \in BOOLEAN /\ cell \in P
    BY <1>3, CardReaderAssumption
  <2>2. t \in A /\ t # <<>> /\ (k <=> ~forced) /\ k \in B
    BY <2>1, TrackForced DEF TrackXorOk
  <2>3. b \in Z /\ CharsOf(b) = t /\ Len(b) \in Nat /\ b # <<>>
    <3>1. b \in Z /\ CharsOf(b) = t /\ Len(b) = 8 * Len(t) /\ Len(t) \in Nat \ {0}
      BY <2>2, BitsOfTrack, EmptySeq
    <3> QED
      BY <3>1, EmptySeq
  <2>4. reader' = r /\ head' = [got |-> <<>>, whole |-> TRUE]
    BY <1>3 DEF SwipeCard, FixtureLoaded, Reader
  <2>5. Reader = [track : A, forced : B, cell : P, bits : Z, lrcOk : B, armed : B, age : N, stuck : C]
    BY DEF Reader, Path
  <2>6. TRUE \in B /\ 0 \in N
    OBVIOUS
  <2> HIDE DEF t, b, k
  <2>7. r \in Reader
    <3>1. t \in A /\ forced \in B /\ cell \in P /\ b \in Z /\ k \in B /\ reader \in Reader
      BY <1>0, <2>1, <2>2, <2>3
    <3> HIDE DEF A, B, N, P, Z, C
    <3> QED
      BY ONLY <2>5, <2>6, <3>1, ZenonT(60)
  <2>8. /\ r.track = t /\ r.forced = forced /\ r.cell = cell /\ r.bits = b /\ r.lrcOk = k
        /\ r.armed /\ r.age = 0
    BY <1>0 DEF Reader
  <2> HIDE DEF r
  <2>9. BitIndex(r) = 0
    <3>1. 0 \div cell = 0
      BY <2>1
    <3> QED
      BY <2>8, <3>1 DEF BitIndex
  <2>10. head' \in HeadSamples /\ head'.got = <<>> /\ Len(head'.got) = 0
    BY <2>4 DEF HeadSamples
  <2>11. Lrcd(r)
    BY <2>2, <2>3, <2>8 DEF k
  <2>12. WholeSwipe(r, <<>>)
    <3>1. r.bits = BitsOf(r.track) /\ r.track # <<>> /\ (TrackXorOk(r.track) <=> ~r.forced)
      BY <2>2, <2>8 DEF b, k
    <3> QED
      BY <2>3, <2>8, <2>9, <3>1 DEF WholeSwipe
  <2> QED
    BY <2>4, <2>7, <2>10, <2>11, <2>12 DEF CardInv, CardTypeOK
<1>4. ASSUME NEW track \in TrackBodies \cup {<<>>}, BadTrackFile(track) PROVE CardInv'
  <2>1. track \in Seq(Char) /\ DefaultCell \in Nat \ {0}
    <3>1. <<>> \in Seq(Char)
      OBVIOUS
    <3> QED
      BY <1>4, <3>1, CardReaderAssumption
  <2>2. reader' \in Reader /\ reader'.lrcOk = reader.lrcOk /\ reader'.bits = reader.bits
    BY <1>0, <1>4, <2>1 DEF BadTrackFile, Reader
  <2> QED
    BY <1>0, <1>2, <1>4, <2>2 DEF BadTrackFile
<1>5. ASSUME AbortSwipe PROVE CardInv'
  <2>1. reader' \in Reader /\ reader'.lrcOk = reader.lrcOk /\ reader'.bits = reader.bits
    BY <1>0, <1>5 DEF AbortSwipe, Reader
  <2> QED
    BY <1>0, <1>2, <1>5, <2>1 DEF AbortSwipe
<1>6. ASSUME NEW stuck \in SensorFaults, SetPathSensors(stuck) PROVE CardInv'
  <2>1. /\ reader' \in Reader /\ reader' = [reader EXCEPT !.stuck = stuck]
        /\ reader'.lrcOk = reader.lrcOk /\ reader'.bits = reader.bits /\ reader'.armed = reader.armed
        /\ reader'.track = reader.track /\ reader'.forced = reader.forced
        /\ reader'.age = reader.age /\ reader'.cell = reader.cell /\ head' = head
    BY <1>0, <1>6, CardReaderAssumption DEF SetPathSensors, Reader
  <2>2. BitIndex(reader') = BitIndex(reader)
    BY <2>1 DEF BitIndex
  <2> QED
    BY <1>0, <2>1, <2>2 DEF CardInv, CardTypeOK, WholeSwipe
<1>7. ASSUME ReadDataBit PROVE CardInv'
  <2> DEFINE n == Len(head.got)
             x == DataBit(reader)
  <2>1. WholeSwipe(reader, head.got) /\ Showing(reader) /\ BitIndex(reader) < Len(reader.bits)
    BY <1>0, <1>7, StatusTells DEF ReadDataBit, CardInv
  <2>2. n = BitIndex(reader) /\ n \in Nat
    BY <1>0, <1>7, <2>1 DEF ReadDataBit, SampledCell, WholeSwipe
  <2>3. x = reader.bits[n + 1] /\ n + 1 \in 1..Len(reader.bits) /\ x \in {0, 1}
    <3>1. x = reader.bits[n + 1] /\ n + 1 \in 1..Len(reader.bits)
      BY <1>0, <2>1, <2>2 DEF DataBit
    <3> QED
      BY <1>0, <3>1, ElementOfSeq
  <2> HIDE DEF x
  <2>4. /\ Append(head.got, x) \in Seq({0, 1}) /\ Len(Append(head.got, x)) = n + 1
        /\ \A i \in 1..n : Append(head.got, x)[i] = head.got[i]
        /\ Append(head.got, x)[n + 1] = x
    BY <1>0, <2>3, AppendProperties
  <2>5. /\ reader' = reader /\ head' \in HeadSamples /\ head'.whole = head.whole
        /\ head'.got = Append(head.got, x)
    BY <1>0, <1>7, <2>4 DEF ReadDataBit, HeadSamples, x
  <2>6. WholeSwipe(reader, Append(head.got, x))
    <3> HIDE DEF n
    <3>1. \A i \in 1..(n + 1) : i \in 1..n \/ i = n + 1
      BY <2>2
    <3>2. \A i \in 1..n : head.got[i] = reader.bits[i]
      BY <2>1 DEF WholeSwipe, n
    <3>3. \A i \in 1..(n + 1) : Append(head.got, x)[i] = reader.bits[i]
      BY <2>3, <2>4, <3>1, <3>2
    <3>4. n + 1 <= Len(reader.bits)
      BY <2>2, <2>3
    <3> QED
      BY <2>1, <2>2, <2>4, <3>3, <3>4 DEF WholeSwipe
  <2> QED
    BY <1>0, <2>5, <2>6 DEF CardInv, CardTypeOK
<1>8. ASSUME CardTick PROVE CardInv'
  <2>1. /\ reader' = [reader EXCEPT !.age = @ + 1] /\ head' = head
        /\ Showing(reader) /\ BitIndex(reader) < Len(reader.bits)
    BY <1>0, <1>8, StatusTells DEF CardTick
  <2>2. /\ reader' \in Reader /\ reader'.age = reader.age + 1 /\ reader'.cell = reader.cell
        /\ reader'.lrcOk = reader.lrcOk /\ reader'.bits = reader.bits /\ reader'.armed = reader.armed
        /\ reader'.track = reader.track /\ reader'.forced = reader.forced
    <3>1. reader.age + 1 \in Nat
      BY <1>0
    <3>2. reader' = [reader EXCEPT !.age = reader.age + 1]
      BY <2>1
    <3>3. reader' \in Reader
      BY <1>0, <3>1, <3>2 DEF Reader
    <3> QED
      BY <1>0, <3>2, <3>3 DEF Reader
  <2>3. \/ BitIndex(reader') = BitIndex(reader)
        \/ BitIndex(reader') = BitIndex(reader) + 1 /\ reader.age % reader.cell = reader.cell - 1
    BY <1>0, <2>2, NextCell DEF BitIndex
  <2>4. ASSUME head.whole PROVE WholeSwipe(reader', head'.got)
    <3>1. WholeSwipe(reader, head.got)
      BY <2>4 DEF CardInv
    <3>2. CASE BitIndex(reader') = BitIndex(reader)
      BY <2>1, <2>2, <3>1, <3>2 DEF WholeSwipe
    <3>3. CASE BitIndex(reader') = BitIndex(reader) + 1 /\ reader.age % reader.cell = reader.cell - 1
      <4>1. Len(head.got) > BitIndex(reader)
        BY <1>8, <2>4, <3>3 DEF CardTick, SampledCell
      <4>2. Len(head.got) \in Nat /\ Len(reader.bits) \in Nat
        BY <1>0
      <4>3. Len(head.got) = BitIndex(reader) + 1 /\ BitIndex(reader) + 1 <= Len(reader.bits)
        BY <1>0, <2>1, <3>1, <4>1, <4>2 DEF WholeSwipe
      <4> QED
        BY <2>1, <2>2, <3>1, <3>3, <4>3 DEF WholeSwipe
    <3> QED
      BY <2>3, <3>2, <3>3
  <2> QED
    BY <1>0, <2>1, <2>2, <2>4 DEF CardInv, CardTypeOK
<1>9. ASSUME UNCHANGED cardVars PROVE CardInv'
  BY <1>9 DEF cardVars, CardInv, CardTypeOK
<1> QED
  BY <1>3, <1>4, <1>5, <1>6, <1>7, <1>8, <1>9 DEF CardNext

\* A firmware that samples the clock of the reader once per cell has read the whole of a swipe
\* when it is over, and knows whether its LRC holds.
THEOREM CardCorrect == CardSpec => [](CardTypeOK /\ SwipeReadWhole)
<1>1. CardInv => CardTypeOK /\ SwipeReadWhole
  BY CardInvImplies
<1> QED
  BY CardInitInv, CardStepInv, <1>1, PTL DEF CardSpec

-------------------------------------------------------------------------------
(* Smartcard.  What the firmware has read and what is in the FIFO stay the answers to what *)
(* the card took; half a command is the last byte taken, and the answers given before the  *)
(* ATR are the first of them.                                                              *)

\* What the n-th byte taken adds to the answers.
AnswersWith(f, taken, n, answers) ==
    IF n % 2 = 0 /\ IsReadCommand(taken[n - 1]) THEN Append(answers, MemoryCell(f, taken[n])) ELSE answers

IsAnswerRun(x, f, taken) ==
    /\ x[0] = <<>>
    /\ \A n \in 1..Len(taken) : x[n] = AnswersWith(f, taken, n, x[n - 1])
    /\ \A n \in 0..Len(taken) : x[n] \in Seq(Byte)
    /\ CardAnswers(f, taken) = x[Len(taken)]

LEMMA CellIsByte ==
    ASSUME NEW f \in CardFixture, f.memory # <<>>, NEW b \in Byte
    PROVE  MemoryCell(f, b) \in Byte
<1> DEFINE L == Len(f.memory)
<1>1. f.memory \in Seq(Byte) /\ L \in Nat \ {0} /\ b \in Nat
  BY EmptySeq DEF CardFixture, Byte
<1>2. b % L \in 0..(L - 1)
  <2> HIDE DEF L
  <2> QED
    BY <1>1, DivMod
<1>3. 1 + (b % L) \in 1..L
  <2> HIDE DEF L
  <2>1. PICK m \in 0..(L - 1) : m = b % L
    BY <1>2
  <2>2. 1 + m \in 1..L
    BY <1>1
  <2> QED
    BY <2>1, <2>2
<1> QED
  BY <1>1, <1>3, ElementOfSeq DEF MemoryCell

LEMMA AnswerRun ==
    ASSUME NEW f \in CardFixture, f.memory # <<>>, NEW taken \in Seq(Byte)
    PROVE  \E x : IsAnswerRun(x, f, taken)
<1> DEFINE N == Len(taken)
           S == Seq(Byte)
           Sums(h) == h = [n \in 0..N |-> IF n = 0 THEN <<>>
                                          ELSE IF n % 2 = 0 /\ IsReadCommand(taken[n - 1])
                                          THEN Append(h[n - 1], MemoryCell(f, taken[n]))
                                          ELSE h[n - 1]]
           x == CHOOSE h : Sums(h)
           step == [n \in 1..N |-> [s \in S |-> AnswersWith(f, taken, n, s)]]
<1>1. N \in Nat /\ <<>> \in S /\ \A n \in 1..N : taken[n] \in Byte
  BY ElementOfSeq
<1>2. \A n \in 1..N, s \in S : AnswersWith(f, taken, n, s) \in S /\ step[n][s] = AnswersWith(f, taken, n, s)
  <2> SUFFICES ASSUME NEW n \in 1..N, NEW s \in S PROVE AnswersWith(f, taken, n, s) \in S
    OBVIOUS
  <2>1. MemoryCell(f, taken[n]) \in Byte
    BY <1>1, CellIsByte
  <2> QED
    BY <2>1, AppendProperties DEF AnswersWith
<1>3. PICK g : IsRun(g, step, <<>>, N, S)
  <2>1. StepsWithin(step, N, S)
    BY <1>2 DEF StepsWithin
  <2> HIDE DEF step, S, N
  <2> QED
    BY <1>1, <2>1, Iterated
<1>4. \A n \in 1..N : n - 1 \in 0..N /\ n \in 0..N /\ n # 0
  BY <1>1
<1>5. \A n \in 0..N : g[n] = IF n = 0 THEN <<>> ELSE AnswersWith(f, taken, n, g[n - 1])
  <2>1. /\ g \in [0..N -> S] /\ g[0] = <<>>
        /\ \A n \in 1..N : g[n] = step[n][g[n - 1]]
    <3> HIDE DEF step
    <3> QED
      BY <1>3 DEF IsRun
  <2> SUFFICES ASSUME NEW n \in 0..N, n # 0 PROVE g[n] = AnswersWith(f, taken, n, g[n - 1])
    BY <2>1
  <2>2. n \in 1..N /\ g[n - 1] \in S
    BY <1>1, <2>1
  <2> HIDE DEF step
  <2> QED
    BY <1>2, <2>1, <2>2
<1>6. Sums(g)
  <2>1. g = [n \in 0..N |-> g[n]]
    BY <1>3 DEF IsRun
  <2> QED
    BY <1>5, <2>1 DEF AnswersWith
<1>7. Sums(x)
  BY <1>6
<1>8. CardAnswers(f, taken) = x[N]
  BY DEF CardAnswers
<1> HIDE DEF x
<1>9. x[0] = <<>> /\ \A n \in 1..N : x[n] = AnswersWith(f, taken, n, x[n - 1])
  <2>1. x = [n \in 0..N |-> IF n = 0 THEN <<>> ELSE AnswersWith(f, taken, n, x[n - 1])]
    BY <1>7 DEF AnswersWith
  <2>2. 0 \in 0..N
    BY <1>1
  <2> QED
    BY <1>4, <2>1, <2>2
<1> DEFINE T == {n \in 0..N : x[n] \in S}
<1>10. 0 \in T
  <2>1. 0 \in 0..N
    BY <1>1
  <2> QED
    BY <1>1, <1>9, <2>1
<1>11. \A n \in 1..N : n - 1 \in T => n \in T
  BY <1>1, <1>2, <1>4, <1>9
<1>12. \A n \in 0..N : n \in T
  <2> HIDE DEF T
  <2> QED
    BY <1>1, <1>10, <1>11, UpTo
<1> QED
  BY <1>8, <1>9, <1>12 DEF IsAnswerRun

LEMMA AnswersType ==
    ASSUME NEW f \in CardFixture, NEW taken \in Seq(Byte)
    PROVE  CardAnswers(f, taken) \in Seq(Byte) /\ CardAnswers(f, <<>>) = <<>>
<1>1. ASSUME f.memory # <<>>, NEW t \in Seq(Byte)
      PROVE  CardAnswers(f, t) \in Seq(Byte) /\ (t = <<>> => CardAnswers(f, t) = <<>>)
  <2>1. PICK x : IsAnswerRun(x, f, t)
    BY <1>1, AnswerRun
  <2>2. Len(t) \in 0..Len(t) /\ (t = <<>> => Len(t) = 0)
    OBVIOUS
  <2> QED
    BY <2>1, <2>2 DEF IsAnswerRun
<1>2. f.memory = <<>> => \A t : CardAnswers(f, t) = <<>>
  BY DEF CardAnswers
<1>3. <<>> \in Seq(Byte)
  OBVIOUS
<1> QED
  BY <1>1, <1>2, <1>3

\* One more byte: an answer more if it ends a read pair.
LEMMA AnswersAppend ==
    ASSUME NEW f \in CardFixture, f.memory # <<>>, NEW taken \in Seq(Byte), NEW b \in Byte
    PROVE  CardAnswers(f, Append(taken, b)) =
             IF Len(taken) % 2 = 1 /\ IsReadCommand(taken[Len(taken)])
             THEN Append(CardAnswers(f, taken), MemoryCell(f, b)) ELSE CardAnswers(f, taken)
<1> DEFINE N == Len(taken)
           more == Append(taken, b)
<1>1. /\ N \in Nat /\ more \in Seq(Byte) /\ Len(more) = N + 1 /\ more[N + 1] = b
      /\ \A n \in 1..N : more[n] = taken[n]
  BY AppendProperties
<1>2. PICK x : IsAnswerRun(x, f, taken)
  BY AnswerRun
<1>3. PICK y : IsAnswerRun(y, f, more)
  BY <1>1, AnswerRun
<1> HIDE DEF more
<1> DEFINE T == {n \in 0..N : x[n] = y[n]}
<1>4. 0 \in T
  BY <1>1, <1>2, <1>3 DEF IsAnswerRun
<1>5. \A n \in 1..N : n - 1 \in T => n \in T
  <2> SUFFICES ASSUME NEW n \in 1..N, x[n - 1] = y[n - 1] PROVE n \in T
    OBVIOUS
  <2>1. n \in 1..Len(more) /\ n \in 0..N
    BY <1>1
  <2>2. x[n] = AnswersWith(f, taken, n, x[n - 1]) /\ y[n] = AnswersWith(f, more, n, y[n - 1])
    BY <1>2, <1>3, <2>1 DEF IsAnswerRun
  <2>3. n % 2 = 0 => n - 1 \in 1..N
    BY <1>1
  <2>4. AnswersWith(f, taken, n, x[n - 1]) = AnswersWith(f, more, n, x[n - 1])
    BY <1>1, <2>3 DEF AnswersWith
  <2> QED
    BY <2>1, <2>2, <2>4
<1>6. x[N] = y[N]
  <2>1. \A n \in 0..N : n \in T
    <3> HIDE DEF T
    <3> QED
      BY <1>1, <1>4, <1>5, UpTo
  <2> QED
    BY <1>1, <2>1
<1>7. y[N + 1] = AnswersWith(f, more, N + 1, y[N])
  <2>1. N + 1 \in 1..Len(more) /\ (N + 1) - 1 = N
    BY <1>1
  <2> QED
    BY <1>3, <2>1 DEF IsAnswerRun
<1>8. CardAnswers(f, more) = y[N + 1] /\ CardAnswers(f, taken) = x[N]
  BY <1>1, <1>2, <1>3 DEF IsAnswerRun
<1>9. /\ (N + 1) % 2 = 0 <=> N % 2 = 1
      /\ N % 2 = 1 => more[(N + 1) - 1] = taken[N]
  <2>1. (N + 1) - 1 = N /\ ((N + 1) % 2 = 0 <=> N % 2 = 1) /\ (N % 2 = 1 => N \in 1..N)
    BY <1>1
  <2> QED
    BY <1>1, <2>1
<1> QED
  BY <1>1, <1>6, <1>7, <1>8, <1>9 DEF AnswersWith, more

LEMMA ShiftOne ==
    ASSUME NEW S, NEW g \in Seq(S), NEW r \in Seq(S), r # <<>>
    PROVE  /\ Append(g, Head(r)) \in Seq(S) /\ Tail(r) \in Seq(S)
           /\ Append(g, Head(r)) \o Tail(r) = g \o r
<1> DEFINE a == Append(g, Head(r))
           t == Tail(r)
           n == Len(g)
           m == Len(r)
<1>1. /\ t \in Seq(S) /\ Len(t) = m - 1 /\ \A i \in 1..Len(t) : t[i] = r[i + 1]
      /\ Head(r) \in S /\ Head(r) = r[1] /\ n \in Nat /\ m \in Nat \ {0}
  BY HeadTailProperties, EmptySeq
<1>2. /\ a \in Seq(S) /\ Len(a) = n + 1 /\ \A i \in 1..n : a[i] = g[i]
      /\ a[n + 1] = r[1]
  BY <1>1, AppendProperties
<1>3. /\ a \o t \in Seq(S) /\ Len(a \o t) = Len(a) + Len(t)
      /\ \A i \in 1..Len(a) + Len(t) : (a \o t)[i] = IF i <= Len(a) THEN a[i] ELSE t[i - Len(a)]
  BY <1>1, <1>2, ConcatProperties
<1>4. /\ g \o r \in Seq(S) /\ Len(g \o r) = n + m
      /\ \A i \in 1..n + m : (g \o r)[i] = IF i <= n THEN g[i] ELSE r[i - n]
  BY ConcatProperties
<1> HIDE DEF a, t, n, m
<1>5. Len(a \o t) = Len(g \o r) /\ Len(g \o r) = n + m
  BY <1>1, <1>2, <1>3, <1>4
<1>6. ASSUME NEW i \in 1..(n + m) PROVE (a \o t)[i] = (g \o r)[i]
  <2>1. CASE i <= n
    <3>1. i \in 1..n /\ i <= n + 1 /\ i \in 1..Len(a) + Len(t)
      BY <1>1, <1>2, <2>1
    <3> QED
      BY <1>2, <1>3, <1>4, <2>1, <3>1
  <2>2. CASE i = n + 1
    <3>1. ~(i <= n) /\ i - n = 1 /\ i <= Len(a) /\ i \in 1..Len(a) + Len(t)
      BY <1>1, <1>2, <2>2
    <3>2. (a \o t)[i] = a[i] /\ (g \o r)[i] = r[i - n]
      BY <1>3, <1>4, <3>1
    <3>3. a[i] = r[1]
      BY <1>2, <2>2
    <3> QED
      BY <3>1, <3>2, <3>3
  <2>3. CASE i > n + 1
    <3>1. ~(i <= n) /\ ~(i <= n + 1) /\ i \in 1..Len(a) + Len(t) /\ i - Len(a) \in 1..Len(t)
          /\ (i - Len(a)) + 1 = i - n
      BY <1>1, <1>2, <2>3
    <3>2. (a \o t)[i] = t[i - Len(a)] /\ t[i - Len(a)] = r[(i - Len(a)) + 1] /\ (g \o r)[i] = r[i - n]
      BY <1>1, <1>2, <1>3, <1>4, <3>1
    <3>3. r[(i - Len(a)) + 1] = r[i - n]
      BY <3>1, Zenon
    <3> QED
      BY <3>2, <3>3, Zenon
  <2>4. i <= n \/ i = n + 1 \/ i > n + 1
    BY <1>1
  <2> QED
    BY <2>1, <2>2, <2>3, <2>4
<1>7. a \o t = g \o r
  BY <1>3, <1>4, <1>5, <1>6, SeqEqual
<1> QED
  BY <1>1, <1>2, <1>7 DEF a, t

LEMMA OneMore ==
    ASSUME NEW S, NEW g \in Seq(S), NEW r \in Seq(S), NEW c \in S
    PROVE  g \o Append(r, c) = Append(g \o r, c)
<1>1. <<c>> \in Seq(S) /\ Append(r, c) = r \o <<c>> /\ g \o r \in Seq(S)
  BY AppendIsConcat, ConcatProperties
<1>2. g \o (r \o <<c>>) = (g \o r) \o <<c>>
  BY <1>1, ConcatAssociative
<1>3. Append(g \o r, c) = (g \o r) \o <<c>>
  BY <1>1, AppendIsConcat
<1> QED
  BY <1>1, <1>2, <1>3

LEMMA TwoParts ==
    ASSUME NEW S, NEW a \in Seq(S), NEW n \in 0..Len(a)
    PROVE  /\ SubSeq(a, 1, n) \in Seq(S) /\ Len(SubSeq(a, 1, n)) = n
           /\ \A i \in 1..n : SubSeq(a, 1, n)[i] = a[i]
           /\ SubSeq(a, n + 1, Len(a)) \in Seq(S) /\ Len(SubSeq(a, n + 1, Len(a))) = Len(a) - n
           /\ \A i \in 1..(Len(a) - n) : SubSeq(a, n + 1, Len(a))[i] = a[n + i]
<1>1. Len(a) \in Nat /\ n \in Nat /\ \A i \in 1..Len(a) : a[i] \in S
  BY ElementOfSeq
<1>2. /\ SubSeq(a, 1, n) \in Seq(S) /\ Len(SubSeq(a, 1, n)) = IF 1 <= n THEN n - 1 + 1 ELSE 0
      /\ \A i \in 1 .. n - 1 + 1 : SubSeq(a, 1, n)[i] = a[1 + i - 1]
  <2>1. \A i \in 1..n : a[i] \in S
    BY <1>1
  <2>2. 1 \in Int /\ n \in Int
    BY <1>1
  <2> QED
    BY <2>1, <2>2, SubSeqProperties
<1>3. /\ SubSeq(a, n + 1, Len(a)) \in Seq(S)
      /\ Len(SubSeq(a, n + 1, Len(a))) = IF n + 1 <= Len(a) THEN Len(a) - (n + 1) + 1 ELSE 0
      /\ \A i \in 1 .. Len(a) - (n + 1) + 1 : SubSeq(a, n + 1, Len(a))[i] = a[n + 1 + i - 1]
  <2>1. \A i \in (n + 1)..Len(a) : a[i] \in S
    BY <1>1
  <2>2. n + 1 \in Int /\ Len(a) \in Int
    BY <1>1
  <2> QED
    BY <2>1, <2>2, SubSeqProperties
<1>4. ASSUME NEW i \in 1..n PROVE SubSeq(a, 1, n)[i] = a[i]
  <2>1. 1 + i - 1 = i /\ i \in 1 .. n - 1 + 1
    BY <1>1
  <2> QED
    BY <1>2, <2>1
<1>5. ASSUME NEW i \in 1..(Len(a) - n) PROVE SubSeq(a, n + 1, Len(a))[i] = a[n + i]
  <2>1. n + 1 + i - 1 = n + i /\ i \in 1 .. Len(a) - (n + 1) + 1
    BY <1>1
  <2> QED
    BY <1>3, <2>1
<1>6. Len(SubSeq(a, 1, n)) = n /\ Len(SubSeq(a, n + 1, Len(a))) = Len(a) - n
  <2> DEFINE p == SubSeq(a, 1, n)
             q == SubSeq(a, n + 1, Len(a))
             L == Len(a)
  <2>1. Len(p) = IF 1 <= n THEN n - 1 + 1 ELSE 0
    BY <1>2
  <2>2. Len(q) = IF n + 1 <= L THEN L - (n + 1) + 1 ELSE 0
    BY <1>3
  <2>3. L \in Nat /\ n \in Nat /\ n <= L
    BY <1>1
  <2> HIDE DEF p, q, L
  <2>4. Len(p) = n /\ Len(q) = L - n
    BY <2>1, <2>2, <2>3
  <2> QED
    BY <2>4 DEF p, q, L
<1> QED
  BY <1>2, <1>3, <1>4, <1>5, <1>6

LEMMA WholeParts ==
    ASSUME NEW S, NEW a \in Seq(S)
    PROVE  SubSeq(a, 1, Len(a)) = a /\ SubSeq(a, Len(a) + 1, Len(a)) = <<>>
<1>1. Len(a) \in 0..Len(a)
  OBVIOUS
<1>2. SubSeq(a, 1, Len(a)) = a
  BY <1>1, TwoParts, SeqEqual
<1>3. SubSeq(a, Len(a) + 1, Len(a)) = <<>>
  <2>1. Len(a) + 1 \in Int /\ Len(a) \in Int /\ Len(a) < Len(a) + 1
    OBVIOUS
  <2> QED
    BY <2>1, SubSeqEmpty
<1> QED
  BY <1>2, <1>3

LEMMA PartsAppend ==
    ASSUME NEW S, NEW a \in Seq(S), NEW n \in 0..Len(a), NEW c \in S
    PROVE  /\ SubSeq(Append(a, c), 1, n) = SubSeq(a, 1, n)
           /\ SubSeq(Append(a, c), n + 1, Len(Append(a, c))) = Append(SubSeq(a, n + 1, Len(a)), c)
<1> DEFINE b == Append(a, c)
           L == Len(a)
           tail == SubSeq(a, n + 1, L)
<1>1. /\ b \in Seq(S) /\ Len(b) = L + 1 /\ b[L + 1] = c /\ \A i \in 1..L : b[i] = a[i]
      /\ L \in Nat /\ n \in Nat /\ n <= L
  BY AppendProperties
<1>2. n \in 0..Len(b)
  BY <1>1
<1>3. /\ SubSeq(a, 1, n) \in Seq(S) /\ Len(SubSeq(a, 1, n)) = n
      /\ \A i \in 1..n : SubSeq(a, 1, n)[i] = a[i]
      /\ tail \in Seq(S) /\ Len(tail) = L - n
      /\ \A i \in 1..(L - n) : tail[i] = a[n + i]
  BY TwoParts
<1> HIDE DEF b
<1>4. /\ SubSeq(b, 1, n) \in Seq(S) /\ Len(SubSeq(b, 1, n)) = n
      /\ \A i \in 1..n : SubSeq(b, 1, n)[i] = b[i]
      /\ SubSeq(b, n + 1, Len(b)) \in Seq(S) /\ Len(SubSeq(b, n + 1, Len(b))) = Len(b) - n
      /\ \A i \in 1..(Len(b) - n) : SubSeq(b, n + 1, Len(b))[i] = b[n + i]
  BY <1>1, <1>2, TwoParts
<1> HIDE DEF L, tail
<1>5. SubSeq(b, 1, n) = SubSeq(a, 1, n)
  <2>1. \A i \in 1..n : i \in 1..L
    BY <1>1
  <2> QED
    BY <1>1, <1>3, <1>4, <2>1, SeqEqual
<1>6. /\ Append(tail, c) \in Seq(S) /\ Len(Append(tail, c)) = (L - n) + 1
      /\ Append(tail, c)[(L - n) + 1] = c
      /\ \A i \in 1..(L - n) : Append(tail, c)[i] = tail[i]
  BY <1>3, AppendProperties
<1>7. Len(b) - n = (L - n) + 1
  BY <1>1
<1>8. ASSUME NEW i \in 1..((L - n) + 1)
      PROVE  SubSeq(b, n + 1, Len(b))[i] = Append(tail, c)[i]
  <2>1. CASE i = (L - n) + 1
    <3>1. n + i = L + 1 /\ i \in 1..(Len(b) - n)
      BY <1>1, <2>1
    <3> QED
      BY <1>1, <1>4, <1>6, <2>1, <3>1
  <2>2. CASE i # (L - n) + 1
    <3>1. i \in 1..(L - n) /\ n + i \in 1..L /\ i \in 1..(Len(b) - n)
      BY <1>1, <2>2
    <3> QED
      BY <1>1, <1>3, <1>4, <1>6, <3>1
  <2> QED
    BY <2>1, <2>2
<1>9. SubSeq(b, n + 1, Len(b)) = Append(tail, c)
  BY <1>4, <1>6, <1>7, <1>8, SeqEqual
<1> QED
  BY <1>5, <1>9 DEF b, tail, L

\* What the firmware has been told: the answers, with the ATR behind the first n of them.
Told(atrDone, all, n, atr) ==
    IF atrDone THEN SubSeq(all, 1, n) \o atr \o SubSeq(all, n + 1, Len(all)) ELSE all

LEMMA ToldMore ==
    ASSUME NEW S, NEW all \in Seq(S), NEW atr \in Seq(S), NEW n \in 0..Len(all), NEW c \in S, NEW done \in BOOLEAN
    PROVE  Told(done, Append(all, c), n, atr) = Append(Told(done, all, n, atr), c)
<1> DEFINE former == SubSeq(all, 1, n)
           tail == SubSeq(all, n + 1, Len(all))
<1>1. former \in Seq(S) /\ tail \in Seq(S)
  BY TwoParts
<1>2. /\ SubSeq(Append(all, c), 1, n) = former
      /\ SubSeq(Append(all, c), n + 1, Len(Append(all, c))) = Append(tail, c)
  BY PartsAppend
<1> DEFINE front == former \o atr
<1>3. front \in Seq(S)
  BY <1>1, ConcatProperties
<1>4. front \o Append(tail, c) = Append(front \o tail, c)
  <2> HIDE DEF front, tail
  <2> QED
    BY <1>1, <1>3, OneMore
<1> QED
  BY <1>2, <1>4, Zenon DEF Told

LEMMA ToldAll ==
    ASSUME NEW S, NEW all \in Seq(S), NEW atr \in Seq(S)
    PROVE  Told(TRUE, all, Len(all), atr) = all \o atr
<1>1. SubSeq(all, 1, Len(all)) = all /\ SubSeq(all, Len(all) + 1, Len(all)) = <<>>
  BY WholeParts
<1>2. (all \o atr) \o <<>> = all \o atr
  BY ConcatProperties, ConcatEmptySeq
<1> QED
  BY <1>1, <1>2 DEF Told

AnswersDue(s, d) == CardAnswers(s.fixture, d.taken)
DueBefore(s, d) == Len(CardAnswers(s.fixture, SubSeq(d.taken, 1, d.early)))

InDialogue(s, d) ==
    /\ d.early <= Len(d.taken)
    /\ s.cmdPhase <=> Len(d.taken) % 2 = 1
    /\ s.cmdPhase => s.cmd0 = d.taken[Len(d.taken)]
    /\ DueBefore(s, d) <= Len(AnswersDue(s, d))
    /\ d.got \o s.rx = Told(s.atrDone, AnswersDue(s, d), DueBefore(s, d), s.fixture.atr)

SmartInv ==
    /\ SmartTypeOK
    /\ slot.present /\ ~dialogue.torn => InDialogue(slot, dialogue)

LEMMA SmartInvImplies == SmartInv => SmartTypeOK /\ AnswersInOrder
  BY DEF SmartInv, InDialogue, Told, AnswersDue, DueBefore, AnswersInOrder

SlotFacts(s) ==
    /\ s.present \in BOOLEAN /\ s.fixture \in CardFixture /\ s.rx \in Seq(Byte) /\ s.atrDone \in BOOLEAN
    /\ s.block \in 0..AtrDelay /\ s.cmdPhase \in BOOLEAN /\ s.cmd0 \in Byte
    /\ s.selected \in {"none", "t0", "t1", "sync"} /\ s.authorized \in BOOLEAN
    /\ s.fixture.atr \in Seq(Byte) /\ s.fixture.memory \in Seq(Byte)

LEMMA SlotFields == ASSUME NEW s \in Slot PROVE SlotFacts(s)
  BY DEF Slot, SlotFacts, CardFixture

LEMMA DialogueFields ==
    ASSUME NEW d \in Dialogue
    PROVE  d.taken \in Seq(Byte) /\ d.early \in Nat /\ d.got \in Seq(Byte) /\ d.torn \in BOOLEAN
  BY DEF Dialogue

LEMMA NoDialogueType == ASSUME NEW t \in BOOLEAN PROVE NoDialogue(t) \in Dialogue
<1>1. <<>> \in Seq(Byte) /\ 0 \in Nat
  OBVIOUS
<1> QED
  BY <1>1 DEF NoDialogue, Dialogue

\* A dialogue that begins: nothing is in the FIFO and no command is half taken.
LEMMA FreshDialogue ==
    ASSUME NEW s \in Slot, NEW t \in BOOLEAN, s.rx = <<>>, ~s.atrDone, ~s.cmdPhase
    PROVE  InDialogue(s, NoDialogue(t))
<1> DEFINE d == NoDialogue(t)
<1>1. s.fixture \in CardFixture
  BY SlotFields DEF SlotFacts
<1>2. d.taken = <<>> /\ d.early = 0 /\ d.got = <<>>
  BY DEF NoDialogue
<1>3. SubSeq(<<>>, 1, 0) = <<>> /\ Len(<<>>) = 0 /\ 0 % 2 = 0 /\ <<>> \o <<>> = <<>>
  <2>1. <<>> \in Seq(Byte)
    OBVIOUS
  <2>2. SubSeq(<<>>, 1, 0) = <<>>
    BY SubSeqEmpty
  <2> QED
    BY <2>1, <2>2, ConcatEmptySeq
<1>4. CardAnswers(s.fixture, <<>>) = <<>>
  <2>1. <<>> \in Seq(Byte)
    OBVIOUS
  <2> QED
    BY <1>1, <2>1, AnswersType
<1> HIDE DEF d
<1>5. AnswersDue(s, d) = <<>> /\ DueBefore(s, d) = 0
  BY <1>2, <1>3, <1>4 DEF AnswersDue, DueBefore
<1> QED
  BY <1>2, <1>3, <1>5 DEF InDialogue, Told, d

LEMMA SameDialogue ==
    ASSUME NEW s, NEW d, NEW p, InDialogue(s, d), p.fixture = s.fixture, p.rx = s.rx,
           p.atrDone = s.atrDone, p.cmdPhase = s.cmdPhase, p.cmd0 = s.cmd0
    PROVE  InDialogue(p, d)
  BY DEF InDialogue, AnswersDue, DueBefore

LEMMA Alternates == ASSUME NEW n \in Nat PROVE (n + 1) % 2 = 1 <=> ~(n % 2 = 1)
  OBVIOUS

\* A byte for the card: the second of a read pair is answered.
LEMMA CommandInDialogue ==
    ASSUME NEW s \in Slot, NEW d \in Dialogue, NEW b \in Byte, InDialogue(s, d)
    PROVE  InDialogue(CommandTaken(s, b), [d EXCEPT !.taken = Append(@, b)])
<1> DEFINE q == [d EXCEPT !.taken = Append(@, b)]
           p == CommandTaken(s, b)
           n == Len(d.taken)
           all == AnswersDue(s, d)
           before == DueBefore(s, d)
           f == s.fixture
<1>1. /\ SlotFacts(s) /\ d.taken \in Seq(Byte) /\ d.early \in Nat /\ d.got \in Seq(Byte) /\ n \in Nat
      /\ f \in CardFixture
  BY SlotFields, DialogueFields DEF SlotFacts
<1>2. q.taken = Append(d.taken, b) /\ q.early = d.early /\ q.got = d.got
  BY DEF Dialogue
<1>3. /\ Append(d.taken, b) \in Seq(Byte) /\ Len(Append(d.taken, b)) = n + 1 /\ Append(d.taken, b)[n + 1] = b
  BY <1>1, AppendProperties
<1>4. /\ p.fixture = f /\ p.atrDone = s.atrDone
      /\ s.cmdPhase => ~p.cmdPhase /\ p.cmd0 = s.cmd0
      /\ ~s.cmdPhase => p.cmdPhase /\ p.cmd0 = b /\ p.rx = s.rx
      /\ s.cmdPhase => p.rx = IF IsReadCommand(s.cmd0) /\ f.memory # <<>>
                              THEN Append(s.rx, MemoryCell(f, b)) ELSE s.rx
  BY DEF CommandTaken, Slot
<1>5. (n + 1) % 2 = 1 <=> ~(n % 2 = 1)
  <2> HIDE DEF n
  <2> QED
    BY <1>1, Alternates
<1>6. /\ d.early <= n /\ (s.cmdPhase <=> n % 2 = 1) /\ (s.cmdPhase => s.cmd0 = d.taken[n])
      /\ before <= Len(all) /\ d.got \o s.rx = Told(s.atrDone, all, before, f.atr)
  BY DEF InDialogue
<1>7. SubSeq(Append(d.taken, b), 1, d.early) = SubSeq(d.taken, 1, d.early)
      /\ SubSeq(d.taken, 1, d.early) \in Seq(Byte)
  <2>1. d.early \in 0..n
    BY <1>1, <1>6
  <2> QED
    BY <1>1, <2>1, TwoParts, PartsAppend
<1>8. all \in Seq(Byte) /\ before \in 0..Len(all) /\ Len(all) \in Nat
  <2>1. all \in Seq(Byte)
    BY <1>1, AnswersType DEF AnswersDue
  <2>2. CardAnswers(f, SubSeq(d.taken, 1, d.early)) \in Seq(Byte)
    BY <1>1, <1>7, AnswersType
  <2>3. before \in Nat /\ Len(all) \in Nat
    BY <2>1, <2>2 DEF DueBefore
  <2> QED
    BY <1>6, <2>1, <2>3
<1>9. AnswersDue(p, q) = CardAnswers(f, Append(d.taken, b)) /\ DueBefore(p, q) = before
  BY <1>2, <1>4, <1>7 DEF AnswersDue, DueBefore
<1> HIDE DEF p, q, n, before, all
<1>10. CASE s.cmdPhase /\ IsReadCommand(s.cmd0) /\ f.memory # <<>>
  <2> DEFINE c == MemoryCell(f, b)
  <2>1. c \in Byte
    BY <1>1, <1>10, CellIsByte
  <2>2. AnswersDue(p, q) = Append(all, c)
    <3>1. CardAnswers(f, Append(d.taken, b)) = Append(CardAnswers(f, d.taken), c)
      BY <1>1, <1>6, <1>10, AnswersAppend DEF n
    <3> QED
      BY <1>9, <3>1 DEF all, AnswersDue
  <2> HIDE DEF c
  <2>3. Told(s.atrDone, Append(all, c), before, f.atr) = Append(Told(s.atrDone, all, before, f.atr), c)
    <3>1. f.atr \in Seq(Byte) /\ s.atrDone \in BOOLEAN
      BY <1>1 DEF SlotFacts
    <3> HIDE DEF f
    <3> QED
      BY ONLY <1>8, <2>1, <3>1, ToldMore
  <2>4. d.got \o Append(s.rx, c) = Append(d.got \o s.rx, c)
    <3> DEFINE g == d.got
               r == s.rx
    <3>1. g \in Seq(Byte) /\ r \in Seq(Byte)
      BY <1>1 DEF SlotFacts
    <3> HIDE DEF g, r
    <3>2. g \o Append(r, c) = Append(g \o r, c)
      BY ONLY <2>1, <3>1, OneMore
    <3> QED
      BY <3>2 DEF g, r
  <2>5. p.rx = Append(s.rx, c)
    BY <1>4, <1>10 DEF c
  <2>6. before <= Len(Append(all, c))
    BY <1>8, <2>1, AppendProperties
  <2>7. q.early <= Len(q.taken)
    <3>1. d.early <= n + 1
      BY <1>1, <1>6
    <3> QED
      BY <1>2, <1>3, <3>1
  <2>8. (p.cmdPhase <=> Len(q.taken) % 2 = 1) /\ ~p.cmdPhase
    BY <1>2, <1>3, <1>4, <1>5, <1>6, <1>10
  <2>9. q.got \o p.rx = Told(p.atrDone, AnswersDue(p, q), DueBefore(p, q), p.fixture.atr)
    BY <1>2, <1>4, <1>6, <1>9, <2>2, <2>3, <2>4, <2>5
  <2> QED
    BY <1>9, <2>2, <2>6, <2>7, <2>8, <2>9 DEF InDialogue, p, q
<1>11. CASE ~(s.cmdPhase /\ IsReadCommand(s.cmd0) /\ f.memory # <<>>)
  <2>1. AnswersDue(p, q) = all
    <3>1. CASE f.memory = <<>>
      BY <1>9, <3>1 DEF CardAnswers, all, AnswersDue
    <3>2. CASE f.memory # <<>>
      <4>1. ~(n % 2 = 1 /\ IsReadCommand(d.taken[n]))
        BY <1>6, <1>11, <3>2
      <4> QED
        BY <1>1, <1>9, <3>2, <4>1, AnswersAppend DEF all, AnswersDue, n
    <3> QED
      BY <3>1, <3>2
  <2>2. p.rx = s.rx
    BY <1>4, <1>11
  <2>3. p.cmdPhase => p.cmd0 = q.taken[Len(q.taken)]
    BY <1>2, <1>3, <1>4
  <2>4. q.early <= Len(q.taken)
    <3>1. d.early <= n + 1
      BY <1>1, <1>6
    <3> QED
      BY <1>2, <1>3, <3>1
  <2>5. p.cmdPhase <=> Len(q.taken) % 2 = 1
    BY <1>2, <1>3, <1>4, <1>5, <1>6
  <2> QED
    BY <1>2, <1>4, <1>6, <1>9, <2>1, <2>2, <2>3, <2>4, <2>5 DEF InDialogue, p, q
<1> QED
  BY <1>10, <1>11

LEMMA SmartInitInv == SmartInit => SmartInv
<1> SUFFICES ASSUME SmartInit PROVE SmartInv
  OBVIOUS
<1>1. PICK f \in CardFixtures :
         slot = [present |-> FALSE, fixture |-> f, rx |-> <<>>, atrDone |-> FALSE, block |-> 0,
                 cmdPhase |-> FALSE, cmd0 |-> 0, selected |-> "none", authorized |-> FALSE]
  BY DEF SmartInit
<1>2. f \in CardFixture /\ AtrDelay \in Nat
  BY SmartCardAssumption
<1>3. <<>> \in Seq(Byte) /\ 0 \in Byte /\ 0 \in 0..AtrDelay
  BY <1>2 DEF Byte
<1>4. slot \in Slot
  BY <1>1, <1>2, <1>3 DEF Slot
<1>5. ~slot.present /\ slot.rx = <<>> /\ ~slot.atrDone /\ slot.selected = "none"
  BY <1>1
<1> QED
  BY <1>4, <1>5, NoDialogueType DEF SmartInit, SmartInv, SmartTypeOK

\* A slot with the fields a step gives it.
LEMMA SlotOf ==
    ASSUME NEW s \in Slot, NEW present \in BOOLEAN, NEW f \in CardFixture, NEW rx \in Seq(Byte),
           NEW done \in BOOLEAN, NEW block \in 0..AtrDelay, NEW phase \in BOOLEAN, NEW c \in Byte,
           NEW sel \in {"none", "t0", "t1", "sync"}, NEW auth \in BOOLEAN
    PROVE  [s EXCEPT !.present = present, !.fixture = f, !.rx = rx, !.atrDone = done, !.block = block,
                     !.cmdPhase = phase, !.cmd0 = c, !.selected = sel, !.authorized = auth] \in Slot
<1> DEFINE A == CardFixture
           B == BOOLEAN
           Q == Seq(Byte)
           T == 0..AtrDelay
           C == Byte
           L == {"none", "t0", "t1", "sync"}
<1>1. Slot = [present : B, fixture : A, rx : Q, atrDone : B, block : T, cmdPhase : B, cmd0 : C,
              selected : L, authorized : B]
  BY DEF Slot
<1>2. /\ present \in B /\ f \in A /\ rx \in Q /\ done \in B /\ block \in T /\ phase \in B
      /\ c \in C /\ sel \in L /\ auth \in B
  OBVIOUS
<1> HIDE DEF A, B, Q, T, C, L
<1> QED
  BY <1>1, <1>2, ZenonT(60)

LEMMA CommandTakenType ==
    ASSUME NEW s \in Slot, NEW b \in Byte
    PROVE  /\ CommandTaken(s, b) \in Slot
           /\ CommandTaken(s, b).present = s.present /\ CommandTaken(s, b).block = s.block
           /\ CommandTaken(s, b).atrDone = s.atrDone /\ CommandTaken(s, b).selected = s.selected
<1> DEFINE p == CommandTaken(s, b)
           c == MemoryCell(s.fixture, b)
           rx == IF IsReadCommand(s.cmd0) /\ s.fixture.memory # <<>> THEN Append(s.rx, c) ELSE s.rx
<1>1. SlotFacts(s)
  BY SlotFields
<1>2. rx \in Seq(Byte)
  <2>1. s.fixture.memory # <<>> => c \in Byte
    BY <1>1, CellIsByte DEF SlotFacts
  <2>2. s.fixture.memory # <<>> => Append(s.rx, c) \in Seq(Byte)
    <3> HIDE DEF c
    <3> QED
      BY <1>1, <2>1, AppendProperties DEF SlotFacts
  <2> QED
    BY <1>1, <2>2 DEF SlotFacts
<1>3. CASE s.cmdPhase
  <2>1. p = [s EXCEPT !.cmdPhase = FALSE, !.rx = rx]
    BY <1>3 DEF CommandTaken, Slot
  <2> HIDE DEF rx
  <2> QED
    BY <1>2, <2>1 DEF Slot
<1>4. CASE ~s.cmdPhase
  <2>1. p = [s EXCEPT !.cmd0 = b, !.cmdPhase = TRUE]
    BY <1>4 DEF CommandTaken
  <2> QED
    BY <2>1 DEF Slot
<1> QED
  BY <1>3, <1>4

LEMMA WithAtrFacts ==
    ASSUME NEW s \in Slot
    PROVE  /\ WithAtr(s) \in Slot /\ WithAtr(s).atrDone
           /\ WithAtr(s).present = s.present /\ WithAtr(s).block = s.block
           /\ WithAtr(s).selected = s.selected /\ WithAtr(s).fixture = s.fixture
           /\ WithAtr(s).cmdPhase = s.cmdPhase /\ WithAtr(s).cmd0 = s.cmd0
           /\ WithAtr(s).rx = IF s.atrDone THEN s.rx ELSE s.rx \o s.fixture.atr
<1>1. SlotFacts(s)
  BY SlotFields
<1>2. s.rx \o s.fixture.atr \in Seq(Byte)
  BY <1>1, ConcatProperties DEF SlotFacts
<1> DEFINE rx == s.rx \o s.fixture.atr
<1>3. WithAtr(s) = IF s.atrDone THEN s ELSE [s EXCEPT !.rx = rx, !.atrDone = TRUE]
  BY DEF WithAtr, Slot
<1> HIDE DEF rx
<1>4. CASE s.atrDone
  BY <1>3, <1>4
<1>5. CASE ~s.atrDone
  <2>1. /\ [s EXCEPT !.rx = rx, !.atrDone = TRUE] \in Slot
    BY <1>2 DEF Slot, rx
  <2> QED
    BY <1>3, <1>5, <2>1 DEF Slot, rx
<1> QED
  BY <1>4, <1>5

\* The firmware's read: the ATR enters the FIFO behind the answers given so far, and the
\* first octet there goes to the firmware.
LEMMA ReadInv == ASSUME SmartInv, ReadFifo PROVE SmartInv'
<1> DEFINE ready == slot.present /\ slot.block = 0
           filled == IF ready THEN WithAtr(slot) ELSE slot
           takes == ready /\ filled.rx # <<>>
           early == IF ready /\ ~slot.atrDone THEN Len(dialogue.taken) ELSE dialogue.early
           got == IF takes THEN Append(dialogue.got, Head(filled.rx)) ELSE dialogue.got
           d == [dialogue EXCEPT !.early = early]
<1>0. /\ slot \in Slot /\ dialogue \in Dialogue /\ SlotFacts(slot)
      /\ dialogue.taken \in Seq(Byte) /\ dialogue.early \in Nat /\ dialogue.got \in Seq(Byte)
      /\ dialogue.torn \in BOOLEAN
      /\ ~slot.present => slot.rx = <<>> /\ ~slot.atrDone /\ slot.selected = "none"
      /\ slot.atrDone => slot.block = 0
      /\ slot.present /\ ~dialogue.torn => InDialogue(slot, dialogue)
  BY SlotFields, DialogueFields DEF SmartInv, SmartTypeOK
<1>1. /\ slot' = IF takes THEN [filled EXCEPT !.rx = Tail(@)] ELSE filled
      /\ dialogue' = [dialogue EXCEPT !.early = early, !.got = got]
  BY <1>0 DEF ReadFifo, Dialogue
<1>2. /\ filled \in Slot /\ filled.rx \in Seq(Byte) /\ filled.present = slot.present /\ filled.block = slot.block
      /\ filled.selected = slot.selected /\ filled.fixture = slot.fixture
      /\ filled.cmdPhase = slot.cmdPhase /\ filled.cmd0 = slot.cmd0
      /\ filled.atrDone => ready \/ slot.atrDone
      /\ ready => filled.atrDone /\ filled.rx = IF slot.atrDone THEN slot.rx ELSE slot.rx \o slot.fixture.atr
      /\ ~ready => filled = slot
  <2>1. CASE ready
    BY <1>0, <2>1, WithAtrFacts, SlotFields DEF SlotFacts
  <2>2. CASE ~ready
    BY <1>0, <2>2, SlotFields DEF SlotFacts
  <2> QED
    BY <2>1, <2>2
<1> HIDE DEF filled
<1>3. early \in Nat /\ d \in Dialogue /\ d.taken = dialogue.taken /\ d.got = dialogue.got
      /\ d.early = early /\ d.torn = dialogue.torn
  <2>1. early \in Nat
    BY <1>0
  <2> HIDE DEF early
  <2> QED
    BY <1>0, <2>1 DEF Dialogue
\* The ATR in the FIFO.
<1>4. slot.present /\ ~dialogue.torn => InDialogue(filled, d)
  <2> SUFFICES ASSUME slot.present, ~dialogue.torn PROVE InDialogue(filled, d)
    OBVIOUS
  <2>1. CASE ready /\ ~slot.atrDone
    <3> DEFINE all == AnswersDue(slot, dialogue)
               atr == slot.fixture.atr
               g == dialogue.got
               r == slot.rx
    <3>1. all \in Seq(Byte) /\ atr \in Seq(Byte) /\ g \in Seq(Byte) /\ r \in Seq(Byte) /\ Len(all) \in Nat
      <4>1. all \in Seq(Byte)
        BY <1>0, AnswersType DEF AnswersDue, SlotFacts
      <4> QED
        BY <1>0, <4>1 DEF SlotFacts
    <3>2. early = Len(dialogue.taken) /\ Len(dialogue.taken) \in Nat
      BY <1>0, <2>1
    <3>3. SubSeq(dialogue.taken, 1, early) = dialogue.taken
      BY <1>0, <3>2, WholeParts
    <3>4. AnswersDue(filled, d) = all /\ DueBefore(filled, d) = Len(all)
      <4>1. AnswersDue(filled, d) = all
        BY <1>2, <1>3 DEF AnswersDue
      <4>2. DueBefore(filled, d) = Len(all)
        BY <1>2, <1>3, <3>3 DEF AnswersDue, DueBefore
      <4> QED
        BY <4>1, <4>2
    <3>5. g \o r = all
      BY <1>0, <2>1 DEF InDialogue, Told
    <3> HIDE DEF all, atr, g, r
    <3>6. g \o (r \o atr) = all \o atr
      <4>1. (g \o r) \o atr = g \o (r \o atr)
        <5>1. \A s, t, u \in Seq(Byte) : (s \o t) \o u = s \o (t \o u)
          BY ConcatAssociative
        <5> QED
          BY ONLY <3>1, <5>1
      <4> QED
        BY <3>5, <4>1
    <3>7. Told(TRUE, all, Len(all), atr) = all \o atr
      BY ONLY <3>1, ToldAll
    <3>8. d.got \o filled.rx = Told(TRUE, all, Len(all), atr)
      BY <1>2, <1>3, <2>1, <3>6, <3>7 DEF g, r, atr
    <3>9. filled.atrDone = TRUE
      BY <1>2, <2>1, SlotFields DEF SlotFacts
    <3>10. d.got \o filled.rx = Told(filled.atrDone, AnswersDue(filled, d), DueBefore(filled, d), filled.fixture.atr)
      BY <1>2, <3>4, <3>8, <3>9 DEF atr
    <3>11. d.early <= Len(d.taken) /\ DueBefore(filled, d) <= Len(AnswersDue(filled, d))
      BY <1>3, <3>1, <3>2, <3>4
    <3>12. /\ filled.cmdPhase <=> Len(d.taken) % 2 = 1
           /\ filled.cmdPhase => filled.cmd0 = d.taken[Len(d.taken)]
      BY <1>0, <1>2, <1>3 DEF InDialogue
    <3> QED
      BY <3>10, <3>11, <3>12 DEF InDialogue
  <2>2. CASE ~(ready /\ ~slot.atrDone)
    <3>1. d = dialogue
      BY <1>0, <2>2 DEF Dialogue
    <3>2. filled.rx = slot.rx /\ filled.atrDone = slot.atrDone
      BY <1>2, <2>2, SlotFields DEF SlotFacts
    <3> QED
      BY <1>0, <1>2, <3>1, <3>2, SameDialogue
  <2> QED
    BY <2>1, <2>2
<1> HIDE DEF d, early
<1>5. CASE ~takes
  <2>1. slot' = filled /\ dialogue' = d
    BY <1>0, <1>1, <1>5 DEF d, Dialogue
  <2> QED
    BY <1>0, <1>2, <1>3, <1>4, <2>1 DEF SmartInv, SmartTypeOK
<1>6. CASE takes
  <2> DEFINE p == [filled EXCEPT !.rx = Tail(@)]
             r == filled.rx
             g == dialogue.got
             q == [dialogue EXCEPT !.early = early, !.got = Append(g, Head(r))]
  <2>1. Append(g, Head(r)) \in Seq(Byte) /\ Tail(r) \in Seq(Byte) /\ Append(g, Head(r)) \o Tail(r) = g \o r
    <3>1. g \in Seq(Byte) /\ r \in Seq(Byte) /\ r # <<>>
      BY <1>0, <1>2, <1>6
    <3> HIDE DEF g, r
    <3> QED
      BY ONLY <3>1, ShiftOne
  <2>2. p \in Slot /\ p.present = filled.present /\ p.block = filled.block /\ p.selected = filled.selected
        /\ p.fixture = filled.fixture /\ p.cmdPhase = filled.cmdPhase /\ p.cmd0 = filled.cmd0
        /\ p.atrDone = filled.atrDone /\ p.rx = Tail(r)
    BY <1>2, <2>1 DEF Slot
  <2>3. q \in Dialogue /\ q.torn = d.torn /\ q.taken = d.taken /\ q.early = d.early /\ q.got = Append(g, Head(r))
    BY <1>0, <1>3, <2>1 DEF Dialogue
  <2>4. slot' = p /\ dialogue' = q
    BY <1>1, <1>6
  <2> HIDE DEF p, q
  <2>5. InDialogue(filled, d) => InDialogue(p, q)
    BY <1>3, <2>1, <2>2, <2>3 DEF InDialogue, AnswersDue, DueBefore
  <2> QED
    BY <1>0, <1>2, <1>3, <1>4, <1>6, <2>2, <2>3, <2>4, <2>5 DEF SmartInv, SmartTypeOK
<1> QED
  BY <1>5, <1>6

LEMMA SmartStepInv == SmartInv /\ [SmartNext]_smartVars => SmartInv'
<1> SUFFICES ASSUME SmartInv, [SmartNext]_smartVars PROVE SmartInv'
  OBVIOUS
<1>0. /\ slot \in Slot /\ dialogue \in Dialogue /\ SlotFacts(slot) /\ AtrDelay \in Nat
      /\ dialogue.taken \in Seq(Byte) /\ dialogue.early \in Nat /\ dialogue.got \in Seq(Byte)
      /\ dialogue.torn \in BOOLEAN /\ <<>> \in Seq(Byte)
      /\ ~slot.present => slot.rx = <<>> /\ ~slot.atrDone /\ slot.selected = "none"
      /\ slot.atrDone => slot.block = 0
      /\ slot.present /\ ~dialogue.torn => InDialogue(slot, dialogue)
  BY SlotFields, DialogueFields, SmartCardAssumption DEF SmartInv, SmartTypeOK
<1> DEFINE B == BOOLEAN
           F == CardFixture
           Q == Seq(Byte)
           T == 0..AtrDelay
           C == Byte
           L == {"none", "t0", "t1", "sync"}
<1>1. /\ Slot = [present : B, fixture : F, rx : Q, atrDone : B, block : T, cmdPhase : B, cmd0 : C,
                 selected : L, authorized : B]
      /\ TRUE \in B /\ FALSE \in B /\ <<>> \in Q /\ AtrDelay \in T /\ "none" \in L
  BY <1>0 DEF Slot
<1>2. ASSUME slot' \in Slot, NEW t \in BOOLEAN, dialogue' = NoDialogue(t),
             slot'.rx = <<>>, ~slot'.atrDone, slot'.selected = "none" \/ slot'.present,
             slot'.present /\ ~t => ~slot'.cmdPhase
      PROVE  SmartInv'
  <2>1. dialogue' \in Dialogue /\ dialogue'.torn = t
    BY <1>2, NoDialogueType DEF NoDialogue
  <2>2. slot'.present /\ ~t => InDialogue(slot', dialogue')
    BY <1>2, FreshDialogue
  <2> QED
    BY <1>2, <2>1, <2>2 DEF SmartInv, SmartTypeOK
<1>14. slot \in Slot
  BY <1>0
<1>3. ASSUME NEW f \in CardFixtures, InsertCard(f) PROVE SmartInv'
  <2> DEFINE s == [slot EXCEPT !.present = TRUE, !.fixture = f, !.rx = <<>>, !.atrDone = FALSE, !.block = AtrDelay]
  <2>1. f \in F
    BY SmartCardAssumption
  <2>2. s \in Slot
    <3> HIDE DEF B, F, Q, T, C, L
    <3> QED
      BY ONLY <1>14, <1>1, <2>1, ZenonT(30)
  <2>3. s.present /\ s.rx = <<>> /\ ~s.atrDone /\ s.cmdPhase = slot.cmdPhase
    BY <1>0 DEF Slot
  <2>4. slot' = s /\ dialogue' = NoDialogue(slot.cmdPhase)
    BY <1>3 DEF InsertCard
  <2> HIDE DEF s
  <2> QED
    BY <1>0, <1>2, <2>2, <2>3, <2>4 DEF SlotFacts
<1>4. ASSUME NEW f \in CardFixtures, BadCardFile(f.protocol) PROVE SmartInv'
  <2> DEFINE g == BlankFixture(f.protocol)
             s == [slot EXCEPT !.fixture = g]
             d == [dialogue EXCEPT !.torn = TRUE]
  <2>1. g \in F
    BY <1>0, SmartCardAssumption DEF BlankFixture, CardFixture
  <2>2. s \in Slot
    <3> HIDE DEF g
    <3> QED
      BY <1>0, <2>1 DEF Slot
  <2>3. s.present = slot.present /\ s.rx = slot.rx /\ s.atrDone = slot.atrDone /\ s.block = slot.block
        /\ s.selected = slot.selected
    BY <1>0 DEF Slot
  <2>4. d \in Dialogue /\ d.torn
    BY <1>0 DEF Dialogue
  <2>5. slot' = s /\ dialogue' = d
    BY <1>4 DEF BadCardFile
  <2> HIDE DEF s, d
  <2> QED
    BY <1>0, <2>2, <2>3, <2>4, <2>5 DEF SmartInv, SmartTypeOK
<1>5. ASSUME RemoveCard PROVE SmartInv'
  <2> DEFINE s == [slot EXCEPT !.present = FALSE, !.rx = <<>>, !.atrDone = FALSE, !.selected = "none", !.authorized = FALSE]
  <2>1. s \in Slot
    <3> HIDE DEF B, F, Q, T, C, L
    <3> QED
      BY ONLY <1>14, <1>1, ZenonT(30)
  <2>2. ~s.present /\ s.rx = <<>> /\ ~s.atrDone /\ s.selected = "none"
    BY <1>0 DEF Slot
  <2>3. slot' = s /\ dialogue' = NoDialogue(slot.cmdPhase)
    BY <1>5 DEF RemoveCard
  <2> HIDE DEF s
  <2> QED
    BY <1>0, <1>2, <2>1, <2>2, <2>3 DEF SlotFacts
<1>6. ASSUME NotifyReset PROVE SmartInv'
  <2> DEFINE s == [slot EXCEPT !.rx = <<>>, !.atrDone = FALSE, !.block = AtrDelay, !.cmdPhase = FALSE]
  <2>1. s \in Slot
    <3> HIDE DEF B, F, Q, T, C, L
    <3> QED
      BY ONLY <1>14, <1>1, ZenonT(30)
  <2>2. s.present = slot.present /\ s.rx = <<>> /\ ~s.atrDone /\ ~s.cmdPhase
    BY <1>0 DEF Slot
  <2>3. slot' = s /\ dialogue' = NoDialogue(FALSE) /\ slot.present
    BY <1>6 DEF NotifyReset
  <2> HIDE DEF s
  <2> QED
    BY <1>0, <1>2, <2>1, <2>2, <2>3
<1>7. ASSUME ReadFifo PROVE SmartInv'
  BY <1>0, <1>7, ReadInv
<1>8. ASSUME NEW b \in CommandBytes, CardCommand(b) PROVE SmartInv'
  <2>1. b \in Byte
    BY SmartCardAssumption
  <2> DEFINE s == CommandTaken(slot, b)
             d == [dialogue EXCEPT !.taken = Append(@, b)]
  <2>2. CASE ~Takes(slot)
    <3>1. slot' = slot /\ dialogue' = dialogue
      BY <1>8, <2>2 DEF CardCommand
    <3> QED
      BY <1>0, <3>1 DEF SmartInv, SmartTypeOK
  <2>3. CASE Takes(slot)
    <3>1. slot' = s /\ dialogue' = d
      BY <1>8, <2>3 DEF CardCommand
    <3>2. d \in Dialogue /\ d.torn = dialogue.torn
      <4>1. Append(dialogue.taken, b) \in Seq(Byte)
        BY <1>0, <2>1, AppendProperties
      <4> QED
        BY <1>0, <4>1 DEF Dialogue
    <3>3. /\ s \in Slot /\ s.present = slot.present /\ s.block = slot.block /\ s.atrDone = slot.atrDone
          /\ s.selected = slot.selected
      BY <1>0, <2>1, CommandTakenType
    <3>4. slot.present
      BY <2>3 DEF Takes
    <3>5. ~dialogue.torn => InDialogue(s, d)
      BY <1>0, <2>1, <3>4, CommandInDialogue
    <3> HIDE DEF s, d
    <3> QED
      BY <1>0, <3>1, <3>2, <3>3, <3>4, <3>5 DEF SmartInv, SmartTypeOK
  <2> QED
    BY <2>2, <2>3
<1>9. ASSUME slot' \in Slot, dialogue' = dialogue, slot'.present = slot.present, slot'.rx = slot.rx,
             slot'.atrDone = slot.atrDone, slot'.cmdPhase = slot.cmdPhase, slot'.cmd0 = slot.cmd0,
             slot'.fixture = slot.fixture, slot'.block = slot.block \/ (slot.block > 0 /\ slot'.block \in 0..AtrDelay),
             ~slot.present => slot'.selected = slot.selected
      PROVE  SmartInv'
  <2>1. slot'.present /\ ~dialogue'.torn => InDialogue(slot', dialogue')
    BY <1>0, <1>9, SameDialogue
  <2> QED
    BY <1>0, <1>9, <2>1 DEF SmartInv, SmartTypeOK
<1>10. ASSUME NEW probe \in BOOLEAN, Negotiate(probe) PROVE SmartInv'
  <2>1. CASE ~(slot.present /\ Negotiated(slot.fixture, probe) # "none")
    <3>1. slot' = slot /\ dialogue' = dialogue
      BY <1>10, <2>1 DEF Negotiate
    <3> QED
      BY <1>0, <3>1 DEF SmartInv, SmartTypeOK
  <2>2. CASE slot.present /\ Negotiated(slot.fixture, probe) # "none"
    <3> DEFINE e == Negotiated(slot.fixture, probe)
    <3>1. e \in L
      BY DEF Negotiated
    <3>2. slot' = [slot EXCEPT !.selected = e] /\ dialogue' = dialogue
      BY <1>10, <2>2 DEF Negotiate
    <3> HIDE DEF e
    <3>3. slot' \in Slot
      BY <1>0, <3>1, <3>2 DEF Slot
    <3>4. slot'.present = slot.present /\ slot'.rx = slot.rx /\ slot'.atrDone = slot.atrDone
          /\ slot'.cmdPhase = slot.cmdPhase /\ slot'.cmd0 = slot.cmd0
          /\ slot'.fixture = slot.fixture /\ slot'.block = slot.block
      BY <1>0, <3>2 DEF Slot
    <3> QED
      BY <1>9, <2>2, <3>2, <3>3, <3>4
  <2> QED
    BY <2>1, <2>2
<1>11. ASSUME NEW granted \in BOOLEAN, Authorize(granted) PROVE SmartInv'
  <2>1. slot' = [slot EXCEPT !.authorized = granted] /\ dialogue' = dialogue
    BY <1>11 DEF Authorize
  <2>2. slot' \in Slot
    BY <1>0, <2>1 DEF Slot
  <2>3. slot'.present = slot.present /\ slot'.rx = slot.rx /\ slot'.atrDone = slot.atrDone
        /\ slot'.cmdPhase = slot.cmdPhase /\ slot'.cmd0 = slot.cmd0
        /\ slot'.fixture = slot.fixture /\ slot'.block = slot.block /\ slot'.selected = slot.selected
    BY <1>0, <2>1 DEF Slot
  <2> QED
    BY <1>9, <2>1, <2>2, <2>3
<1>12. ASSUME SmartTick PROVE SmartInv'
  <2>1. slot' = [slot EXCEPT !.block = slot.block - 1] /\ dialogue' = dialogue /\ slot.block > 0
    BY <1>0, <1>12 DEF SmartTick, Slot
  <2>2. slot.block - 1 \in 0..AtrDelay
    BY <1>0, <2>1 DEF SlotFacts
  <2>3. slot' \in Slot
    BY <1>0, <2>1, <2>2 DEF Slot
  <2>4. slot'.present = slot.present /\ slot'.rx = slot.rx /\ slot'.atrDone = slot.atrDone
        /\ slot'.cmdPhase = slot.cmdPhase /\ slot'.cmd0 = slot.cmd0
        /\ slot'.fixture = slot.fixture /\ slot'.block = slot.block - 1 /\ slot'.selected = slot.selected
    BY <1>0, <2>1 DEF Slot
  <2> QED
    BY <1>9, <2>1, <2>2, <2>3, <2>4
<1>13. ASSUME UNCHANGED smartVars PROVE SmartInv'
  BY <1>0, <1>13 DEF smartVars, SmartInv, SmartTypeOK
<1> QED
  BY <1>3, <1>4, <1>5, <1>6, <1>7, <1>8, <1>10, <1>11, <1>12, <1>13 DEF SmartNext

\* What the firmware reads out of the FIFO is the ATR and then the answers to the commands the
\* card took, each once and in their order.
THEOREM SmartcardCorrect == SmartSpec => [](SmartTypeOK /\ AnswersInOrder)
<1>1. SmartInv => SmartTypeOK /\ AnswersInOrder
  BY SmartInvImplies
<1> QED
  BY SmartInitInv, SmartStepInv, <1>1, PTL DEF SmartSpec

-------------------------------------------------------------------------------
(* Voice device.  What makes VoiceInStep inductive is that a device in reset plays nothing. *)

VoicewareInv ==
    /\ VoicewareTypeOK
    /\ vw.reset => ~chipBusy /\ ~vw.playing
    /\ VoiceInStep

LEMMA VoicewareInitInv == VoicewareInit => VoicewareInv
<1> SUFFICES ASSUME VoicewareInit PROVE VoicewareInv
  OBVIOUS
<1>1. DeviceReset \in Device
  BY VoicewareAssumption DEF DeviceReset, Device
<1>2. DriverReset \in Driver
  BY DEF DriverReset, Driver
<1>3. ~DeviceReset.reset /\ ~DeviceReset.playing /\ ~DriverReset.int0
  BY DEF DeviceReset, DriverReset
<1> QED
  BY <1>1, <1>2, <1>3 DEF VoicewareInit, VoicewareInv, VoicewareTypeOK, VoiceInStep, Playing

LEMMA DeviceFields ==
    ASSUME NEW d \in Device
    PROVE  /\ d.reset \in BOOLEAN /\ d.latched \in BOOLEAN /\ d.bank \in Banks /\ d.chipBank \in Banks \cup {NoBank}
           /\ d.phrase \in PhraseSet /\ d.pcm \in Nat /\ d.playing \in BOOLEAN /\ d.had \in BOOLEAN
  BY DEF Device

LEMMA BankAppliedType ==
    ASSUME NEW d \in Device
    PROVE  /\ BankApplied(d) \in Device /\ BankApplied(d).reset = d.reset /\ BankApplied(d).playing = d.playing
           /\ BankApplied(d).bank = d.bank
  BY DEF BankApplied, Device

\* The device as a phrase starts: what a lookup in its bank makes of it.
LEMMA StartedType ==
    ASSUME NEW d \in Device, NEW p \in PhraseSet
    PROVE  /\ Pieces[d.bank][p] \in Nat /\ Decodes(d, p) \in BOOLEAN /\ BufferAfter(d, p) \in Nat
           /\ Decodes(d, p) => Pieces[d.bank][p] > 0
<1>1. Pieces[d.bank][p] \in Nat
  BY VoicewareAssumption, DeviceFields
<1> QED
  BY <1>1, DeviceFields DEF Decodes, BufferAfter

StartedAs(d, p, playing, pcm) == [d EXCEPT !.phrase = p, !.playing = playing, !.pcm = pcm]

LEMMA StartedAsType ==
    ASSUME NEW d \in Device, NEW p \in PhraseSet, NEW playing \in BOOLEAN, NEW pcm \in Nat
    PROVE  /\ StartedAs(d, p, playing, pcm) \in Device
           /\ StartedAs(d, p, playing, pcm).reset = d.reset
           /\ StartedAs(d, p, playing, pcm).playing = playing
  BY DEF Device, StartedAs

\* A phrase written, from the port or by a strobe of port B, with the bank it finds latched:
\* nothing plays that the route does not know of, but what a refused phrase left playing.
LEMMA WritePhraseInv ==
    ASSUME VoicewareInv, NEW p \in PhraseSet, NEW d0 \in Device, d0.reset = vw.reset, d0.playing = vw.playing,
           WritePhrase(p, d0)
    PROVE  /\ vw' \in Device /\ chipBusy' \in BOOLEAN /\ routeVoice' \in BOOLEAN /\ refused' \in BOOLEAN
           /\ vw'.reset => ~chipBusy' /\ ~vw'.playing
           /\ Playing(vw', chipBusy') => routeVoice' \/ refused'
<1> DEFINE e == IF d0.latched THEN d0 ELSE [d0 EXCEPT !.bank = 0, !.latched = TRUE]
           d == BankApplied(e)
           busy == BusyAfterBank([d EXCEPT !.chipBank = d0.chipBank], chipBusy)
<1>0. /\ vw \in Device /\ chipBusy \in BOOLEAN /\ routeVoice \in BOOLEAN /\ refused \in BOOLEAN
      /\ vw.reset \in BOOLEAN /\ (vw.reset => ~chipBusy /\ ~vw.playing)
      /\ Playing(vw, chipBusy) => routeVoice \/ refused
      /\ policy.core \in BOOLEAN /\ policy.allow \in BOOLEAN /\ policy.fallback \in BOOLEAN
  BY DeviceFields DEF VoicewareInv, VoicewareTypeOK, VoiceInStep
<1>1. e \in Device /\ e.reset = vw.reset /\ e.playing = vw.playing
  <2>1. [d0 EXCEPT !.bank = 0, !.latched = TRUE] \in Device
    BY VoicewareAssumption DEF Device
  <2>2. /\ [d0 EXCEPT !.bank = 0, !.latched = TRUE].reset = d0.reset
        /\ [d0 EXCEPT !.bank = 0, !.latched = TRUE].playing = d0.playing
    BY DEF Device
  <2> QED
    BY <2>1, <2>2
<1> HIDE DEF e
<1>2. d \in Device /\ d.reset = vw.reset /\ d.playing = vw.playing
  BY <1>1, BankAppliedType
<1>3. busy \in BOOLEAN /\ (busy => chipBusy)
  BY <1>0 DEF BusyAfterBank
<1> HIDE DEF d
<1>4. IF vw.reset
      THEN vw' = [d0 EXCEPT !.phrase = p] /\ UNCHANGED <<chipBusy, routeVoice, refused>>
      ELSE IF ~policy.allow /\ Playing(d, busy) /\ p = vw.phrase
      THEN vw' = d /\ chipBusy' = busy /\ routeVoice' = TRUE /\ refused' = FALSE
      ELSE IF policy.core THEN ChipStart(d, p, busy) ELSE SoftwareStart(d, p, busy)
  BY DEF WritePhrase, d, e
<1> HIDE DEF busy
<1>5. CASE vw.reset
  <2>1. vw' \in Device /\ vw'.reset = vw.reset /\ vw'.playing = vw.playing
    BY <1>4, <1>5 DEF Device
  <2> QED
    BY <1>0, <1>4, <1>5, <2>1 DEF Playing
<1>6. CASE ~vw.reset /\ ~policy.allow /\ Playing(d, busy) /\ p = vw.phrase
  BY <1>2, <1>3, <1>4, <1>6
<1>7. ASSUME ~vw.reset, SoftwareStart(d, p, busy), policy.core => Pieces[d.bank][p] = 0
      PROVE  /\ vw' \in Device /\ chipBusy' \in BOOLEAN /\ routeVoice' \in BOOLEAN /\ refused' \in BOOLEAN
             /\ vw'.reset => ~chipBusy' /\ ~vw'.playing
             /\ Playing(vw', chipBusy') => routeVoice' \/ refused'
  <2>1. /\ vw' = StartedAs(d, p, Decodes(d, p), BufferAfter(d, p))
        /\ chipBusy' = busy /\ routeVoice' = Decodes(d, p) /\ refused' = ~Decodes(d, p)
    BY <1>7 DEF SoftwareStart, StartedAs
  <2>2. Decodes(d, p) \in BOOLEAN /\ BufferAfter(d, p) \in Nat
    BY <1>2, StartedType
  <2>3. vw' \in Device /\ vw'.reset = vw.reset
    BY <1>2, <2>1, <2>2, StartedAsType
  <2> QED
    BY <1>3, <1>7, <2>1, <2>2, <2>3
<1>8. ASSUME ~vw.reset, policy.core, ChipStart(d, p, busy)
      PROVE  /\ vw' \in Device /\ chipBusy' \in BOOLEAN /\ routeVoice' \in BOOLEAN /\ refused' \in BOOLEAN
             /\ vw'.reset => ~chipBusy' /\ ~vw'.playing
             /\ Playing(vw', chipBusy') => routeVoice' \/ refused'
  <2>1. CASE SoftwareStart(d, p, busy) /\ ~(Pieces[d.bank][p] > 0)
    <3>1. Pieces[d.bank][p] = 0
      BY <1>2, <2>1, StartedType
    <3> QED
      BY <1>7, <1>8, <2>1, <3>1
  <2>2. CASE /\ vw' = StartedAs(d, p, FALSE, 0)
             /\ \/ chipBusy' = TRUE /\ routeVoice' = TRUE /\ refused' = FALSE
                \/ chipBusy' = busy /\ routeVoice' = FALSE /\ refused' = TRUE
    <3>1. vw' \in Device /\ vw'.reset = vw.reset
      <4>1. FALSE \in BOOLEAN /\ 0 \in Nat
        OBVIOUS
      <4> QED
        BY <1>2, <2>2, <4>1, StartedAsType
    <3> QED
      BY <1>3, <1>8, <2>2, <3>1
  <2> QED
    BY <1>8, <2>1, <2>2 DEF ChipStart, StartedAs
<1> QED
  BY <1>2, <1>4, <1>5, <1>6, <1>7, <1>8

LEMMA VoicewareStepInv == VoicewareInv /\ [VoicewareNext]_voicewareVars => VoicewareInv'
<1> SUFFICES ASSUME VoicewareInv, [VoicewareNext]_voicewareVars PROVE VoicewareInv'
  OBVIOUS
<1>0. /\ policy \in [core : BOOLEAN, allow : BOOLEAN, fallback : BOOLEAN]
      /\ vw \in Device /\ chipBusy \in BOOLEAN /\ routeVoice \in BOOLEAN /\ intp \in Driver /\ refused \in BOOLEAN
      /\ vw.reset => ~chipBusy /\ ~vw.playing
      /\ intp.int0 => ~Playing(vw, chipBusy)
      /\ Playing(vw, chipBusy) => routeVoice \/ refused
      /\ policy.core \in BOOLEAN
  BY DEF VoicewareInv, VoicewareTypeOK, VoiceInStep
<1>1. /\ vw.reset \in BOOLEAN /\ vw.latched \in BOOLEAN /\ vw.bank \in Banks
      /\ vw.phrase \in PhraseSet /\ vw.pcm \in Nat /\ vw.playing \in BOOLEAN /\ vw.had \in BOOLEAN
      /\ intp.prevIdle \in BOOLEAN /\ intp.int0 \in BOOLEAN /\ intp.strobe \in BOOLEAN
      /\ intp.marks \subseteq {"M5V", "M5A", "M5C"}
  BY <1>0, DeviceFields DEF Driver
<1>3. ASSUME policy' = policy, vw' \in Device, chipBusy' \in BOOLEAN, routeVoice' \in BOOLEAN,
             intp' \in Driver, refused' \in BOOLEAN, vw'.reset => ~chipBusy' /\ ~vw'.playing,
             intp'.int0 => ~(IF policy.core THEN ~vw'.reset /\ chipBusy' ELSE vw'.playing),
             (IF policy.core THEN ~vw'.reset /\ chipBusy' ELSE vw'.playing) => routeVoice' \/ refused'
      PROVE  VoicewareInv'
  BY <1>0, <1>3 DEF VoicewareInv, VoicewareTypeOK, VoiceInStep, Playing
<1>4. ASSUME NEW bit3 \in BOOLEAN, HwControl(bit3) PROVE VoicewareInv'
  <2>1. CASE bit3
    <3>1. /\ vw' = [vw EXCEPT !.reset = TRUE, !.latched = FALSE, !.chipBank = NoBank, !.playing = FALSE, !.pcm = 0]
          /\ chipBusy' = FALSE /\ routeVoice' = FALSE /\ intp' = intp /\ policy' = policy /\ refused' = refused
      BY <1>4, <2>1 DEF HwControl
    <3>2. vw' \in Device /\ vw'.reset /\ ~vw'.playing
      <4> DEFINE A == Banks \cup {NoBank}
                 B == BOOLEAN
                 C == Banks
                 P == PhraseSet
                 N == Nat
      <4>1. Device = [reset : B, latched : B, bank : C, chipBank : A, phrase : P, pcm : N, playing : B, had : B]
        BY DEF Device
      <4>2. NoBank \in A /\ TRUE \in B /\ FALSE \in B /\ 0 \in N
        OBVIOUS
      <4>3. vw \in Device
        BY <1>0
      <4>4. vw' \in Device
        <5> HIDE DEF A, B, C, P, N
        <5> QED
          BY ONLY <3>1, <4>1, <4>2, <4>3, ZenonT(30)
      <4> QED
        BY <1>0, <3>1, <4>4 DEF Device
    <3> QED
      BY <1>0, <1>3, <3>1, <3>2
  <2>2. CASE ~bit3
    <3> DEFINE e == [vw EXCEPT !.reset = FALSE]
    <3>1. e \in Device /\ ~e.reset /\ e.playing = vw.playing
      BY <1>0 DEF Device
    <3>2. /\ vw' = IF vw.reset /\ vw.latched THEN BankApplied(e) ELSE e
          /\ chipBusy' = IF vw.reset /\ vw.latched THEN BusyAfterBank(vw, chipBusy) ELSE chipBusy
          /\ routeVoice' = routeVoice /\ intp' = [intp EXCEPT !.int0 = FALSE] /\ policy' = policy /\ refused' = refused
      BY <1>4, <2>2 DEF HwControl
    <3>3. vw' \in Device /\ ~vw'.reset /\ vw'.playing = vw.playing
      BY <3>1, <3>2, BankAppliedType
    <3>4. chipBusy' \in BOOLEAN /\ (chipBusy' => chipBusy)
      BY <1>0, <3>2 DEF BusyAfterBank
    <3>5. intp' \in Driver /\ ~intp'.int0
      BY <1>0, <3>2 DEF Driver
    <3> QED
      BY <1>0, <1>3, <3>2, <3>3, <3>4, <3>5 DEF Playing
  <2> QED
    BY <2>1, <2>2
<1>5. ASSUME NEW bit7 \in BOOLEAN, PortBSelected(bit7) PROVE VoicewareInv'
  <2>1. /\ intp' = [intp EXCEPT !.strobe = bit7] /\ policy' = policy /\ vw' = vw /\ chipBusy' = chipBusy
        /\ routeVoice' = routeVoice /\ refused' = refused
    BY <1>5 DEF PortBSelected
  <2>2. intp' \in Driver /\ intp'.int0 = intp.int0
    BY <1>0, <2>1 DEF Driver
  <2> QED
    BY <1>0, <1>3, <2>1, <2>2 DEF Playing
<1>6. ASSUME NEW p \in PhraseSet, PhraseWrite(p) PROVE VoicewareInv'
  <2>1. /\ intp' = [intp EXCEPT !.int0 = FALSE, !.marks = @ \cup {"M5V", "M5A"}]
        /\ WritePhrase(p, vw) /\ policy' = policy
    BY <1>6 DEF PhraseWrite
  <2>2. intp' \in Driver /\ ~intp'.int0
    BY <1>0, <2>1 DEF Driver
  <2>3. /\ vw' \in Device /\ chipBusy' \in BOOLEAN /\ routeVoice' \in BOOLEAN /\ refused' \in BOOLEAN
        /\ vw'.reset => ~chipBusy' /\ ~vw'.playing
        /\ Playing(vw', chipBusy') => routeVoice' \/ refused'
    BY <1>0, <2>1, WritePhraseInv
  <2> QED
    BY <1>3, <2>1, <2>2, <2>3 DEF Playing
<1>7. ASSUME NEW b \in Banks, NEW bit7 \in BOOLEAN, PortBLatch(b, bit7) PROVE VoicewareInv'
  <2> DEFINE d == [vw EXCEPT !.bank = b, !.latched = TRUE]
  <2>1. d \in Device /\ d.reset = vw.reset /\ d.playing = vw.playing
    BY <1>0 DEF Device
  <2>2. /\ vw' = IF vw.reset THEN d ELSE BankApplied(d)
        /\ chipBusy' = IF vw.reset THEN chipBusy ELSE BusyAfterBank(d, chipBusy)
        /\ intp' = [intp EXCEPT !.strobe = bit7] /\ policy' = policy /\ routeVoice' = routeVoice /\ refused' = refused
    BY <1>7 DEF PortBLatch, WriteBank
  <2>3. vw' \in Device /\ vw'.reset = vw.reset /\ vw'.playing = vw.playing
    BY <2>1, <2>2, BankAppliedType
  <2>4. chipBusy' \in BOOLEAN /\ (chipBusy' => chipBusy)
    BY <1>0, <2>2 DEF BusyAfterBank
  <2>5. intp' \in Driver /\ intp'.int0 = intp.int0
    BY <1>0, <2>2 DEF Driver
  <2> QED
    BY <1>0, <1>3, <2>2, <2>3, <2>4, <2>5 DEF Playing
<1>8. ASSUME NEW b \in Banks, NEW p \in PhraseSet, PortBStrobe(b, p) PROVE VoicewareInv'
  <2> DEFINE d == [vw EXCEPT !.bank = b, !.latched = TRUE]
             j == [intp EXCEPT !.strobe = FALSE, !.last = p, !.ready = FALSE,
                               !.int0 = FALSE, !.marks = @ \cup {"M5V", "M5A"}]
  <2>1. d \in Device /\ d.reset = vw.reset /\ d.playing = vw.playing
    BY <1>0 DEF Device
  <2>2. intp' = j /\ WritePhrase(p, d) /\ policy' = policy
    BY <1>8 DEF PortBStrobe
  <2>3. j \in Driver /\ ~j.int0
    <3> DEFINE B == BOOLEAN
               M == SUBSET {"M5V", "M5A", "M5C"}
               P == PhraseSet \cup {NoBank}
               m == intp.marks \cup {"M5V", "M5A"}
               k == [intp EXCEPT !.strobe = FALSE, !.last = p, !.ready = FALSE, !.int0 = FALSE, !.marks = m]
    <3>1. Driver = [prevIdle : B, int0 : B, wasActive : B, marks : M, strobe : B, last : P, ready : B]
      BY DEF Driver
    <3>2. FALSE \in B /\ p \in P /\ m \in M /\ intp \in Driver
      BY <1>0, <1>1
    <3>3. j = k
      BY <1>0 DEF Driver
    <3>4. k \in Driver
      <4> HIDE DEF B, M, P, m
      <4> QED
        BY ONLY <3>1, <3>2, ZenonT(30)
    <3>5. ~k.int0
      BY <1>0 DEF Driver
    <3> QED
      BY <3>3, <3>4, <3>5
  <2>4. /\ vw' \in Device /\ chipBusy' \in BOOLEAN /\ routeVoice' \in BOOLEAN /\ refused' \in BOOLEAN
        /\ vw'.reset => ~chipBusy' /\ ~vw'.playing
        /\ Playing(vw', chipBusy') => routeVoice' \/ refused'
    <3> HIDE DEF d
    <3> QED
      BY <2>1, <2>2, WritePhraseInv
  <2> HIDE DEF j
  <2> QED
    BY <1>3, <2>2, <2>3, <2>4 DEF Playing
<1>9. ASSUME PhraseRead PROVE VoicewareInv'
  <2> DEFINE idle == IF policy.core THEN vw.reset \/ ~chipBusy ELSE ~vw.playing
             active == Playing(vw, chipBusy)
             marks == IF intp.wasActive /\ ~active THEN intp.marks \cup {"M5C"} ELSE intp.marks
  <2>1. /\ vw' = [vw EXCEPT !.had = ~idle]
        /\ routeVoice' = IF vw.had /\ idle THEN FALSE ELSE routeVoice
        /\ intp' = [intp EXCEPT !.wasActive = active, !.marks = marks]
        /\ policy' = policy /\ chipBusy' = chipBusy /\ refused' = refused
    BY <1>0, <1>9 DEF PhraseRead, Driver
  <2>2. idle \in BOOLEAN /\ active \in BOOLEAN /\ (active <=> ~idle) /\ marks \subseteq {"M5V", "M5A", "M5C"}
    BY <1>0, <1>1 DEF Playing
  <2> HIDE DEF idle, marks
  <2>3. vw' \in Device /\ vw'.reset = vw.reset /\ vw'.playing = vw.playing
    BY <1>0, <2>1, <2>2 DEF Device
  <2>4. intp' \in Driver /\ intp'.int0 = intp.int0
    <3> HIDE DEF active
    <3> QED
      BY <1>0, <2>1, <2>2 DEF Driver
  <2> QED
    BY <1>0, <1>3, <2>1, <2>2, <2>3, <2>4 DEF Playing
<1>10. ASSUME StreamUpdate PROVE VoicewareInv'
  <2>1. /\ vw' = IF vw.pcm > 0 THEN [vw EXCEPT !.pcm = vw.pcm - 1] ELSE [vw EXCEPT !.playing = FALSE]
        /\ policy' = policy /\ chipBusy' = chipBusy /\ routeVoice' = routeVoice /\ intp' = intp /\ refused' = refused
    BY <1>0, <1>10 DEF StreamUpdate, Device
  <2>2. vw' \in Device /\ vw'.reset = vw.reset /\ (vw'.playing => vw.playing)
    <3>1. vw.pcm > 0 => vw.pcm - 1 \in Nat
      BY <1>1
    <3> QED
      BY <1>0, <2>1, <3>1 DEF Device
  <2> QED
    BY <1>0, <1>3, <2>1, <2>2 DEF Playing
<1>11. ASSUME ChipEnds PROVE VoicewareInv'
  BY <1>0, <1>3, <1>11 DEF ChipEnds, Playing
<1>12. ASSUME PollInt0 PROVE VoicewareInv'
  <2> DEFINE idle == ~Playing(vw, chipBusy)
             done == ~intp.prevIdle /\ idle /\ ~intp.int0
             int0 == intp.int0 \/ done
             marks == IF done THEN intp.marks \cup {"M5C"} ELSE intp.marks
  <2>1. /\ intp' = [intp EXCEPT !.prevIdle = idle, !.int0 = int0, !.marks = marks]
        /\ policy' = policy /\ vw' = vw /\ chipBusy' = chipBusy /\ routeVoice' = routeVoice /\ refused' = refused
    BY <1>0, <1>12 DEF PollInt0, Driver
  <2>2. idle \in BOOLEAN /\ int0 \in BOOLEAN /\ (int0 => idle) /\ marks \subseteq {"M5V", "M5A", "M5C"}
    BY <1>0, <1>1 DEF Playing
  <2> HIDE DEF int0, marks
  <2>3. intp' \in Driver /\ intp'.int0 = int0
    <3> HIDE DEF idle
    <3> QED
      BY <1>0, <2>1, <2>2 DEF Driver
  <2> QED
    BY <1>0, <1>3, <2>1, <2>2, <2>3 DEF Playing
<1>13. ASSUME CooldownPasses PROVE VoicewareInv'
  <2>1. /\ intp' = [intp EXCEPT !.ready = TRUE] /\ policy' = policy /\ vw' = vw /\ chipBusy' = chipBusy
        /\ routeVoice' = routeVoice /\ refused' = refused
    BY <1>13 DEF CooldownPasses
  <2>2. intp' \in Driver /\ intp'.int0 = intp.int0
    BY <1>0, <2>1 DEF Driver
  <2> QED
    BY <1>0, <1>3, <2>1, <2>2 DEF Playing
<1>14. ASSUME VoicewareReset PROVE VoicewareInv'
  <2>1. DeviceReset \in Device /\ ~DeviceReset.reset /\ ~DeviceReset.playing
    BY VoicewareAssumption DEF DeviceReset, Device
  <2>2. DriverReset \in Driver /\ ~DriverReset.int0
    BY DEF DriverReset, Driver
  <2> QED
    BY <1>3, <1>14, <2>1, <2>2 DEF VoicewareReset
<1>15. ASSUME UNCHANGED voicewareVars PROVE VoicewareInv'
  BY <1>0, <1>3, <1>15 DEF voicewareVars, Playing
<1> QED
  BY <1>4, <1>5, <1>6, <1>7, <1>8, <1>9, <1>10, <1>11, <1>12, <1>13, <1>14, <1>15 DEF VoicewareNext

\* The voice device plays only what the route knows of, but for what a refused phrase left
\* playing, and nothing in reset.
THEOREM VoicewareCorrect == VoicewareSpec => [](VoicewareTypeOK /\ VoiceInStep)
<1>1. VoicewareInv => VoicewareTypeOK /\ VoiceInStep
  BY DEF VoicewareInv
<1> QED
  BY VoicewareInitInv, VoicewareStepInv, <1>1, PTL DEF VoicewareSpec

-------------------------------------------------------------------------------
(* Phrases.  The tables of the decoder are never left, and the decode of a message in the  *)
(* reference mode climbs its commands one by one: as many blocks as commands gone by.      *)

LEMMA StepTableType == \A i \in 1..16, j \in 1..8 : StepTable[i][j] \in Nat
<1> SUFFICES ASSUME NEW i \in 1..16, NEW j \in 1..8 PROVE StepTable[i][j] \in Nat
  OBVIOUS
<1>1. CASE i \in 1..4
  BY <1>1 DEF StepTable
<1>2. CASE i \in 5..8
  BY <1>2 DEF StepTable
<1>3. CASE i \in 9..12
  BY <1>3 DEF StepTable
<1>4. CASE i \in 13..16
  BY <1>4 DEF StepTable
<1> QED
  BY <1>1, <1>2, <1>3, <1>4

LEMMA StateTableType == \A j \in 1..8 : StateTable[j] \in Int
  BY DEF StateTable

LEMMA NextAdpcmType ==
    ASSUME NEW a \in Adpcm, NEW nibble \in 0..15
    PROVE  NextAdpcm(a, nibble) \in Adpcm
<1> DEFINE m == (nibble % 8) + 1
           size == StepTable[a.state + 1][m]
           s == a.state + StateTable[m]
<1>1. a.state \in 0..15 /\ a.sample \in Int
  BY DEF Adpcm
<1>2. a.state + 1 \in 1..16 /\ m \in 1..8
  BY <1>1
<1> HIDE DEF m
<1>3. size \in Nat /\ s \in Int
  BY <1>1, <1>2, StepTableType, StateTableType
<1>4. NextAdpcm(a, nibble) = [state |-> ClampTo(s, 0, 15),
                              sample |-> a.sample + IF nibble >= 8 THEN -size ELSE size]
  BY DEF NextAdpcm, m
<1> HIDE DEF size, s
<1>5. ClampTo(s, 0, 15) \in 0..15
  BY <1>3 DEF ClampTo
<1>6. a.sample + (IF nibble >= 8 THEN -size ELSE size) \in Int
  BY <1>1, <1>3
<1> QED
  BY <1>4, <1>5, <1>6 DEF Adpcm

LEMMA NibbleAtType ==
    ASSUME NEW bytes \in Seq(0..255), NEW k \in 1..(2 * Len(bytes))
    PROVE  NibbleAt(bytes, k) \in 0..15
<1>1. Len(bytes) \in Nat
  OBVIOUS
<1>2. (k + 1) \div 2 \in 1..Len(bytes)
  BY <1>1
<1>3. bytes[(k + 1) \div 2] \in 0..255
  BY <1>2, ElementOfSeq
<1>4. \A b \in 0..255 : b \div 16 \in 0..15 /\ b % 16 \in 0..15
  OBVIOUS
<1> QED
  BY <1>3, <1>4 DEF NibbleAt

LEMMA AfterNibblesType ==
    ASSUME NEW a \in Adpcm, NEW bytes \in Seq(0..255), NEW N \in 0..(2 * Len(bytes))
    PROVE  AfterNibbles(a, bytes, N) \in Adpcm
<1> DEFINE Sums(h) == h = [k \in 0..N |-> IF k = 0 THEN a ELSE NextAdpcm(h[k - 1], NibbleAt(bytes, k))]
           x == CHOOSE h : Sums(h)
           step == [k \in 1..N |-> [s \in Adpcm |-> NextAdpcm(s, NibbleAt(bytes, k))]]
<1>1. N \in Nat /\ \A k \in 1..N : NibbleAt(bytes, k) \in 0..15
  <2>1. Len(bytes) \in Nat
    OBVIOUS
  <2>2. \A k \in 1..N : k \in 1..(2 * Len(bytes))
    BY <2>1
  <2> QED
    BY <2>1, <2>2, NibbleAtType
<1>2. \A k \in 1..N, s \in Adpcm : NextAdpcm(s, NibbleAt(bytes, k)) \in Adpcm
                                   /\ step[k][s] = NextAdpcm(s, NibbleAt(bytes, k))
  BY <1>1, NextAdpcmType
<1>3. PICK g : IsRun(g, step, a, N, Adpcm)
  <2>1. StepsWithin(step, N, Adpcm)
    BY <1>2 DEF StepsWithin
  <2> HIDE DEF step
  <2> QED
    BY <1>1, <2>1, Iterated
<1>4. \A k \in 1..N : k - 1 \in 0..N /\ k \in 0..N /\ k # 0
  BY <1>1
<1>5. \A k \in 0..N : g[k] = IF k = 0 THEN a ELSE NextAdpcm(g[k - 1], NibbleAt(bytes, k))
  <2>1. /\ g \in [0..N -> Adpcm] /\ g[0] = a
        /\ \A k \in 1..N : g[k] = step[k][g[k - 1]]
    <3> HIDE DEF step
    <3> QED
      BY <1>3 DEF IsRun
  <2> SUFFICES ASSUME NEW k \in 0..N, k # 0 PROVE g[k] = NextAdpcm(g[k - 1], NibbleAt(bytes, k))
    BY <2>1
  <2>2. k \in 1..N /\ g[k - 1] \in Adpcm
    BY <1>1, <2>1
  <2> HIDE DEF step
  <2> QED
    BY <1>2, <2>1, <2>2
<1>6. Sums(g)
  <2>1. g = [k \in 0..N |-> g[k]]
    BY <1>3 DEF IsRun
  <2> QED
    BY <1>5, <2>1
<1>7. Sums(x)
  BY <1>6
<1>8. AfterNibbles(a, bytes, N) = x[N]
  BY DEF AfterNibbles
<1> HIDE DEF x
<1>9. x[0] = a /\ \A k \in 1..N : x[k] = NextAdpcm(x[k - 1], NibbleAt(bytes, k))
  <2>1. 0 \in 0..N
    BY <1>1
  <2> QED
    BY <1>4, <1>7, <2>1
<1> DEFINE T == {k \in 0..N : x[k] \in Adpcm}
<1>10. 0 \in T
  <2>1. 0 \in 0..N
    BY <1>1
  <2> QED
    BY <1>9, <2>1
<1>11. \A k \in 1..N : k - 1 \in T => k \in T
  BY <1>1, <1>4, <1>9, NextAdpcmType
<1>12. \A k \in 0..N : k \in T
  <2> HIDE DEF T
  <2> QED
    BY <1>1, <1>10, <1>11, UpTo
<1>13. N \in 0..N
  BY <1>1
<1> QED
  BY <1>8, <1>12, <1>13

LEMMA ResampledType ==
    ASSUME NEW n \in Nat, NEW rate \in Nat \ {0}
    PROVE  Resampled(n, rate) \in Nat
<1>1. 2 * n * 48000 + rate \in Nat /\ 2 * rate \in Nat \ {0}
  OBVIOUS
<1> QED
  BY <1>1, DivMod DEF Resampled

LEMMA RateType == ASSUME NEW op \in 0..255 PROVE RateFromHeader(op) \in Nat \ {0}
<1>1. op % 64 \in 0..63
  OBVIOUS
<1>2. \A m \in 0..63 : 160000 \div (m + 1) \in Nat \ {0}
  OBVIOUS
<1> QED
  BY <1>1, <1>2 DEF RateFromHeader
\* The nibbles of a block in the window are octets of the message.
LEMMA PayloadType ==
    ASSUME NEW n \in Nat, NEW first \in Nat \ {0}, voice.bytes \in Seq(0..255), voice.adpcm \in Adpcm,
           first + (n + 1) \div 2 - 1 <= Len(voice.bytes)
    PROVE  Payload(n, first) \in Adpcm
<1> DEFINE h == (n + 1) \div 2
           L == Len(voice.bytes)
           s == SubSeq(voice.bytes, first, first + h - 1)
           a == IF voice.mode = "spec" THEN FreshPredictor ELSE voice.adpcm
<1>1. h \in Nat /\ n <= 2 * h /\ L \in Nat
  OBVIOUS
<1> HIDE DEF h
<1>2. \A i \in first..(first + h - 1) : voice.bytes[i] \in 0..255
  <2>1. \A i \in first..(first + h - 1) : i \in 1..L
    BY <1>1 DEF h
  <2> QED
    BY <2>1, ElementOfSeq
<1>3. s \in Seq(0..255) /\ Len(s) = h
  <2> DEFINE S == 0..255
             v == voice.bytes
             top == first + h - 1
  <2>1. first \in Int /\ top \in Int
    BY <1>1
  <2>2. \A i \in first..top : v[i] \in S
    BY <1>2
  <2>3. s = SubSeq(v, first, top)
    OBVIOUS
  <2> HIDE DEF S, v, top, s
  <2>4. s \in Seq(S) /\ Len(s) = IF first <= top THEN top - first + 1 ELSE 0
    BY <2>1, <2>2, <2>3, SubSeqProperties
  <2>5. s \in Seq(0..255)
    BY <2>4 DEF S
  <2>6. Len(s) = IF first <= top THEN top - first + 1 ELSE 0
    BY <2>4, Zenon
  <2> QED
    BY <1>1, <2>5, <2>6 DEF top
<1>5. a \in Adpcm
  BY DEF FreshPredictor, Adpcm
<1>6. n \in 0..(2 * Len(s))
  BY <1>1, <1>3
<1> HIDE DEF s, a
<1>7. AfterNibbles(a, s, n) \in Adpcm
  BY <1>3, <1>5, <1>6, AfterNibblesType
<1> QED
  BY <1>7 DEF Payload, s, a, h

\* Where the commands of a message begin: each where the one before it ends.
LEMMA NextStartType ==
    ASSUME NEW bytes \in Seq(0..255), NEW p \in Nat \ {0}
    PROVE  /\ NextStart(bytes, p) \in Nat \ {0}
           /\ p <= Len(bytes) /\ bytes[p] # 0 => NextStart(bytes, p) > p
<1> DEFINE operand == IF p < Len(bytes) THEN bytes[p + 1] ELSE 0
<1>1. FixedNibbles \div 2 \in Nat
  BY VoiceDecodeAssumption
<1>2. operand \in 0..255
  <2>1. p < Len(bytes) => p + 1 \in 1..Len(bytes)
    OBVIOUS
  <2> QED
    BY <2>1, ElementOfSeq
<1>3. p <= Len(bytes) => bytes[p] \in 0..255
  <2>1. p <= Len(bytes) => p \in 1..Len(bytes)
    OBVIOUS
  <2> QED
    BY <2>1, ElementOfSeq
<1> HIDE DEF operand
<1>4. \A op \in 0..255 : SizeOf(op, operand) \in Nat \ {0}
  <2> SUFFICES ASSUME NEW op \in 0..255 PROVE SizeOf(op, operand) \in Nat \ {0}
    OBVIOUS
  <2>1. PICK half \in Nat : half = FixedNibbles \div 2
    BY <1>1
  <2>2. (operand + 2) \div 2 \in Nat
    BY <1>2
  <2>3. PICK pairs \in Nat : pairs = (operand + 2) \div 2
    BY <2>2
  <2> QED
    BY <2>1, <2>3 DEF SizeOf
<1>5. ASSUME p <= Len(bytes), bytes[p] # 0
      PROVE  NextStart(bytes, p) = p + SizeOf(bytes[p], operand) /\ SizeOf(bytes[p], operand) \in Nat \ {0}
  <2>1. ~(p > Len(bytes))
    BY <1>5
  <2> QED
    BY <1>3, <1>4, <1>5, <2>1 DEF NextStart, operand
<1>6. ASSUME ~(p <= Len(bytes) /\ bytes[p] # 0) PROVE NextStart(bytes, p) = p
  <2>1. p > Len(bytes) \/ bytes[p] = 0
    BY <1>6
  <2> QED
    BY <2>1 DEF NextStart
<1>7. CASE p <= Len(bytes) /\ bytes[p] # 0
  <2>1. PICK m \in Nat \ {0} : m = SizeOf(bytes[p], operand)
    BY <1>5, <1>7
  <2> QED
    BY <1>5, <1>7, <2>1
<1> QED
  BY <1>6, <1>7

IsStartRun(x, bytes, N) ==
    /\ x[0] = 2
    /\ \A k \in 1..N : x[k] = NextStart(bytes, x[k - 1])
    /\ \A k \in 0..N : x[k] \in Nat \ {0}
    /\ CommandStart(bytes, N) = x[N]

LEMMA StartRun ==
    ASSUME NEW bytes \in Seq(0..255), NEW N \in Nat
    PROVE  \E x : IsStartRun(x, bytes, N)
<1> DEFINE P == Nat \ {0}
           Sums(h) == h = [k \in 0..N |-> IF k = 0 THEN 2 ELSE NextStart(bytes, h[k - 1])]
           x == CHOOSE h : Sums(h)
           step == [k \in 1..N |-> [s \in P |-> NextStart(bytes, s)]]
<1>1. 2 \in P /\ 0 \in 0..N /\ N \in 0..N
  OBVIOUS
<1>2. \A k \in 1..N, s \in P : NextStart(bytes, s) \in P /\ step[k][s] = NextStart(bytes, s)
  BY NextStartType
<1>3. PICK g : IsRun(g, step, 2, N, P)
  <2>1. StepsWithin(step, N, P)
    BY <1>2 DEF StepsWithin
  <2> HIDE DEF step, P
  <2> QED
    BY <1>1, <2>1, Iterated
<1>4. \A k \in 1..N : k - 1 \in 0..N /\ k \in 0..N /\ k # 0
  OBVIOUS
<1> HIDE DEF P
<1>5. \A k \in 0..N : g[k] = IF k = 0 THEN 2 ELSE NextStart(bytes, g[k - 1])
  <2>1. /\ g \in [0..N -> P] /\ g[0] = 2
        /\ \A k \in 1..N : g[k] = step[k][g[k - 1]]
    <3> HIDE DEF step
    <3> QED
      BY <1>3 DEF IsRun
  <2> SUFFICES ASSUME NEW k \in 0..N, k # 0 PROVE g[k] = NextStart(bytes, g[k - 1])
    BY <2>1
  <2>2. k \in 1..N /\ g[k - 1] \in P
    BY <1>1, <2>1
  <2> HIDE DEF step
  <2> QED
    BY <1>2, <2>1, <2>2
<1>6. Sums(g)
  <2>1. g = [k \in 0..N |-> g[k]]
    BY <1>3 DEF IsRun
  <2> QED
    BY <1>5, <2>1
<1>7. Sums(x)
  BY <1>6
<1>8. CommandStart(bytes, N) = x[N]
  BY DEF CommandStart
<1> HIDE DEF x
<1>9. x[0] = 2 /\ \A k \in 1..N : x[k] = NextStart(bytes, x[k - 1])
  BY <1>1, <1>4, <1>7
<1> DEFINE T == {k \in 0..N : x[k] \in P}
<1>10. 0 \in T
  BY <1>1, <1>9
<1>11. \A k \in 1..N : k - 1 \in T => k \in T
  BY <1>4, <1>9, NextStartType DEF P
<1>12. \A k \in 0..N : k \in T
  <2> HIDE DEF T
  <2> QED
    BY <1>10, <1>11, UpTo
<1> QED
  BY <1>8, <1>9, <1>12 DEF IsStartRun, P

LEMMA StartStep ==
    ASSUME NEW bytes \in Seq(0..255), NEW n \in Nat
    PROVE  /\ CommandStart(bytes, 0) = 2
           /\ CommandStart(bytes, n) \in Nat \ {0}
           /\ CommandStart(bytes, n + 1) = NextStart(bytes, CommandStart(bytes, n))
<1>1. PICK z : IsStartRun(z, bytes, 0)
  BY StartRun
<1>2. PICK x : IsStartRun(x, bytes, n)
  BY StartRun
<1>3. PICK y : IsStartRun(y, bytes, n + 1)
  <2>1. n + 1 \in Nat
    OBVIOUS
  <2> QED
    BY <2>1, StartRun
<1> DEFINE T == {k \in 0..n : x[k] = y[k]}
<1>4. 0 \in T
  BY <1>2, <1>3 DEF IsStartRun
<1>5. \A k \in 1..n : k - 1 \in T => k \in T
  <2> SUFFICES ASSUME NEW k \in 1..n, x[k - 1] = y[k - 1] PROVE k \in T
    OBVIOUS
  <2>1. k \in 1..(n + 1) /\ k \in 0..n
    OBVIOUS
  <2> QED
    BY <1>2, <1>3, <2>1 DEF IsStartRun
<1>6. x[n] = y[n]
  <2>1. \A k \in 0..n : k \in T
    <3> HIDE DEF T
    <3> QED
      BY <1>4, <1>5, UpTo
  <2> QED
    BY <2>1
<1>7. y[n + 1] = NextStart(bytes, y[n])
  <2>1. n + 1 \in 1..(n + 1) /\ (n + 1) - 1 = n
    OBVIOUS
  <2> QED
    BY <1>3, <2>1 DEF IsStartRun
<1>8. CommandStart(bytes, n + 1) = y[n + 1] /\ CommandStart(bytes, n) = x[n] /\ x[n] \in Nat \ {0}
      /\ CommandStart(bytes, 0) = 2
  BY <1>1, <1>2, <1>3 DEF IsStartRun
<1> QED
  BY <1>6, <1>7, <1>8

\* A reading that is at its n-th command: the starts before it climb to it.
Below(bytes, n) == {CommandStart(bytes, k) : k \in 0..(n - 1)}

Ladder(bytes, n) ==
    /\ n + 2 <= CommandStart(bytes, n) /\ n <= Len(bytes)
    /\ \A k \in 0..(n - 1) : CommandStart(bytes, k) < CommandStart(bytes, n)
    /\ IsFiniteSet(Below(bytes, n)) /\ Cardinality(Below(bytes, n)) = n

LEMMA LadderFoot == ASSUME NEW bytes \in Seq(0..255) PROVE Ladder(bytes, 0)
<1>1. CommandStart(bytes, 0) = 2
  <2>1. 0 \in Nat
    OBVIOUS
  <2> QED
    BY <2>1, StartStep
<1>2. \A k : k \notin 0..(0 - 1)
  OBVIOUS
<1>3. Below(bytes, 0) = {}
  BY <1>2 DEF Below
<1>4. IsFiniteSet(Below(bytes, 0)) /\ Cardinality(Below(bytes, 0)) = 0
  BY <1>3, FS_EmptySet
<1>5. 0 + 2 <= CommandStart(bytes, 0) /\ 0 <= Len(bytes)
  BY <1>1
<1>6. \A k \in 0..(0 - 1) : CommandStart(bytes, k) < CommandStart(bytes, 0)
  BY <1>2
<1> QED
  BY <1>4, <1>5, <1>6 DEF Ladder

LEMMA LadderUp ==
    ASSUME NEW bytes \in Seq(0..255), NEW n \in Nat, Ladder(bytes, n),
           CommandStart(bytes, n) <= Len(bytes), bytes[CommandStart(bytes, n)] # 0
    PROVE  Ladder(bytes, n + 1)
<1> DEFINE c == CommandStart(bytes, n)
           d == CommandStart(bytes, n + 1)
           B == Below(bytes, n)
<1>1. c \in Nat \ {0} /\ d = NextStart(bytes, c)
  BY StartStep
<1>2. d \in Nat /\ d > c
  <2> HIDE DEF d, c
  <2>1. c <= Len(bytes) /\ bytes[c] # 0
    BY DEF c
  <2> QED
    BY <1>1, <2>1, NextStartType
<1>3. n + 2 <= c /\ n <= Len(bytes) /\ Len(bytes) \in Nat /\ c <= Len(bytes)
      /\ \A k \in 0..(n - 1) : CommandStart(bytes, k) < c
  BY DEF Ladder
<1>4. IsFiniteSet(B) /\ Cardinality(B) = n
  BY DEF Ladder
<1> HIDE DEF c, d, B
<1>5. \A k \in 0..((n + 1) - 1) : k \in 0..(n - 1) \/ k = n
  OBVIOUS
<1>6. \A k \in Nat : CommandStart(bytes, k) \in Nat
  BY StartStep
<1>7. \A k \in 0..((n + 1) - 1) : CommandStart(bytes, k) < d
  <2> SUFFICES ASSUME NEW k \in 0..((n + 1) - 1) PROVE CommandStart(bytes, k) < d
    OBVIOUS
  <2>1. CommandStart(bytes, k) \in Nat
    BY <1>6, SMTT(60)
  <2>2. CommandStart(bytes, k) <= c
    <3>1. CASE k \in 0..(n - 1)
      BY <1>1, <1>3, <2>1, <3>1
    <3>2. CASE k = n
      BY <1>1, <3>2 DEF c
    <3> QED
      BY <1>5, <3>1, <3>2
  <2> QED
    BY <1>1, <1>2, <2>1, <2>2
<1>8. Below(bytes, n + 1) = B \cup {c}
  <2>1. \A k \in 0..(n - 1) : k \in 0..((n + 1) - 1)
    OBVIOUS
  <2>2. n \in 0..((n + 1) - 1)
    OBVIOUS
  <2> QED
    BY <1>5, <2>1, <2>2 DEF Below, B, c
<1>9. c \notin B
  BY <1>1, <1>3, <1>6 DEF Below, B
<1>10. IsFiniteSet(B \cup {c}) /\ Cardinality(B \cup {c}) = n + 1
  BY <1>4, <1>9, FS_AddElement
<1>11. (n + 1) + 2 <= d /\ n + 1 <= Len(bytes)
  BY <1>1, <1>2, <1>3
<1> QED
  BY <1>7, <1>8, <1>10, <1>11 DEF Ladder, d

\* At the end marker the starts stand still: the commands are those below it.
LEMMA LadderTop ==
    ASSUME NEW bytes \in Seq(0..255), NEW n \in Nat, Ladder(bytes, n), bytes[CommandStart(bytes, n)] = 0
    PROVE  Cardinality({c \in CommandStarts(bytes) : c < CommandStart(bytes, n)}) = n
<1> DEFINE top == CommandStart(bytes, n)
           T == {i \in Nat : CommandStart(bytes, n + i) = top}
<1>1. top \in Nat \ {0} /\ n <= Len(bytes) /\ Len(bytes) \in Nat
  BY StartStep DEF Ladder
<1>2. 0 \in T
  <2>1. n + 0 = n
    OBVIOUS
  <2> QED
    BY <2>1
<1>3. \A i \in 1..Len(bytes) : i - 1 \in T => i \in T
  <2> SUFFICES ASSUME NEW i \in 1..Len(bytes), i - 1 \in Nat, CommandStart(bytes, n + (i - 1)) = top
               PROVE  i \in Nat /\ CommandStart(bytes, n + i) = top
    OBVIOUS
  <2>1. n + (i - 1) \in Nat /\ (n + (i - 1)) + 1 = n + i /\ i \in Nat
    OBVIOUS
  <2>2. CommandStart(bytes, (n + (i - 1)) + 1) = NextStart(bytes, CommandStart(bytes, n + (i - 1)))
    BY <2>1, StartStep
  <2>3. NextStart(bytes, top) = top
    BY DEF NextStart
  <2> QED
    BY <2>1, <2>2, <2>3
<1>4. \A i \in 0..Len(bytes) : CommandStart(bytes, n + i) = top
  <2>1. \A i \in 0..Len(bytes) : i \in T
    <3> HIDE DEF T
    <3> QED
      BY <1>1, <1>2, <1>3, UpTo
  <2> QED
    BY <2>1
<1> HIDE DEF T
<1>5. {c \in CommandStarts(bytes) : c < top} = Below(bytes, n)
  <2>1. ASSUME NEW k \in 0..Len(bytes), CommandStart(bytes, k) < top PROVE k \in 0..(n - 1)
    <3>1. CASE k < n
      BY <3>1
    <3>2. CASE k >= n
      <4>1. k - n \in 0..Len(bytes) /\ n + (k - n) = k
        BY <1>1, <3>2
      <4>2. PICK i \in 0..Len(bytes) : n + i = k
        BY <4>1
      <4>3. CommandStart(bytes, n + i) = top
        BY <1>4
      <4>4. CommandStart(bytes, k) = top
        BY <4>2, <4>3
      <4> QED
        BY <1>1, <2>1, <4>4
    <3> QED
      BY <3>1, <3>2
  <2>2. \A k \in 0..(n - 1) : k \in 0..Len(bytes) /\ CommandStart(bytes, k) < top
    BY <1>1 DEF Ladder
  <2> HIDE DEF top
  <2> QED
    BY <2>1, <2>2 DEF CommandStarts, Below
<1> QED
  BY <1>5 DEF Ladder
\* A phrase number counts on through the chip, so that the messages of a bank lie in a range
\* of numbers of their own.
IsMessageCount(x, seg) ==
    /\ x[0] = 0
    /\ \A k \in 1..(seg - 1) : x[k] = x[k - 1] + MessagesIn(k)
    /\ \A k \in 0..(seg - 1) : x[k] \in Nat
    /\ PhrasesBefore(seg) = x[seg - 1]

LEMMA SegmentType == \A k \in DOMAIN Rom : Rom[k] \in [magic : BOOLEAN, messages : Seq(Seq(0..255))]
<1> DEFINE S == [magic : BOOLEAN, messages : Seq(Seq(0..255))]
<1>1. Rom \in Seq(S)
  BY VoiceDecodeAssumption
<1> HIDE DEF S
<1>2. \A k \in 1..Len(Rom) : Rom[k] \in S
  BY <1>1, ElementOfSeq
<1> QED
  BY <1>1, <1>2 DEF S

LEMMA MessagesInType == \A k \in DOMAIN Rom : MessagesIn(k) \in Nat
<1> SUFFICES ASSUME NEW k \in DOMAIN Rom PROVE MessagesIn(k) \in Nat
  OBVIOUS
<1>1. Rom[k] \in [magic : BOOLEAN, messages : Seq(Seq(0..255))]
  BY SegmentType
<1> QED
  BY <1>1 DEF MessagesIn

LEMMA MessageCountRun ==
    ASSUME NEW seg \in DOMAIN Rom
    PROVE  \E x : IsMessageCount(x, seg)
<1> DEFINE N == seg - 1
           Sums(h) == h = [s \in 0..N |-> IF s = 0 THEN 0 ELSE h[s - 1] + MessagesIn(s)]
           x == CHOOSE h : Sums(h)
           step == [k \in 1..N |-> [s \in Nat |-> s + MessagesIn(k)]]
<1>1. N \in Nat /\ 0 \in 0..N /\ N \in 0..N /\ \A k \in 1..N : k \in DOMAIN Rom
  BY VoiceDecodeAssumption
<1>2. \A k \in 1..N, s \in Nat : s + MessagesIn(k) \in Nat /\ step[k][s] = s + MessagesIn(k)
  BY <1>1, MessagesInType
<1> HIDE DEF N
<1>3. PICK g : IsRun(g, step, 0, N, Nat)
  <2>1. StepsWithin(step, N, Nat)
    BY <1>2 DEF StepsWithin
  <2>2. 0 \in Nat
    OBVIOUS
  <2> HIDE DEF step
  <2> QED
    BY <1>1, <2>1, <2>2, Iterated
<1>4. \A k \in 1..N : k - 1 \in 0..N /\ k \in 0..N /\ k # 0
  BY <1>1
<1>5. \A k \in 0..N : g[k] = IF k = 0 THEN 0 ELSE g[k - 1] + MessagesIn(k)
  <2>1. /\ g \in [0..N -> Nat] /\ g[0] = 0
        /\ \A k \in 1..N : g[k] = step[k][g[k - 1]]
    <3> HIDE DEF step
    <3> QED
      BY <1>3 DEF IsRun
  <2> SUFFICES ASSUME NEW k \in 0..N, k # 0 PROVE g[k] = g[k - 1] + MessagesIn(k)
    BY <2>1
  <2>2. k \in 1..N /\ g[k - 1] \in Nat
    BY <1>1, <2>1
  <2> HIDE DEF step
  <2> QED
    BY <1>2, <2>1, <2>2
<1>6. Sums(g)
  <2>1. g = [k \in 0..N |-> g[k]]
    BY <1>3 DEF IsRun
  <2> QED
    BY <1>5, <2>1
<1>7. Sums(x)
  BY <1>6
<1>8. PhrasesBefore(seg) = x[N]
  BY DEF PhrasesBefore, N
<1> HIDE DEF x
<1>9. x[0] = 0 /\ \A k \in 1..N : x[k] = x[k - 1] + MessagesIn(k)
  BY <1>1, <1>4, <1>7
<1> DEFINE T == {k \in 0..N : x[k] \in Nat}
<1>10. 0 \in T
  BY <1>1, <1>9
<1>11. \A k \in 1..N : k - 1 \in T => k \in T
  BY <1>1, <1>4, <1>9, MessagesInType
<1>12. \A k \in 0..N : k \in T
  <2> HIDE DEF T
  <2> QED
    BY <1>1, <1>10, <1>11, UpTo
<1> QED
  BY <1>8, <1>9, <1>12 DEF IsMessageCount, N

LEMMA BanksApart ==
    ASSUME NEW b \in DOMAIN Rom, NEW c \in DOMAIN Rom, b < c
    PROVE  /\ PhrasesBefore(b) \in Nat /\ PhrasesBefore(c) \in Nat
           /\ PhrasesBefore(b) + MessagesIn(b) <= PhrasesBefore(c)
<1>0. b \in Nat \ {0} /\ c \in Nat \ {0} /\ \A k \in 1..(c - 1) : k \in DOMAIN Rom
  BY VoiceDecodeAssumption
<1>1. PICK x : IsMessageCount(x, b)
  BY MessageCountRun
<1>2. PICK y : IsMessageCount(y, c)
  BY MessageCountRun
<1>3. x[b - 1] = y[b - 1]
  <2> DEFINE T == {k \in 0..(b - 1) : x[k] = y[k]}
  <2>1. 0 \in T
    BY <1>0, <1>1, <1>2 DEF IsMessageCount
  <2>2. \A k \in 1..(b - 1) : k - 1 \in T => k \in T
    <3> SUFFICES ASSUME NEW k \in 1..(b - 1), x[k - 1] = y[k - 1] PROVE k \in T
      OBVIOUS
    <3>1. k \in 1..(c - 1) /\ k \in 0..(b - 1)
      BY <1>0
    <3> QED
      BY <1>1, <1>2, <3>1 DEF IsMessageCount
  <2>3. b - 1 \in Nat /\ b - 1 \in 0..(b - 1)
    BY <1>0
  <2>4. \A k \in 0..(b - 1) : k \in T
    <3> HIDE DEF T
    <3> QED
      BY <2>1, <2>2, <2>3, UpTo
  <2> QED
    BY <2>3, <2>4
<1>4. y[b] = y[b - 1] + MessagesIn(b) /\ y[b] \in Nat /\ y[b - 1] \in Nat
  <2>1. b \in 1..(c - 1) /\ b \in 0..(c - 1) /\ b - 1 \in 0..(c - 1)
    BY <1>0
  <2> QED
    BY <1>2, <2>1 DEF IsMessageCount
<1>5. y[b] <= y[c - 1] /\ y[c - 1] \in Nat
  <2> DEFINE M == c - 1 - b
             T == {i \in 0..M : y[b] <= y[b + i]}
  <2>1. M \in Nat /\ 0 \in 0..M /\ b + 0 = b /\ b + M = c - 1
    BY <1>0
  <2>2. 0 \in T
    BY <1>4, <2>1
  <2>3. \A i \in 1..M : i - 1 \in T => i \in T
    <3> SUFFICES ASSUME NEW i \in 1..M, y[b] <= y[b + (i - 1)] PROVE i \in 0..M /\ y[b] <= y[b + i]
      OBVIOUS
    <3>1. PICK j \in 1..(c - 1) : j = b + i
      BY <1>0
    <3>2. j - 1 = b + (i - 1) /\ j - 1 \in 0..(c - 1)
      BY <1>0, <3>1
    <3>3. y[j] = y[j - 1] + MessagesIn(j) /\ y[j - 1] \in Nat /\ MessagesIn(j) \in Nat
      BY <1>0, <1>2, <3>1, <3>2, MessagesInType DEF IsMessageCount
    <3>4. y[b] <= y[j - 1]
      BY <3>2
    <3>5. y[b] <= y[j]
      BY <1>4, <3>3, <3>4
    <3> QED
      BY <3>1, <3>5
  <2>4. \A i \in 0..M : i \in T
    <3> HIDE DEF T, M
    <3> QED
      BY <2>1, <2>2, <2>3, UpTo
  <2>5. M \in T
    BY <2>1, <2>4
  <2>6. y[c - 1] \in Nat
    <3>1. c - 1 \in 0..(c - 1)
      BY <1>0
    <3> QED
      BY <1>2, <3>1 DEF IsMessageCount
  <2>7. y[b] <= y[b + M]
    BY <2>5
  <2> HIDE DEF M
  <2> QED
    BY <2>1, <2>6, <2>7
<1>6. PhrasesBefore(b) = x[b - 1] /\ PhrasesBefore(c) = y[c - 1]
  BY <1>1, <1>2 DEF IsMessageCount
<1>7. MessagesIn(b) \in Nat
  BY MessagesInType
<1> QED
  BY <1>3, <1>4, <1>5, <1>6, <1>7

LEMMA OneBank ==
    \A p \in Phrases : \A b, c \in DOMAIN Rom : LookupIndex(b, p) # 0 /\ LookupIndex(c, p) # 0 => b = c
<1>1. ASSUME NEW p \in Phrases, NEW b \in DOMAIN Rom, NEW c \in DOMAIN Rom, b < c,
             LookupIndex(b, p) # 0, LookupIndex(c, p) # 0
      PROVE  FALSE
  <2>1. p \in Int
    BY VoiceDecodeAssumption
  <2>2. \A k \in {b, c} : /\ p - PhrasesBefore(k) + 1 \in DOMAIN Rom[k].messages
                          /\ MessagesIn(k) = Len(Rom[k].messages)
    BY <1>1 DEF LookupIndex, MessagesIn
  <2>3. \A k \in {b, c} : p - PhrasesBefore(k) + 1 \in 1..MessagesIn(k)
    <3>1. \A k \in {b, c} : Rom[k] \in [magic : BOOLEAN, messages : Seq(Seq(0..255))]
      BY SegmentType
    <3>2. \A k \in {b, c} : DOMAIN Rom[k].messages = 1..Len(Rom[k].messages)
      BY <3>1
    <3> QED
      BY <2>2, <3>2
  <2>4. /\ PhrasesBefore(b) \in Nat /\ PhrasesBefore(c) \in Nat
        /\ PhrasesBefore(b) + MessagesIn(b) <= PhrasesBefore(c)
    BY <1>1, BanksApart
  <2>5. MessagesIn(b) \in Nat /\ MessagesIn(c) \in Nat
    BY MessagesInType
  <2> QED
    BY <2>1, <2>3, <2>4, <2>5
<1>2. \A b \in DOMAIN Rom : b \in Nat
  BY VoiceDecodeAssumption
<1> QED
  BY <1>1, <1>2

\* What makes the reading in a line inductive: the loop is at the command whose number is the
\* number of the blocks made, which is where a phrase that played found its end marker.
AtCommand(bytes, p, n) == p = CommandStart(bytes, n) /\ Ladder(bytes, n)

VoiceInv ==
    /\ VoiceTypeOK
    /\ voice.at >= 2
    /\ voice.repeats > 0 => voice.loop >= 2
    /\ voice.mode = "reference" =>
         /\ voice.repeats = 0
         /\ voice.state = "running" => AtCommand(voice.bytes, voice.at, Len(voice.blocks))
         /\ voice.state = "played" => /\ AtCommand(voice.bytes, voice.at - 1, Len(voice.blocks))
                                      /\ voice.bytes[voice.at - 1] = 0

LEMMA MessageType ==
    ASSUME NEW mode, NEW bank \in DOMAIN Rom, NEW phrase \in Phrases, MessageIndex(mode, bank, phrase) # 0
    PROVE  Rom[bank].messages[MessageIndex(mode, bank, phrase)] \in Seq(0..255)
<1> DEFINE i == MessageIndex(mode, bank, phrase)
           m == Rom[bank].messages
           S == Seq(0..255)
<1>1. m \in Seq(S)
  BY SegmentType
<1>2. phrase \in 0..255 /\ DOMAIN m = 1..Len(m) /\ Len(m) \in Nat
  BY <1>1, VoiceDecodeAssumption
<1>3. i \in 1..Len(m)
  BY <1>2 DEF MessageIndex, LookupIndex
<1> HIDE DEF i, m, S
<1>4. m[i] \in S
  BY <1>1, <1>3, ElementOfSeq
<1> QED
  BY <1>4 DEF i, m, S

LEMMA VoiceInitInv == VoiceInit => VoiceInv
<1> SUFFICES ASSUME NEW mode \in {"reference", "spec"}, NEW bank \in DOMAIN Rom, NEW phrase \in Phrases,
                    NEW i, i = MessageIndex(mode, bank, phrase),
                    voice = [mode |-> mode, bank |-> bank, phrase |-> phrase,
                             bytes |-> IF i = 0 THEN <<>> ELSE Rom[bank].messages[i], at |-> 2,
                             adpcm |-> FreshPredictor, repeats |-> 0, loop |-> 0, blocks |-> <<>>,
                             state |-> IF i = 0 THEN "failed" ELSE "running"]
             PROVE  VoiceInv
  BY DEF VoiceInit
<1> DEFINE bytes == IF i = 0 THEN <<>> ELSE Rom[bank].messages[i]
           Bytes == Seq(0..255)
           Blocks == Seq(Block)
<1>1. bytes \in Bytes
  BY MessageType
<1>2. FreshPredictor \in Adpcm /\ 0 \in 0..8 /\ 0 \in Nat /\ 2 \in Nat
  BY DEF FreshPredictor, Adpcm
<1>3. <<>> \in Blocks /\ Len(<<>>) = 0
  OBVIOUS
<1>4. Ladder(bytes, 0) /\ CommandStart(bytes, 0) = 2
  <2>1. 0 \in Nat
    OBVIOUS
  <2> HIDE DEF bytes
  <2> QED
    BY <1>1, <2>1, LadderFoot, StartStep
<1> HIDE DEF bytes, Bytes, Blocks
<1>5. voice \in [mode : {"reference", "spec"}, bank : DOMAIN Rom, phrase : Phrases, bytes : Bytes,
                 at : Nat, adpcm : Adpcm, repeats : 0..8, loop : Nat, blocks : Blocks,
                 state : {"running", "played", "failed"}]
  BY <1>1, <1>2, <1>3 DEF bytes
<1>6. VoiceTypeOK
  BY <1>5 DEF VoiceTypeOK, Bytes, Blocks
<1>7. /\ voice.at = 2 /\ voice.repeats = 0 /\ voice.bytes = bytes /\ voice.blocks = <<>>
      /\ voice.state # "played"
  BY DEF bytes
<1> QED
  BY <1>3, <1>4, <1>6, <1>7 DEF VoiceInv, AtCommand

LEMMA VoiceFields ==
    ASSUME VoiceTypeOK
    PROVE  /\ voice.mode \in {"reference", "spec"} /\ voice.bank \in DOMAIN Rom /\ voice.phrase \in Phrases
           /\ voice.bytes \in Seq(0..255) /\ voice.at \in Nat /\ voice.adpcm \in Adpcm /\ voice.repeats \in 0..8
           /\ voice.loop \in Nat /\ voice.blocks \in Seq(Block) /\ voice.state \in {"running", "played", "failed"}
  BY DEF VoiceTypeOK

\* The record the command loop goes on from: a position, a predictor, the turns left, the blocks.
Going(at, adpcm, repeats, loop, blocks, state) ==
    [voice EXCEPT !.at = at, !.adpcm = adpcm, !.repeats = repeats, !.loop = loop, !.blocks = blocks, !.state = state]

VoiceRecords ==
    [mode : {"reference", "spec"}, bank : DOMAIN Rom, phrase : Phrases, bytes : Seq(0..255),
     at : Nat, adpcm : Adpcm, repeats : 0..8, loop : Nat, blocks : Seq(Block),
     state : {"running", "played", "failed"}]

Goes(v, at, adpcm, repeats, loop, blocks, state) == v = Going(at, adpcm, repeats, loop, blocks, state)

Gone(v, at, adpcm, repeats, loop, blocks, state) ==
    /\ v \in VoiceRecords
    /\ v.mode = voice.mode /\ v.bytes = voice.bytes /\ v.at = at /\ v.adpcm = adpcm
    /\ v.repeats = repeats /\ v.loop = loop /\ v.blocks = blocks /\ v.state = state

LEMMA GoingType ==
    ASSUME VoiceTypeOK, NEW at \in Nat, NEW adpcm \in Adpcm, NEW repeats \in 0..8, NEW loop \in Nat,
           NEW blocks \in Seq(Block), NEW state \in {"running", "played", "failed"},
           NEW v, Goes(v, at, adpcm, repeats, loop, blocks, state)
    PROVE  Gone(v, at, adpcm, repeats, loop, blocks, state)
<1> DEFINE Modes == {"reference", "spec"}
           Dom == DOMAIN Rom
           Bytes == Seq(0..255)
           Turns == 0..8
           Blocks == Seq(Block)
           States == {"running", "played", "failed"}
           All == [mode : Modes, bank : Dom, phrase : Phrases, bytes : Bytes, at : Nat, adpcm : Adpcm,
                   repeats : Turns, loop : Nat, blocks : Blocks, state : States]
<1>1. voice \in All
  BY DEF VoiceTypeOK
<1>2. adpcm \in Adpcm /\ repeats \in Turns /\ blocks \in Blocks /\ state \in States /\ at \in Nat /\ loop \in Nat
  OBVIOUS
<1>3. All = VoiceRecords
  BY DEF VoiceRecords
<1> HIDE DEF Modes, Dom, Bytes, Turns, Blocks, States
<1>0. v = Going(at, adpcm, repeats, loop, blocks, state)
  BY DEF Goes
<1>4. v \in All
  BY ONLY <1>0, <1>1, <1>2, ZenonT(30) DEF Going
<1>5. /\ v.mode = voice.mode /\ v.bytes = voice.bytes /\ v.at = at /\ v.adpcm = adpcm
      /\ v.repeats = repeats /\ v.loop = loop /\ v.blocks = blocks /\ v.state = state
  BY ONLY <1>0, <1>1, ZenonT(30) DEF Going
<1> HIDE DEF All
<1> QED
  BY <1>3, <1>4, <1>5 DEF Gone

\* The command a turn reads: where its loop sends it back to, or where the last one ended.
LEMMA TurnFields ==
    ASSUME VoiceInv
    PROVE  /\ Turn.at \in Nat /\ Turn.at >= 2 /\ Turn.repeats \in 0..8
           /\ Turn.repeats > 0 => voice.loop >= 2
           /\ Turn = Going(Turn.at, voice.adpcm, Turn.repeats, voice.loop, voice.blocks, voice.state)
           /\ voice.mode = "reference" => Turn = voice
<1>1. VoiceTypeOK /\ voice.at >= 2 /\ (voice.repeats > 0 => voice.loop >= 2)
  BY DEF VoiceInv
<1>2. voice.at \in Nat /\ voice.loop \in Nat /\ voice.repeats \in 0..8
  BY <1>1, VoiceFields
<1>3. CASE voice.repeats > 0
  <2>1. Turn = [voice EXCEPT !.repeats = voice.repeats - 1, !.at = voice.loop]
    BY <1>3 DEF Turn
  <2>2. Turn.repeats = voice.repeats - 1 /\ Turn.at = voice.loop
    BY <1>1, <2>1 DEF VoiceTypeOK
  <2>3. Turn = Going(Turn.at, voice.adpcm, Turn.repeats, voice.loop, voice.blocks, voice.state)
    BY <1>1, <2>1, <2>2 DEF VoiceTypeOK, Going
  <2>4. voice.mode # "reference"
    BY <1>2, <1>3 DEF VoiceInv
  <2> QED
    BY <1>1, <1>2, <1>3, <2>2, <2>3, <2>4
<1>4. CASE ~(voice.repeats > 0)
  <2>1. Turn = voice /\ voice.repeats = 0
    BY <1>2, <1>4 DEF Turn
  <2>2. voice = Going(voice.at, voice.adpcm, voice.repeats, voice.loop, voice.blocks, voice.state)
    BY <1>1 DEF VoiceTypeOK, Going
  <2> QED
    BY <1>1, <1>2, <2>1, <2>2
<1> QED
  BY <1>3, <1>4

LEMMA EmitGoes ==
    ASSUME VoiceInv, NEW block \in Block, NEW next \in Nat, Emit(Turn, block, next)
    PROVE  voice' = Going(next, block.after, Turn.repeats, voice.loop, Append(voice.blocks, block), voice.state)
<1> DEFINE at == Turn.at
           reps == Turn.repeats
           after == block.after
           blocks == Append(voice.blocks, block)
           turn == Turn
<1>1. VoiceTypeOK
  BY DEF VoiceInv
<1>2. turn = Going(at, voice.adpcm, reps, voice.loop, voice.blocks, voice.state)
  BY TurnFields
<1>3. voice' = [turn EXCEPT !.blocks = Append(@, block), !.adpcm = after, !.at = next]
  BY DEF Emit
<1>4. turn.blocks = voice.blocks
  <2> HIDE DEF turn, at, reps
  <2> QED
    BY <1>1, <1>2 DEF VoiceTypeOK, Going
<1>5. voice' = [turn EXCEPT !.blocks = blocks, !.adpcm = after, !.at = next]
  BY <1>3, <1>4
<1> HIDE DEF at, reps, after, blocks, turn
<1>6. voice' = Going(next, after, reps, voice.loop, blocks, voice.state)
  BY <1>1, <1>2, <1>5 DEF VoiceTypeOK, Going
<1> QED
  BY <1>6 DEF reps, after, blocks

\* A block made of a command keeps the invariant, if the next command begins where this one ends.
LEMMA EmitInv ==
    ASSUME VoiceInv, voice.state = "running", Readable(Turn.at), NEW block \in Block, NEW next \in Nat, next >= 2,
           Emit(Turn, block, next),
           voice.mode = "reference" => Op # 0 /\ next = NextStart(voice.bytes, Turn.at)
    PROVE  VoiceInv'
<1> DEFINE n == Len(voice.blocks)
           bytes == voice.bytes
           blocks == Append(voice.blocks, block)
           reps == Turn.repeats
           after == block.after
<1>1. VoiceTypeOK
  BY DEF VoiceInv
<1>2. after \in Adpcm /\ blocks \in Seq(Block) /\ Len(blocks) = n + 1 /\ n \in Nat
  BY <1>1, VoiceFields DEF Block
<1>3. reps \in 0..8 /\ voice.loop \in Nat /\ (reps > 0 => voice.loop >= 2) /\ bytes \in Seq(0..255)
  BY <1>1, TurnFields, VoiceFields
<1>4. voice' = Going(next, after, reps, voice.loop, blocks, "running")
  BY EmitGoes
<1>5. voice.mode = "reference" => AtCommand(bytes, next, n + 1) /\ reps = 0
  <2> SUFFICES ASSUME voice.mode = "reference" PROVE AtCommand(bytes, next, n + 1) /\ reps = 0
    OBVIOUS
  <2>1. AtCommand(bytes, voice.at, n) /\ voice.repeats = 0 /\ Turn = voice
    BY TurnFields DEF VoiceInv
  <2>2. voice.at <= Len(bytes) /\ bytes[voice.at] # 0 /\ next = NextStart(bytes, voice.at)
    BY <2>1 DEF Readable, Op
  <2> HIDE DEF n, bytes
  <2>3. CommandStart(bytes, n + 1) = NextStart(bytes, CommandStart(bytes, n))
    BY <1>2, <1>3, StartStep
  <2>4. voice.at = CommandStart(bytes, n) /\ Ladder(bytes, n)
    BY <2>1 DEF AtCommand
  <2>5. Ladder(bytes, n + 1)
    BY <1>2, <1>3, <2>2, <2>4, LadderUp
  <2> QED
    BY <2>1, <2>2, <2>3, <2>4, <2>5 DEF AtCommand
<1> HIDE DEF n, bytes, blocks, reps, after
<1>6. /\ voice' \in VoiceRecords
      /\ voice'.mode = voice.mode /\ voice'.bytes = voice.bytes /\ voice'.at = next
      /\ voice'.repeats = reps /\ voice'.loop = voice.loop /\ voice'.blocks = blocks /\ voice'.state = "running"
  <2>1. PICK run \in {"running", "played", "failed"} : run = "running"
    OBVIOUS
  <2>2. PICK r \in 0..8 : r = reps
    BY <1>3
  <2>3. PICK l \in Nat : l = voice.loop
    BY <1>3
  <2>4. PICK made \in Seq(Block) : made = blocks
    BY <1>2
  <2>5. PICK predictor \in Adpcm : predictor = after
    BY <1>2
  <2>6. PICK v : Goes(v, next, predictor, r, l, made, run)
    BY DEF Goes
  <2>7. Gone(v, next, predictor, r, l, made, run)
    BY <1>1, <2>6, GoingType
  <2>8. voice' = v
    BY <1>4, <2>1, <2>2, <2>3, <2>4, <2>5, <2>6 DEF Goes
  <2> QED
    BY <2>1, <2>2, <2>3, <2>4, <2>7, <2>8 DEF Gone
<1>7. VoiceTypeOK'
  BY <1>6 DEF VoiceTypeOK, VoiceRecords
<1> QED
  BY <1>2, <1>3, <1>5, <1>6, <1>7 DEF VoiceInv, bytes

\* What a turn reads: an octet, and a payload that is in the window.
LEMMA TurnReads ==
    ASSUME VoiceInv, Readable(Turn.at)
    PROVE  /\ Op \in 0..255 /\ Turn.at \in 1..Len(voice.bytes) /\ Len(voice.bytes) \in Nat
           /\ Readable(Turn.at + 1) => Nibbles \in 1..256
<1> DEFINE at == Turn.at
           bytes == voice.bytes
<1>1. at \in Nat /\ at >= 2
  BY TurnFields
<1>2. bytes \in Seq(0..255)
  BY VoiceFields DEF VoiceInv
<1>3. Readable(at) <=> at <= Len(bytes)
  BY DEF Readable
<1>4. Readable(at + 1) <=> at + 1 <= Len(bytes)
  BY DEF Readable
<1>5. Op = bytes[at] /\ Nibbles = bytes[at + 1] + 1
  BY DEF Op, Nibbles
<1>6. Readable(at)
  OBVIOUS
<1> HIDE DEF at, bytes
<1>7. at \in 1..Len(bytes) /\ Len(bytes) \in Nat
  BY <1>1, <1>2, <1>3, <1>6
<1>8. bytes[at] \in 0..255
  BY <1>2, <1>7, ElementOfSeq
<1>9. ASSUME Readable(at + 1) PROVE bytes[at + 1] + 1 \in 1..256
  <2>1. at + 1 \in 1..Len(bytes)
    BY <1>4, <1>7, <1>9
  <2>2. bytes[at + 1] \in 0..255
    BY <1>2, <2>1, ElementOfSeq
  <2> QED
    BY <2>2
<1> QED
  BY <1>5, <1>7, <1>8, <1>9 DEF at, bytes

LEMMA BlockType ==
    ASSUME NEW kind \in {"silence", "fixed", "variable", "repeat"}, NEW made \in Nat, NEW after \in Adpcm
    PROVE  [kind |-> kind, samples |-> made, after |-> after] \in Block
  BY DEF Block

LEMMA BlockRateType ==
    ASSUME VoiceInv, Readable(Turn.at), NEW n \in Nat
    PROVE  Resampled(n, BlockRate) \in Nat /\ Resampled(n, 8000) \in Nat
<1>1. 8000 \in Nat \ {0}
  OBVIOUS
<1>2. PICK op \in 0..255 : op = Op
  BY TurnReads
<1>3. BlockRate \in Nat \ {0}
  BY <1>1, <1>2, RateType DEF BlockRate
<1>4. PICK rate \in Nat \ {0} : rate = BlockRate
  BY <1>3
<1>5. Resampled(n, rate) \in Nat
  BY ResampledType
<1>6. Resampled(n, 8000) \in Nat
  BY <1>1, ResampledType
<1> QED
  BY <1>4, <1>5, <1>6

\* The payloads end where the code looked whether the window still reaches.
LEMMA PayloadFixed ==
    ASSUME VoiceInv, Readable(Turn.at + FixedNibbles \div 2)
    PROVE  Payload(FixedNibbles, Turn.at + 1) \in Adpcm
<1>1. PICK at \in Nat \ {0} : at = Turn.at
  BY TurnFields
<1>2. PICK n \in Nat : n = FixedNibbles /\ n % 2 = 0
  BY VoiceDecodeAssumption
<1>3. voice.bytes \in Seq(0..255) /\ voice.adpcm \in Adpcm
  BY VoiceFields DEF VoiceInv
<1>4. Len(voice.bytes) \in Nat /\ at + n \div 2 <= Len(voice.bytes)
  BY <1>1, <1>2, <1>3 DEF Readable
<1>5. PICK first \in Nat \ {0} : first = at + 1
  BY <1>1
<1>6. first + (n + 1) \div 2 - 1 <= Len(voice.bytes)
  BY <1>2, <1>4, <1>5
<1>7. Payload(n, first) \in Adpcm
  BY <1>3, <1>6, PayloadType
<1> QED
  BY <1>1, <1>2, <1>5, <1>7

LEMMA PayloadVariable ==
    ASSUME VoiceInv, Readable(Turn.at), PayloadReadable
    PROVE  Payload(Nibbles, Turn.at + 2) \in Adpcm /\ Nibbles \in 1..256
<1>1. PICK at \in Nat \ {0} : at = Turn.at
  BY TurnFields
<1>2. PICK n \in 1..256 : n = Nibbles
  BY TurnReads DEF PayloadReadable
<1>3. voice.bytes \in Seq(0..255) /\ voice.adpcm \in Adpcm
  BY VoiceFields DEF VoiceInv
<1>4. Len(voice.bytes) \in Nat /\ at + 1 + (n + 1) \div 2 <= Len(voice.bytes)
  BY <1>1, <1>2, <1>3 DEF PayloadReadable, Readable
<1>5. PICK first \in Nat \ {0} : first = at + 2
  BY <1>1
<1>6. first + (n + 1) \div 2 - 1 <= Len(voice.bytes) /\ n \in Nat
  BY <1>4, <1>5
<1>7. Payload(n, first) \in Adpcm
  BY <1>3, <1>6, PayloadType
<1> QED
  BY <1>1, <1>2, <1>5, <1>7

LEMMA SilenceInv == ASSUME VoiceInv, Silence PROVE VoiceInv'
<1> DEFINE next == Turn.at + 1
<1>1. voice.state = "running" /\ Readable(Turn.at) /\ Op \in 1..63
  BY DEF Silence, InClass
<1>2. next \in Nat /\ next >= 2
  BY TurnFields
<1>3. voice.mode = "reference" => Op # 0 /\ next = NextStart(voice.bytes, Turn.at)
  <2>1. ~(Turn.at > Len(voice.bytes)) /\ voice.bytes[Turn.at] = Op
    BY <1>1, TurnReads DEF Op
  <2>2. \A operand : SizeOf(Op, operand) = 1
    BY <1>1 DEF SizeOf
  <2>3. Op # 0
    BY <1>1
  <2> QED
    BY <2>1, <2>2, <2>3 DEF NextStart
<1>4. voice.adpcm \in Adpcm /\ FreshPredictor \in Adpcm
  BY VoiceFields DEF VoiceInv, FreshPredictor, Adpcm
<1>5. PICK op \in 1..63 : op = Op
  BY <1>1
<1>6. Resampled(op * 8, 8000) \in Nat /\ Resampled(256 * (op + 1), 160000) \in Nat
  <2>1. op * 8 \in Nat /\ 256 * (op + 1) \in Nat /\ 8000 \in Nat \ {0} /\ 160000 \in Nat \ {0}
    OBVIOUS
  <2> QED
    BY <2>1, ResampledType
<1>7. PICK block \in Block : Emit(Turn, block, next)
  <2> DEFINE a == [kind |-> "silence", samples |-> Resampled(Op * 8, 8000), after |-> voice.adpcm]
             b == [kind |-> "silence", samples |-> Resampled(256 * (Op + 1), 160000), after |-> FreshPredictor]
  <2>1. a \in Block /\ b \in Block
    BY <1>4, <1>5, <1>6, BlockType
  <2>2. Emit(Turn, a, next) \/ Emit(Turn, b, next)
    BY DEF Silence
  <2> HIDE DEF a, b
  <2> QED
    BY <2>1, <2>2
<1> HIDE DEF next
<1> QED
  BY <1>1, <1>2, <1>3, <1>7, EmitInv

LEMMA FixedBlockInv == ASSUME VoiceInv, FixedBlock PROVE VoiceInv'
<1> DEFINE half == FixedNibbles \div 2
           next == Turn.at + 1 + half
           after == Payload(FixedNibbles, Turn.at + 1)
<1>1. voice.state = "running" /\ Readable(Turn.at) /\ Op \in 64..127 /\ Readable(Turn.at + half)
  BY DEF FixedBlock, InClass
<1>2. FixedNibbles \in Nat /\ half \in Nat
  BY VoiceDecodeAssumption
<1>3. next \in Nat /\ next >= 2
  BY <1>2, TurnFields
<1>4. voice.mode = "reference" => Op # 0 /\ next = NextStart(voice.bytes, Turn.at)
  <2>1. ~(Turn.at > Len(voice.bytes)) /\ voice.bytes[Turn.at] = Op /\ Turn.at \in Nat
    BY <1>1, TurnReads DEF Op
  <2>2. \A operand : SizeOf(Op, operand) = 1 + half
    BY <1>1 DEF SizeOf
  <2>3. Op # 0
    BY <1>1
  <2>4. NextStart(voice.bytes, Turn.at) = Turn.at + (1 + half)
    <3> HIDE DEF half
    <3> QED
      BY <2>1, <2>2, <2>3 DEF NextStart
  <2>5. next = Turn.at + (1 + half)
    <3>1. Turn.at \in Nat /\ half \in Nat
      BY <1>2, <2>1
    <3>2. \A m, n \in Nat : m + 1 + n = m + (1 + n)
      OBVIOUS
    <3> HIDE DEF half
    <3> QED
      BY <3>1, <3>2, Zenon
  <2> HIDE DEF next
  <2> QED
    BY ONLY <2>3, <2>4, <2>5
<1>5. after \in Adpcm
  BY <1>1, PayloadFixed
<1>6. Resampled(FixedNibbles, BlockRate) \in Nat
  BY <1>1, <1>2, BlockRateType
<1>7. PICK block \in Block : Emit(Turn, block, next)
  <2> DEFINE a == [kind |-> "fixed", samples |-> Resampled(FixedNibbles, BlockRate), after |-> after]
  <2>1. a \in Block
    BY <1>5, <1>6, BlockType
  <2>2. Emit(Turn, a, next)
    BY DEF FixedBlock
  <2> HIDE DEF a
  <2> QED
    BY <2>1, <2>2
<1> HIDE DEF next, half
<1> QED
  BY <1>1, <1>3, <1>4, <1>7, EmitInv

\* After a variable or a repeated payload.
LEMMA VariableEnd ==
    ASSUME VoiceInv, Readable(Turn.at), PayloadReadable, Op \in 128..255
    PROVE  LET next == Turn.at + 2 + (Nibbles + 1) \div 2
           IN next \in Nat /\ next >= 2 /\ next = NextStart(voice.bytes, Turn.at)
<1>1. PICK at \in Nat \ {0} : at = Turn.at
  BY TurnFields
<1>2. PICK n \in 1..256 : n = Nibbles
  BY PayloadVariable
<1>3. at < Len(voice.bytes) /\ Len(voice.bytes) \in Nat
  BY <1>1, TurnReads DEF PayloadReadable, Readable
<1>4. PICK operand \in 0..255 : operand = voice.bytes[at + 1]
  <2>1. voice.bytes \in Seq(0..255) /\ at + 1 \in 1..Len(voice.bytes)
    BY <1>3, VoiceFields DEF VoiceInv
  <2>2. voice.bytes[at + 1] \in 0..255
    BY <2>1, ElementOfSeq
  <2> QED
    BY <2>2
<1>5. n = operand + 1
  BY <1>1, <1>2, <1>4 DEF Nibbles
<1>6. SizeOf(Op, operand) = 2 + (operand + 2) \div 2
  BY DEF SizeOf
<1>7. ~(at > Len(voice.bytes)) /\ voice.bytes[at] = Op /\ Op # 0
  <2>1. ~(at > Len(voice.bytes))
    BY <1>1, <1>3
  <2>2. voice.bytes[at] = Op
    BY <1>1 DEF Op
  <2>3. Op # 0
    OBVIOUS
  <2> QED
    BY <2>1, <2>2, <2>3
<1>8. NextStart(voice.bytes, at) = at + SizeOf(Op, operand)
  BY <1>3, <1>4, <1>7 DEF NextStart
<1>9. PICK pairs \in Nat : pairs = (operand + 2) \div 2
  BY <1>4
<1>10. (n + 1) \div 2 = pairs
  BY <1>5, <1>9
<1> QED
  BY <1>1, <1>2, <1>6, <1>8, <1>9, <1>10

LEMMA VariableBlockInv == ASSUME VoiceInv, VariableBlock PROVE VoiceInv'
<1> DEFINE next == Turn.at + 2 + (Nibbles + 1) \div 2
           after == Payload(Nibbles, Turn.at + 2)
<1>1. voice.state = "running" /\ Readable(Turn.at) /\ Op \in 128..191 /\ PayloadReadable
  BY DEF VariableBlock, InClass
<1>2. next \in Nat /\ next >= 2 /\ next = NextStart(voice.bytes, Turn.at) /\ Op # 0
  BY <1>1, VariableEnd
<1>3. after \in Adpcm /\ Nibbles \in Nat
  BY <1>1, PayloadVariable
<1>4. Resampled(Nibbles, BlockRate) \in Nat
  BY <1>1, <1>3, BlockRateType
<1>5. PICK block \in Block : Emit(Turn, block, next)
  <2> DEFINE a == [kind |-> "variable", samples |-> Resampled(Nibbles, BlockRate), after |-> after]
  <2>1. a \in Block
    BY <1>3, <1>4, BlockType
  <2>2. Emit(Turn, a, next)
    BY DEF VariableBlock
  <2> HIDE DEF a
  <2> QED
    BY <2>1, <2>2
<1> HIDE DEF next
<1> QED
  BY <1>1, <1>2, <1>5, EmitInv

LEMMA RepeatBlockInv == ASSUME VoiceInv, RepeatBlock PROVE VoiceInv'
<1>1. voice.state = "running" /\ Readable(Turn.at) /\ Op \in 192..255
  BY DEF RepeatBlock, InClass
<1>2. CASE voice.mode = "reference"
  <2> DEFINE next == Turn.at + 2 + (Nibbles + 1) \div 2
             after == Payload(Nibbles, Turn.at + 2)
             times == ((Op \div 8) % 8) + 1
  <2>1. PayloadReadable
    BY <1>2 DEF RepeatBlock
  <2>2. next \in Nat /\ next >= 2 /\ next = NextStart(voice.bytes, Turn.at) /\ Op # 0
    BY <1>1, <2>1, VariableEnd
  <2>3. after \in Adpcm /\ Nibbles \in Nat
    BY <1>1, <2>1, PayloadVariable
  <2>4. times * Resampled(Nibbles, 8000) \in Nat
    <3>1. PICK made \in Nat : made = Resampled(Nibbles, 8000)
      BY <1>1, <2>3, BlockRateType
    <3>2. times \in 1..8
      BY <1>1
    <3>3. \A t \in 1..8 : t * made \in Nat
      OBVIOUS
    <3> QED
      BY <3>1, <3>2, <3>3
  <2>5. PICK block \in Block : Emit(Turn, block, next)
    <3> DEFINE a == [kind |-> "repeat", samples |-> times * Resampled(Nibbles, 8000), after |-> after]
    <3>1. a \in Block
      <4> DEFINE made == times * Resampled(Nibbles, 8000)
      <4>1. made \in Nat
        BY <2>4
      <4> HIDE DEF made
      <4>2. [kind |-> "repeat", samples |-> made, after |-> after] \in Block
        BY <2>3, <4>1, BlockType
      <4> QED
        BY <4>2 DEF made
    <3>2. Emit(Turn, [kind |-> "repeat", after |-> after, samples |-> times * Resampled(Nibbles, 8000)], next)
      BY <1>2 DEF RepeatBlock
    <3>3. a = [kind |-> "repeat", after |-> after, samples |-> times * Resampled(Nibbles, 8000)]
      OBVIOUS
    <3> HIDE DEF a
    <3> QED
      BY <3>1, <3>2, <3>3
  <2> HIDE DEF next
  <2> QED
    BY <1>1, <2>2, <2>5, EmitInv
<1>3. CASE voice.mode # "reference"
  <2>1. PICK at \in Nat : at = Turn.at + 1 /\ at >= 2
    BY TurnFields
  <2>2. PICK repeats \in 0..8 : repeats = (Op % 8) + 1
    BY <1>1
  <2>3. Turn = Going(Turn.at, voice.adpcm, Turn.repeats, voice.loop, voice.blocks, voice.state)
    BY TurnFields
  <2>4. voice' = [Turn EXCEPT !.repeats = repeats, !.loop = at, !.at = at]
    BY <1>3, <2>1, <2>2 DEF RepeatBlock
  <2>5. VoiceTypeOK
    BY DEF VoiceInv
  <2>6. voice' = Going(at, voice.adpcm, repeats, at, voice.blocks, voice.state)
    BY <2>3, <2>4, <2>5 DEF VoiceTypeOK, Going
  <2>7. PICK state \in {"running", "played", "failed"} : state = voice.state
    BY <2>5, VoiceFields
  <2>8. PICK adpcm \in Adpcm : adpcm = voice.adpcm
    BY <2>5, VoiceFields
  <2>9. PICK blocks \in Seq(Block) : blocks = voice.blocks
    BY <2>5, VoiceFields
  <2>10. PICK v : Goes(v, at, adpcm, repeats, at, blocks, state)
    BY DEF Goes
  <2>11. Gone(v, at, adpcm, repeats, at, blocks, state)
    BY <2>1, <2>5, <2>10, GoingType
  <2>12. voice' = v
    BY <2>6, <2>7, <2>8, <2>9, <2>10 DEF Goes
  <2> QED
    BY <1>3, <2>1, <2>11, <2>12 DEF VoiceInv, VoiceTypeOK, VoiceRecords, Gone
<1> QED
  BY <1>2, <1>3

LEMMA EndMarkerInv == ASSUME VoiceInv, EndMarker PROVE VoiceInv'
<1>1. voice.state = "running" /\ Readable(Turn.at) /\ Op = 0
  BY DEF EndMarker, InClass
<1>2. PICK at \in Nat : at = Turn.at + 1 /\ at >= 2 /\ at - 1 = Turn.at
  BY TurnFields
<1>3. PICK repeats \in 0..8 : repeats = Turn.repeats
  BY TurnFields
<1>4. Turn = Going(Turn.at, voice.adpcm, Turn.repeats, voice.loop, voice.blocks, voice.state)
  BY TurnFields
<1>5. VoiceTypeOK
  BY DEF VoiceInv
<1>6. voice' = Going(at, voice.adpcm, repeats, voice.loop, voice.blocks, "played")
  <2>1. voice' = [Turn EXCEPT !.at = at, !.state = "played"]
    BY <1>2 DEF EndMarker
  <2> QED
    BY <1>3, <1>4, <1>5, <2>1 DEF VoiceTypeOK, Going
<1>7. PICK state \in {"running", "played", "failed"} : state = "played"
  OBVIOUS
<1>8. PICK adpcm \in Adpcm : adpcm = voice.adpcm
  BY <1>5, VoiceFields
<1>9. PICK blocks \in Seq(Block) : blocks = voice.blocks
  BY <1>5, VoiceFields
<1>10. PICK loop \in Nat : loop = voice.loop
  BY <1>5, VoiceFields
<1>11. PICK v : Goes(v, at, adpcm, repeats, loop, blocks, state)
  BY DEF Goes
<1>12. Gone(v, at, adpcm, repeats, loop, blocks, state)
  BY <1>2, <1>5, <1>11, GoingType
<1>13. voice' = v
  BY <1>6, <1>7, <1>8, <1>9, <1>10, <1>11 DEF Goes
<1>14. VoiceTypeOK'
  BY <1>12, <1>13 DEF VoiceTypeOK, VoiceRecords, Gone
<1>15. /\ voice'.mode = voice.mode /\ voice'.bytes = voice.bytes /\ voice'.at = at
       /\ voice'.repeats = Turn.repeats /\ voice'.loop = voice.loop /\ voice'.blocks = voice.blocks
       /\ voice'.state = "played"
  BY <1>3, <1>7, <1>9, <1>10, <1>12, <1>13 DEF Gone
<1>16. voice.mode = "reference" => /\ Turn.repeats = 0
                                   /\ AtCommand(voice.bytes, at - 1, Len(voice.blocks))
                                   /\ voice.bytes[at - 1] = 0
  <2>1. voice.mode = "reference" => Turn = voice
    BY TurnFields
  <2> QED
    BY <1>1, <1>2, <2>1 DEF VoiceInv, Op
<1>17. Turn.repeats > 0 => voice.loop >= 2
  BY TurnFields
<1> QED
  BY <1>2, <1>14, <1>15, <1>16, <1>17 DEF VoiceInv

LEMMA RunsOutInv == ASSUME VoiceInv, RunsOut PROVE VoiceInv'
<1>1. voice' = [voice EXCEPT !.state = "failed"]
  BY DEF RunsOut
<1>2. VoiceTypeOK
  BY DEF VoiceInv
<1>3. VoiceTypeOK'
  BY <1>1, <1>2 DEF VoiceTypeOK
<1>4. /\ voice'.mode = voice.mode /\ voice'.at = voice.at /\ voice'.repeats = voice.repeats
      /\ voice'.loop = voice.loop /\ voice'.state = "failed"
  BY <1>1, <1>2 DEF VoiceTypeOK
<1> QED
  BY <1>3, <1>4 DEF VoiceInv

LEMMA VoiceStepInv == VoiceInv /\ [VoiceNext]_voiceVars => VoiceInv'
<1> SUFFICES ASSUME VoiceInv, [VoiceNext]_voiceVars PROVE VoiceInv'
  OBVIOUS
<1>1. CASE UNCHANGED voice
  BY <1>1 DEF VoiceInv, VoiceTypeOK
<1> QED
  BY <1>1, EndMarkerInv, SilenceInv, FixedBlockInv, VariableBlockInv, RepeatBlockInv, RunsOutInv
     DEF VoiceNext, voiceVars, DecodeDone

LEMMA VoiceInvImplies == VoiceInv => VoiceTypeOK /\ PhrasesReadInLine
<1> SUFFICES ASSUME VoiceInv PROVE VoiceTypeOK /\ PhrasesReadInLine
  OBVIOUS
<1>1. VoiceTypeOK /\ voice.bytes \in Seq(0..255) /\ voice.at \in Nat /\ Len(voice.blocks) \in Nat
  BY VoiceFields DEF VoiceInv
<1>2. ASSUME voice.mode = "reference", voice.state = "running" PROVE voice.at \in CommandStarts(voice.bytes)
  <2>1. AtCommand(voice.bytes, voice.at, Len(voice.blocks))
    BY <1>2 DEF VoiceInv
  <2>2. Len(voice.blocks) \in 0..Len(voice.bytes)
    BY <1>1, <2>1 DEF AtCommand, Ladder
  <2> QED
    BY <2>1, <2>2 DEF AtCommand, CommandStarts
<1>3. ASSUME voice.mode = "reference", voice.state = "played"
      PROVE  Len(voice.blocks) = Cardinality({c \in CommandStarts(voice.bytes) : c < voice.at - 1})
  <2>1. AtCommand(voice.bytes, voice.at - 1, Len(voice.blocks)) /\ voice.bytes[voice.at - 1] = 0
    BY <1>3 DEF VoiceInv
  <2>2. PICK n \in Nat : n = Len(voice.blocks)
    BY <1>1
  <2>3. voice.at - 1 = CommandStart(voice.bytes, n) /\ Ladder(voice.bytes, n)
    BY <2>1, <2>2 DEF AtCommand
  <2>4. Cardinality({c \in CommandStarts(voice.bytes) : c < CommandStart(voice.bytes, n)}) = n
    BY <1>1, <2>1, <2>3, LadderTop
  <2> QED
    BY <2>2, <2>3, <2>4
<1> QED
  BY <1>1, <1>2, <1>3, OneBank DEF PhrasesReadInLine

\* In the mode in use every command of a phrase is read where the one before it ends, a phrase
\* that plays has one block for each of them, and a phrase number means one message.
THEOREM PhraseCorrect == VoiceSpec => [](VoiceTypeOK /\ PhrasesReadInLine)
<1>1. VoiceInv => VoiceTypeOK /\ PhrasesReadInLine
  BY VoiceInvImplies
<1> QED
  BY VoiceInitInv, VoiceStepInv, <1>1, PTL DEF VoiceSpec

-------------------------------------------------------------------------------
(* Display.  Every edit rebuilds the dots of the cells it touched, and a sequence that is *)
(* open has as many parameters as are not yet awaited.                                    *)

CellCodes == [Cell -> Code]
Marks == SUBSET Cell
BottomMarks == SUBSET {c \in Cell : c[1] = Rows - 1}
GlyphsOfCodes == [Code -> Glyph]
CellDots == [Cell -> Dots]
VfdModes == {"normal", "esc", "param"}
Arguments == Seq(DataOctets)
Scrolls == {"none", "vertical", "horizontal"}
PanelModes == SUBSET {"cursor", "blink", "katakana", "flickerless", "extended"}
Logged == 0..MaxLogged

VfdRecord ==
    [cells : CellCodes, comma : Marks, arrow : BottomMarks, glyphs : GlyphsOfCodes, dots : CellDots,
     at : Cell, mode : VfdModes, pending : Nat, left : Nat, args : Arguments, increment : BOOLEAN,
     scroll : Scrolls, panel : PanelModes, blinkAt : Nat, level : Nat, decoded : BOOLEAN,
     printed : BOOLEAN, m6 : BOOLEAN, busy : BOOLEAN, logged : Logged]

DotsShown(v) == \A c \in Cell : v.dots[c] = Rebuilt(v, c)
VfdOK(v) == v \in VfdRecord /\ DotsShown(v)

\* Parameters are awaited in their mode alone, and a glyph gets its code and its columns.
Parameters(v) ==
    /\ v.mode = "param" <=> v.left > 0
    /\ v.mode = "param" /\ v.pending = 28 => Len(v.args) + v.left = GlyphColumns + 1

\* w differs from v in neither the sequence that is open nor the log.
SameSequence(v, w) == /\ w.mode = v.mode /\ w.pending = v.pending /\ w.left = v.left /\ w.args = v.args
                      /\ w.logged = v.logged
Redrawn(v, w) == VfdOK(w) /\ SameSequence(v, w)

SameDots(v, w) == /\ w.cells = v.cells /\ w.comma = v.comma /\ w.arrow = v.arrow
                  /\ w.glyphs = v.glyphs /\ w.dots = v.dots

VfdInv == VfdOK(vfd) /\ Parameters(vfd)

LEMMA SameDotsShown == ASSUME NEW v, NEW w, DotsShown(v), SameDots(v, w) PROVE DotsShown(w)
  BY DEF DotsShown, SameDots, Rebuilt

LEMMA CellParts == ASSUME NEW c \in Cell
                   PROVE  c = <<c[1], c[2]>> /\ c[1] \in 0..(Rows - 1) /\ c[2] \in 0..(Columns - 1)
  BY DEF Cell

LEMMA CellPair == ASSUME NEW r \in 0..(Rows - 1), NEW k \in 0..(Columns - 1)
                  PROVE  <<r, k>> \in Cell /\ <<r, k>>[1] = r /\ <<r, k>>[2] = k
  BY DEF Cell

LEMMA RebuiltDots ==
    ASSUME NEW v \in VfdRecord, NEW c \in Cell
    PROVE  Rebuilt(v, c) \in Dots
<1>1. v.cells \in [Cell -> Code] /\ v.glyphs \in [Code -> Glyph]
  BY DEF VfdRecord, CellCodes, GlyphsOfCodes
<1>2. v.cells[c] \in Code /\ v.glyphs[v.cells[c]] \in Glyph
  BY <1>1
<1> QED
  BY <1>2 DEF Rebuilt, Dots

\* Dots rebuilt where they were not shown already are shown.
LEMMA RebuildShows ==
    ASSUME NEW v \in VfdRecord, NEW cells, \A c \in Cell : c \in cells \/ v.dots[c] = Rebuilt(v, c)
    PROVE  Redrawn(v, Rebuild(v, cells)) /\ Rebuild(v, cells).at = v.at
<1> DEFINE dots == [c \in Cell |-> IF c \in cells THEN Rebuilt(v, c) ELSE v.dots[c]]
           w == [v EXCEPT !.dots = dots]
<1>1. Rebuild(v, cells) = w
  BY DEF Rebuild
<1>2. dots \in CellDots /\ \A c \in Cell : dots[c] = Rebuilt(v, c)
  BY RebuiltDots DEF CellDots
<1> HIDE DEF dots
<1>3. w \in VfdRecord
  BY <1>2, ZenonT(30) DEF VfdRecord
<1>4. /\ w.dots = dots /\ w.cells = v.cells /\ w.comma = v.comma /\ w.arrow = v.arrow
      /\ w.glyphs = v.glyphs
  BY ZenonT(30) DEF VfdRecord
<1>5. SameSequence(v, w) /\ w.at = v.at
  BY ZenonT(30) DEF VfdRecord, SameSequence
<1>6. \A c : Rebuilt(w, c) = Rebuilt(v, c)
  BY <1>4 DEF Rebuilt
<1> HIDE DEF w
<1> QED
  BY <1>1, <1>2, <1>3, <1>4, <1>5, <1>6 DEF Redrawn, VfdOK, DotsShown

LEMMA FinalizedShows ==
    ASSUME NEW v, VfdOK(v)
    PROVE  Redrawn(v, Finalized(v)) /\ Finalized(v).at = v.at
<1> DEFINE m == v.m6 \/ ((v.decoded \/ v.printed) /\ \E c \in Cell : v.cells[c] # 32)
           w == [v EXCEPT !.m6 = m]
<1>1. Finalized(v) = w
  BY DEF Finalized
<1>2. v \in VfdRecord /\ DotsShown(v)
  BY DEF VfdOK
<1>3. m \in BOOLEAN
  BY <1>2 DEF VfdRecord
<1> HIDE DEF m
<1>4. w \in VfdRecord
  BY <1>2, <1>3, ZenonT(30) DEF VfdRecord
<1>5. SameDots(v, w) /\ SameSequence(v, w) /\ w.at = v.at
  BY <1>2, ZenonT(30) DEF VfdRecord, SameDots, SameSequence
<1> HIDE DEF w
<1> QED
  BY <1>1, <1>2, <1>4, <1>5, SameDotsShown DEF Redrawn, VfdOK

LEMMA DecodeShows ==
    ASSUME NEW v, VfdOK(v)
    PROVE  Redrawn(v, Decode(v)) /\ Decode(v).at = v.at
<1> DEFINE w == [v EXCEPT !.decoded = TRUE]
<1>1. Decode(v) = Finalized(w)
  BY DEF Decode
<1>2. v \in VfdRecord /\ DotsShown(v)
  BY DEF VfdOK
<1>4. w \in VfdRecord
  BY <1>2, ZenonT(30) DEF VfdRecord
<1>5. SameDots(v, w) /\ SameSequence(v, w) /\ w.at = v.at
  BY <1>2, ZenonT(30) DEF VfdRecord, SameDots, SameSequence
<1> HIDE DEF w
<1>6. Redrawn(w, Finalized(w)) /\ Finalized(w).at = w.at
  BY <1>2, <1>4, <1>5, SameDotsShown, FinalizedShows DEF VfdOK
<1> QED
  BY <1>1, <1>5, <1>6 DEF Redrawn, SameSequence

\* A command that touches neither the dots nor the sequence.
LEMMA DecodeAfter ==
    ASSUME NEW v, VfdOK(v), NEW w \in VfdRecord, SameDots(v, w), SameSequence(v, w)
    PROVE  Redrawn(v, Decode(w))
<1>1. VfdOK(w)
  BY SameDotsShown DEF VfdOK
<1>2. Redrawn(w, Decode(w))
  BY <1>1, DecodeShows
<1> QED
  BY <1>2 DEF Redrawn, SameSequence

LEMMA ClearShows == ASSUME NEW v, VfdOK(v) PROVE Redrawn(v, ClearDisplay(v))
<1> DEFINE cells == [c \in Cell |-> 32]
           glyphs == [b \in Code |-> Font]
           dots == [c \in Cell |-> Dark]
           home == <<0, 0>>
           w == [v EXCEPT !.cells = cells, !.comma = {}, !.arrow = {}, !.glyphs = glyphs,
                          !.dots = dots, !.at = home]
<1>1. ClearDisplay(v) = Decode(w)
  BY DEF ClearDisplay
<1>2. v \in VfdRecord
  BY DEF VfdOK
<1>3. /\ cells \in CellCodes /\ glyphs \in GlyphsOfCodes /\ dots \in CellDots /\ home \in Cell
      /\ {} \in Marks /\ {} \in BottomMarks
  BY VfdAssumption
     DEF CellCodes, GlyphsOfCodes, CellDots, Cell, Marks, BottomMarks, Code, Glyph, Dots, Dark
<1>4. \A c \in Cell : cells[c] = 32 /\ dots[c] = Dark /\ glyphs[32] = Font
  BY DEF Code
<1> HIDE DEF cells, glyphs, dots, home
<1>5. w \in VfdRecord
  BY <1>2, <1>3, ZenonT(30) DEF VfdRecord
<1>6. w.cells = cells /\ w.comma = {} /\ w.arrow = {} /\ w.glyphs = glyphs /\ w.dots = dots
  BY <1>2, ZenonT(30) DEF VfdRecord
<1>7. SameSequence(v, w)
  BY <1>2, ZenonT(30) DEF VfdRecord, SameSequence
<1> HIDE DEF w
<1>8. DotsShown(w)
  <2> SUFFICES ASSUME NEW c \in Cell PROVE w.dots[c] = Rebuilt(w, c)
    BY DEF DotsShown
  <2>1. w.cells[c] = 32 /\ w.glyphs[32] = Font /\ w.dots[c] = Dark
    BY <1>4, <1>6
  <2>2. (c \in w.comma) = FALSE /\ (c \in w.arrow /\ c[1] = Rows - 1) = FALSE
    BY <1>6
  <2> QED
    BY <2>1, <2>2 DEF Rebuilt, Dark
<1>9. Redrawn(w, Decode(w))
  BY <1>5, <1>8, DecodeShows DEF VfdOK
<1> QED
  BY <1>1, <1>7, <1>9 DEF Redrawn, SameSequence

LEMMA ResetShows ==
    ASSUME NEW v, VfdOK(v)
    PROVE  /\ VfdOK(SoftwareReset(v)) /\ SoftwareReset(v).logged = v.logged
           /\ SoftwareReset(v).mode = v.mode /\ SoftwareReset(v).left = 0
<1> DEFINE u == ClearDisplay(v)
           w == [u EXCEPT !.increment = TRUE, !.scroll = "none", !.panel = {}, !.blinkAt = 0,
                          !.pending = 0, !.left = 0, !.args = <<>>]
<1>1. SoftwareReset(v) = w
  BY DEF SoftwareReset
<1>2. VfdOK(u) /\ u.mode = v.mode /\ u.logged = v.logged
  BY ClearShows DEF Redrawn, SameSequence
<1>3. "none" \in Scrolls /\ {} \in PanelModes /\ <<>> \in Arguments /\ 0 \in Nat /\ u \in VfdRecord
  BY <1>2 DEF VfdOK, Scrolls, PanelModes, Arguments
<1> HIDE DEF u
<1>4. w \in VfdRecord
  BY <1>3, ZenonT(30) DEF VfdRecord
<1>5. SameDots(u, w) /\ w.mode = u.mode /\ w.logged = u.logged /\ w.left = 0
  BY <1>3, ZenonT(30) DEF VfdRecord, SameDots
<1> HIDE DEF w
<1> QED
  BY <1>1, <1>2, <1>4, <1>5, SameDotsShown DEF VfdOK

LEMMA ScrolledShows == ASSUME NEW v, VfdOK(v) PROVE Redrawn(v, ScrolledUp(v)) /\ ScrolledUp(v).at = v.at
<1> DEFINE cells == [c \in Cell |-> IF c[1] = Rows - 1 THEN 32 ELSE v.cells[<<c[1] + 1, c[2]>>]]
           w == [v EXCEPT !.cells = cells]
<1>1. ScrolledUp(v) = Rebuild(w, Cell)
  BY DEF ScrolledUp
<1>2. v \in VfdRecord /\ v.cells \in [Cell -> Code]
  BY DEF VfdOK, VfdRecord, CellCodes
<1>3. cells \in CellCodes
  <2> SUFFICES ASSUME NEW c \in Cell, c[1] # Rows - 1 PROVE v.cells[<<c[1] + 1, c[2]>>] \in Code
    BY DEF CellCodes, Code
  <2>1. c[1] + 1 \in 0..(Rows - 1)
    BY CellParts, VfdAssumption
  <2>2. <<c[1] + 1, c[2]>> \in Cell
    BY <2>1, CellParts, CellPair
  <2> QED
    BY <1>2, <2>2
<1> HIDE DEF cells
<1>4. w \in VfdRecord /\ w.at = v.at
  BY <1>2, <1>3, ZenonT(30) DEF VfdRecord
<1>5. SameSequence(v, w)
  BY <1>2, ZenonT(30) DEF VfdRecord, SameSequence
<1> HIDE DEF w
<1>6. Redrawn(w, Rebuild(w, Cell)) /\ Rebuild(w, Cell).at = w.at
  BY <1>4, RebuildShows
<1> QED
  BY <1>1, <1>4, <1>5, <1>6 DEF Redrawn, SameSequence

\* The cursor moves from cell to cell.
LEMMA MovedShows ==
    ASSUME NEW v, VfdOK(v), NEW c \in Cell
    PROVE  Redrawn(v, [v EXCEPT !.at = c])
<1> DEFINE w == [v EXCEPT !.at = c]
<1>1. v \in VfdRecord
  BY DEF VfdOK
<1>2. w \in VfdRecord
  BY <1>1, ZenonT(30) DEF VfdRecord
<1>3. SameDots(v, w) /\ SameSequence(v, w)
  BY <1>1, ZenonT(30) DEF VfdRecord, SameDots, SameSequence
<1> HIDE DEF w
<1>4. Redrawn(v, w)
  BY <1>2, <1>3, SameDotsShown DEF Redrawn, VfdOK
<1> QED
  BY <1>4 DEF w

LEMMA MovedDecodeShows ==
    ASSUME NEW v, VfdOK(v), NEW c \in Cell
    PROVE  Redrawn(v, Decode([v EXCEPT !.at = c]))
<1> DEFINE w == [v EXCEPT !.at = c]
<1>1. Redrawn(v, w)
  BY MovedShows
<1> HIDE DEF w
<1>2. Redrawn(w, Decode(w))
  BY <1>1, DecodeShows DEF Redrawn
<1>3. Redrawn(v, Decode(w))
  BY <1>1, <1>2 DEF Redrawn, SameSequence
<1> QED
  BY <1>3 DEF w

\* A coordinate of the cursor is changed.
LEMMA CursorParts ==
    ASSUME NEW v, VfdOK(v), NEW r \in 0..(Rows - 1), NEW k \in 0..(Columns - 1)
    PROVE  /\ [v EXCEPT !.at[1] = r] = [v EXCEPT !.at = <<r, v.at[2]>>] /\ <<r, v.at[2]>> \in Cell
           /\ [v EXCEPT !.at[2] = k] = [v EXCEPT !.at = <<v.at[1], k>>] /\ <<v.at[1], k>> \in Cell
           /\ v.at \in Cell /\ v.at[1] \in 0..(Rows - 1) /\ v.at[2] \in 0..(Columns - 1)
<1> DEFINE c == v.at
<1>1. c \in Cell
  BY DEF VfdOK, VfdRecord
<1> HIDE DEF c
<1>2. c = <<c[1], c[2]>> /\ c[1] \in 0..(Rows - 1) /\ c[2] \in 0..(Columns - 1)
  BY <1>1, CellParts
<1>3. [c EXCEPT ![1] = r] = <<r, c[2]>> /\ [c EXCEPT ![2] = k] = <<c[1], k>>
  <2> DEFINE x == c[1]
             y == c[2]
  <2>1. c = <<x, y>>
    BY <1>2
  <2> HIDE DEF x, y
  <2>2. [<<x, y>> EXCEPT ![1] = r] = <<r, y>> /\ [<<x, y>> EXCEPT ![2] = k] = <<x, k>>
    OBVIOUS
  <2>3. [c EXCEPT ![1] = r] = <<r, y>> /\ [c EXCEPT ![2] = k] = <<x, k>>
    BY <2>1, <2>2
  <2> QED
    BY <2>3 DEF x, y
<1>4. <<r, c[2]>> \in Cell /\ <<c[1], k>> \in Cell
  BY <1>2, CellPair
<1> QED
  BY <1>1, <1>2, <1>3, <1>4, Zenon DEF c

LEMMA AdvanceCell == ASSUME NEW v, VfdOK(v) PROVE Advance(v) \in Cell
<1> DEFINE r == v.at[1]
           k == v.at[2]
<1>1. r \in 0..(Rows - 1) /\ k \in 0..(Columns - 1)
  <2>1. v.at \in Cell
    BY DEF VfdOK, VfdRecord
  <2> QED
    BY <2>1, CellParts
<1> HIDE DEF r, k
<1>2. Rows \in Nat \ {0} /\ Columns \in Nat \ {0}
  BY VfdAssumption
<1>3. \E x \in 0..(Rows - 1), y \in 0..(Columns - 1) : Advance(v) = <<x, y>>
  <2>1. Advance(v) = IF v.increment
                     THEN IF k + 1 < Columns THEN <<r, k + 1>>
                          ELSE IF r + 1 < Rows THEN <<r + 1, 0>>
                          ELSE IF v.scroll = "vertical" THEN <<r, 0>> ELSE <<0, 0>>
                     ELSE IF k > 0 THEN <<r, k - 1>> ELSE <<IF r > 0 THEN r - 1 ELSE r, Columns - 1>>
    BY DEF Advance, r, k
  <2>2. 0 \in 0..(Rows - 1) /\ 0 \in 0..(Columns - 1) /\ Columns - 1 \in 0..(Columns - 1)
    BY <1>2
  <2>3. k + 1 < Columns => k + 1 \in 0..(Columns - 1)
    BY <1>1, <1>2
  <2>4. r + 1 < Rows => r + 1 \in 0..(Rows - 1)
    BY <1>1, <1>2
  <2>5. k > 0 => k - 1 \in 0..(Columns - 1)
    BY <1>1, <1>2
  <2>6. (IF r > 0 THEN r - 1 ELSE r) \in 0..(Rows - 1)
    BY <1>1, <1>2
  <2> DEFINE back == IF r > 0 THEN r - 1 ELSE r
  <2>7. back \in 0..(Rows - 1)
    BY <2>6
  <2>8. \/ Advance(v) = <<r, k + 1>> /\ k + 1 < Columns
        \/ Advance(v) = <<r + 1, 0>> /\ r + 1 < Rows
        \/ Advance(v) = <<r, 0>>
        \/ Advance(v) = <<0, 0>>
        \/ Advance(v) = <<r, k - 1>> /\ k > 0
        \/ Advance(v) = <<back, Columns - 1>>
    BY <2>1, Zenon
  <2> HIDE DEF back
  <2> QED
    BY <1>1, <2>2, <2>3, <2>4, <2>5, <2>7, <2>8
<1> QED
  BY <1>3, CellPair

LEMMA LineFeedShows == ASSUME NEW v, VfdOK(v) PROVE Redrawn(v, LineFeed(v))
<1>1. CASE v.at[1] + 1 < Rows
  <2>1. v.at[1] \in 0..(Rows - 1) /\ v.at[2] \in 0..(Columns - 1)
    <3>1. v.at \in Cell
      BY DEF VfdOK, VfdRecord
    <3> QED
      BY <3>1, CellParts
  <2>2. PICK r \in 0..(Rows - 1) : r = v.at[1] + 1
    BY <1>1, <2>1, VfdAssumption
  <2>3. [v EXCEPT !.at[1] = r] = [v EXCEPT !.at = <<r, v.at[2]>>] /\ <<r, v.at[2]>> \in Cell
    BY <2>1, CursorParts
  <2>4. Redrawn(v, Decode([v EXCEPT !.at = <<r, v.at[2]>>]))
    BY <2>3, MovedDecodeShows
  <2>5. LineFeed(v) = Decode([v EXCEPT !.at[1] = r])
    BY <1>1, <2>2, Zenon DEF LineFeed
  <2> QED
    BY <2>3, <2>4, <2>5, Zenon
<1>2. CASE ~(v.at[1] + 1 < Rows)
  <2> DEFINE w == ScrolledUp(v)
  <2>1. LineFeed(v) = Decode(w)
    BY <1>2, Zenon DEF LineFeed
  <2>2. Redrawn(v, w)
    BY ScrolledShows
  <2> HIDE DEF w
  <2>3. Redrawn(w, Decode(w))
    BY <2>2, DecodeShows DEF Redrawn
  <2> QED
    BY <2>1, <2>2, <2>3 DEF Redrawn, SameSequence
<1> QED
  BY <1>1, <1>2

\* A position is a cell whatever octet asks for it; positions past the last cell are the last cell.
LEMMA CursorAtCell == ASSUME NEW n \in Nat PROVE CursorAt(n) \in Cell
<1> DEFINE R == Rows
           C == Columns
           t == R * C
           p == IF n >= t THEN t - 1 ELSE n
           q == p \div C
           m == p % C
<1>1. R \in Nat \ {0} /\ C \in Nat \ {0}
  BY VfdAssumption
<1> HIDE DEF R, C
<1>2. t = C * R /\ t \in Nat /\ t >= 1
  <2>1. C * R >= C
    BY <1>1, TimesSign
  <2>2. t = C * R /\ t \in Nat
    BY <1>1, SMTT(30)
  <2> HIDE DEF t
  <2> QED
    BY <1>1, <2>1, <2>2
<1> HIDE DEF t
<1>3. p \in Nat /\ p <= t - 1
  BY <1>2
<1> HIDE DEF p
<1>4. p = (C * q) + m /\ m \in 0..(C - 1) /\ q \in Nat
  BY <1>1, <1>3, DivMod
<1> HIDE DEF q, m
<1>5. q <= R - 1
  <2> SUFFICES ASSUME q >= R PROVE FALSE
    BY <1>1, <1>4
  <2>1. C * (q - R) = (C * q) - (C * R)
    BY <1>1, <1>4, TimesSum
  <2>2. C * q \in Int /\ C * (q - R) \in Int /\ q - R \in Int /\ C * R \in Int
    BY <1>1, <1>4
  <2>3. C * (q - R) >= 0
    <3>1. CASE q = R
      BY <1>1, <1>4, <2>1, <2>2, <3>1
    <3>2. CASE q # R
      <4>1. q - R >= 1
        BY <1>1, <1>4, <3>2
      <4> QED
        BY <1>1, <2>2, <4>1, TimesSign
    <3> QED
      BY <3>1, <3>2
  <2>4. C * q >= t
    BY <1>2, <2>1, <2>2, <2>3
  <2> QED
    BY <1>2, <1>3, <1>4, <2>2, <2>4
<1>6. <<q, m>> \in Cell
  <2>1. q \in 0..(R - 1)
    BY <1>1, <1>4, <1>5
  <2> QED
    BY <1>4, <2>1, CellPair DEF R, C
<1>7. CursorAt(n) = <<q, m>>
  BY DEF CursorAt, R, C, t, p, q, m
<1> QED
  BY <1>6, <1>7

LEMMA GlyphShows == ASSUME NEW v, VfdOK(v), NEW b \in Code PROVE Redrawn(v, WriteGlyph(v, b))
<1> DEFINE r == v.at[1]
           last == v.at[2] = Columns - 1
           row == {c \in Cell : c[1] = r}
           up == [c \in Cell |-> IF c[1] # r THEN v.cells[c]
                                 ELSE IF c[2] = Columns - 1 THEN b ELSE v.cells[<<r, c[2] + 1>>]]
           one == [v.cells EXCEPT ![v.at] = b]
           shifted == [v EXCEPT !.cells = up, !.printed = TRUE]
           typed == [v EXCEPT !.cells = one, !.printed = TRUE]
           put == Rebuild(typed, {v.at})
           scrolls == v.increment /\ last /\ r = Rows - 1 /\ v.scroll = "vertical"
           base == IF scrolls THEN ScrolledUp(put) ELSE put
           moved == [base EXCEPT !.at = Advance(v)]
<1>0. v \in VfdRecord /\ v.at \in Cell /\ v.cells \in [Cell -> Code] /\ v.cells \in CellCodes /\ DotsShown(v)
  BY DEF VfdOK, VfdRecord, CellCodes
<1>1. ASSUME NEW cells \in CellCodes, NEW w, w = [v EXCEPT !.cells = cells, !.printed = TRUE]
      PROVE  w \in VfdRecord /\ SameSequence(v, w) /\ w.at = v.at /\ w.cells = cells
             /\ w.comma = v.comma /\ w.arrow = v.arrow /\ w.glyphs = v.glyphs /\ w.dots = v.dots
  <2>1. w \in VfdRecord
    BY <1>0, <1>1, ZenonT(30) DEF VfdRecord
  <2>2. SameSequence(v, w)
    BY <1>0, <1>1, ZenonT(30) DEF VfdRecord, SameSequence
  <2>3. w.at = v.at /\ w.cells = cells /\ w.comma = v.comma /\ w.arrow = v.arrow /\ w.glyphs = v.glyphs
        /\ w.dots = v.dots
    BY <1>0, <1>1, ZenonT(30) DEF VfdRecord
  <2> QED
    BY <2>1, <2>2, <2>3
<1>2. CASE v.scroll = "horizontal" /\ last
  <2>1. WriteGlyph(v, b) = Finalized(Rebuild(shifted, row))
    BY <1>2, Zenon DEF WriteGlyph
  <2>2. up \in CellCodes
    <3> SUFFICES ASSUME NEW c \in Cell, c[1] = r, c[2] # Columns - 1 PROVE v.cells[<<r, c[2] + 1>>] \in Code
      BY <1>0 DEF CellCodes
    <3>1. c[2] + 1 \in 0..(Columns - 1) /\ r \in 0..(Rows - 1)
      BY <1>0, CellParts, VfdAssumption
    <3>2. <<r, c[2] + 1>> \in Cell
      BY <3>1, CellPair
    <3> QED
      BY <1>0, <3>2
  <2>3. \A c \in Cell : c \in row \/ up[c] = v.cells[c]
    OBVIOUS
  <2> HIDE DEF up, row
  <2>4. /\ shifted \in VfdRecord /\ SameSequence(v, shifted) /\ shifted.cells = up
        /\ shifted.comma = v.comma /\ shifted.arrow = v.arrow /\ shifted.glyphs = v.glyphs
        /\ shifted.dots = v.dots
    BY <1>1, <2>2
  <2> HIDE DEF shifted
  <2>5. \A c \in Cell : c \in row \/ shifted.dots[c] = Rebuilt(shifted, c)
    BY <1>0, <2>3, <2>4 DEF DotsShown, Rebuilt
  <2> DEFINE w == Rebuild(shifted, row)
  <2>6. Redrawn(shifted, w)
    BY <2>4, <2>5, RebuildShows
  <2> HIDE DEF w
  <2>7. Redrawn(w, Finalized(w))
    BY <2>6, FinalizedShows DEF Redrawn
  <2>8. WriteGlyph(v, b) = Finalized(w)
    BY <2>1 DEF w
  <2> QED
    BY <2>4, <2>6, <2>7, <2>8 DEF Redrawn, SameSequence
<1>3. CASE ~(v.scroll = "horizontal" /\ last)
  <2>1. WriteGlyph(v, b) = Finalized(moved)
    <3>1. typed = [v EXCEPT !.cells[v.at] = b, !.printed = TRUE]
      BY <1>0, Zenon DEF VfdRecord
    <3>2. WriteGlyph(v, b) = Finalized([IF scrolls THEN ScrolledUp(Rebuild([v EXCEPT !.cells[v.at] = b, !.printed = TRUE], {v.at}))
                                        ELSE Rebuild([v EXCEPT !.cells[v.at] = b, !.printed = TRUE], {v.at})
                                        EXCEPT !.at = Advance(v)])
      BY <1>3, Zenon DEF WriteGlyph
    <3> QED
      BY <3>1, <3>2, Zenon
  <2>2. one \in CellCodes /\ \A c \in Cell : c \in {v.at} \/ one[c] = v.cells[c]
    BY <1>0 DEF CellCodes
  <2> HIDE DEF one
  <2>4. /\ typed \in VfdRecord /\ SameSequence(v, typed) /\ typed.cells = one
        /\ typed.comma = v.comma /\ typed.arrow = v.arrow /\ typed.glyphs = v.glyphs
        /\ typed.dots = v.dots
    BY <1>1, <2>2
  <2> HIDE DEF typed
  <2>5. \A c \in Cell : c \in {v.at} \/ typed.dots[c] = Rebuilt(typed, c)
    BY <1>0, <2>2, <2>4 DEF DotsShown, Rebuilt
  <2>6. Redrawn(typed, put)
    BY <2>4, <2>5, RebuildShows
  <2> HIDE DEF put
  <2>7. Redrawn(put, base)
    <3>1. Redrawn(put, ScrolledUp(put)) /\ Redrawn(put, put)
      BY <2>6, ScrolledShows DEF Redrawn, SameSequence
    <3> QED
      BY <3>1
  <2> HIDE DEF base
  <2>8. Redrawn(base, moved)
    <3>1. Advance(v) \in Cell
      BY AdvanceCell
    <3> QED
      BY <2>7, <3>1, MovedShows DEF Redrawn
  <2> HIDE DEF moved
  <2>9. Redrawn(moved, Finalized(moved))
    BY <2>8, FinalizedShows DEF Redrawn
  <2> QED
    BY <2>1, <2>4, <2>6, <2>7, <2>8, <2>9 DEF Redrawn, SameSequence
<1> QED
  BY <1>2, <1>3

LEMMA AnnotateShows == ASSUME NEW v, VfdOK(v), NEW b PROVE Redrawn(v, Annotate(v, b))
<1> DEFINE comma == IF b = 24 THEN v.comma \cup {v.at} ELSE v.comma
           arrow == IF b = 25 /\ v.at[1] = Rows - 1 THEN v.arrow \cup {v.at} ELSE v.arrow
           w == [v EXCEPT !.comma = comma, !.arrow = arrow]
           u == Rebuild(w, {v.at})
<1>0. v \in VfdRecord /\ v.at \in Cell /\ v.comma \subseteq Cell /\ DotsShown(v)
      /\ v.arrow \subseteq {c \in Cell : c[1] = Rows - 1}
  BY DEF VfdOK, VfdRecord, Marks, BottomMarks
<1>1. Annotate(v, b) = Decode(u)
  BY Zenon DEF Annotate
<1>2. comma \in Marks /\ arrow \in BottomMarks
  BY <1>0 DEF Marks, BottomMarks
<1>3. \A c \in Cell : c \in {v.at} \/ ((c \in comma <=> c \in v.comma) /\ (c \in arrow <=> c \in v.arrow))
  OBVIOUS
<1> HIDE DEF comma, arrow
<1>4. w \in VfdRecord
  BY <1>0, <1>2, ZenonT(30) DEF VfdRecord
<1>5. SameSequence(v, w)
  BY <1>0, ZenonT(30) DEF VfdRecord, SameSequence
<1>6. w.cells = v.cells /\ w.comma = comma /\ w.arrow = arrow /\ w.glyphs = v.glyphs /\ w.dots = v.dots
  BY <1>0, ZenonT(30) DEF VfdRecord
<1> HIDE DEF w
<1>7. \A c \in Cell : c \in {v.at} \/ w.dots[c] = Rebuilt(w, c)
  <2> SUFFICES ASSUME NEW c \in Cell, c \notin {v.at} PROVE w.dots[c] = Rebuilt(w, c)
    OBVIOUS
  <2>1. (c \in w.comma) = (c \in v.comma) /\ (c \in w.arrow) = (c \in v.arrow)
    BY <1>3, <1>6
  <2> QED
    BY <1>0, <1>6, <2>1 DEF DotsShown, Rebuilt
<1>8. Redrawn(w, u)
  BY <1>4, <1>7, RebuildShows
<1> HIDE DEF u
<1>9. Redrawn(u, Decode(u))
  BY <1>8, DecodeShows DEF Redrawn
<1> QED
  BY <1>1, <1>5, <1>8, <1>9 DEF Redrawn, SameSequence

LEMMA AwaitOpens ==
    ASSUME NEW v, VfdOK(v), NEW command \in Nat, NEW n \in Nat, n > 0, command = 28 => n = GlyphColumns + 1
    PROVE  VfdOK(Await(v, command, n)) /\ Parameters(Await(v, command, n)) /\ Await(v, command, n).logged = v.logged
<1> DEFINE w == [v EXCEPT !.mode = "param", !.pending = command, !.left = n, !.args = <<>>]
<1>0. v \in VfdRecord /\ DotsShown(v) /\ "param" \in VfdModes /\ <<>> \in Arguments
  BY DEF VfdOK, VfdModes, Arguments
<1>1. w \in VfdRecord
  BY <1>0, ZenonT(30) DEF VfdRecord
<1>2. SameDots(v, w)
  BY <1>0, ZenonT(30) DEF VfdRecord, SameDots
<1>3. w.mode = "param" /\ w.pending = command /\ w.left = n /\ w.args = <<>> /\ w.logged = v.logged
  BY <1>0, ZenonT(30) DEF VfdRecord
<1>4. Await(v, command, n) = w
  BY DEF Await
<1> HIDE DEF w
<1>5. Parameters(w)
  BY <1>3 DEF Parameters
<1> QED
  BY <1>0, <1>1, <1>2, <1>3, <1>4, <1>5, SameDotsShown DEF VfdOK

\* A step of the sequence that leaves the display in order.
Follows(v, w) == VfdOK(w) /\ Parameters(w) /\ w.logged = v.logged

LEMMA RedrawnTakes ==
    ASSUME NEW v, Parameters(v), NEW w, Redrawn(v, w)
    PROVE  Follows(v, w)
  BY DEF Follows, Redrawn, SameSequence, Parameters

LEMMA SettingShows ==
    ASSUME NEW v, VfdOK(v), NEW i \in BOOLEAN, NEW s \in Scrolls, NEW p \in PanelModes, NEW k \in Nat
    PROVE  Redrawn(v, Decode([v EXCEPT !.increment = i, !.scroll = s, !.panel = p, !.blinkAt = k]))
<1> DEFINE w == [v EXCEPT !.increment = i, !.scroll = s, !.panel = p, !.blinkAt = k]
<1>1. v \in VfdRecord
  BY DEF VfdOK
<1>2. w \in VfdRecord
  BY <1>1, ZenonT(30) DEF VfdRecord
<1>3. SameDots(v, w) /\ SameSequence(v, w)
  BY <1>1, ZenonT(30) DEF VfdRecord, SameDots, SameSequence
<1> HIDE DEF w
<1>4. Redrawn(v, Decode(w))
  BY <1>2, <1>3, DecodeAfter
<1> QED
  BY <1>4 DEF w

\* A cursor within its row.
LEMMA ColumnShows ==
    ASSUME NEW v, VfdOK(v), NEW k \in 0..(Columns - 1)
    PROVE  Redrawn(v, Decode([v EXCEPT !.at[2] = k]))
<1>1. 0 \in 0..(Rows - 1)
  BY VfdAssumption
<1>2. [v EXCEPT !.at[2] = k] = [v EXCEPT !.at = <<v.at[1], k>>] /\ <<v.at[1], k>> \in Cell
  BY <1>1, CursorParts
<1>3. Redrawn(v, Decode([v EXCEPT !.at = <<v.at[1], k>>]))
  BY <1>2, MovedDecodeShows
<1> QED
  BY <1>2, <1>3, Zenon

LEMMA NormalTakes ==
    ASSUME NEW v, VfdOK(v), Parameters(v), v.mode = "normal", NEW b \in DataOctets
    PROVE  Follows(v, NormalOctet(v, b))
<1>0. /\ v \in VfdRecord /\ b \in 0..255 /\ v.left \in Nat /\ ~(v.left > 0)
      /\ v.increment \in BOOLEAN /\ v.scroll \in Scrolls /\ v.panel \in PanelModes /\ v.blinkAt \in Nat
      /\ v.at \in Cell
  BY VfdAssumption DEF VfdOK, VfdRecord, Parameters
<1>1. \A w : Redrawn(v, w) => Follows(v, w)
  BY RedrawnTakes
<1>2. CASE b = 27
  <2> DEFINE w == [v EXCEPT !.mode = "esc"]
  <2>1. NormalOctet(v, b) = w
    BY <1>2 DEF NormalOctet
  <2>2. "esc" \in VfdModes
    BY DEF VfdModes
  <2>3. w \in VfdRecord /\ w.mode = "esc" /\ w.left = v.left /\ w.logged = v.logged
    BY <1>0, <2>2, ZenonT(30) DEF VfdRecord
  <2>4. SameDots(v, w)
    BY <1>0, ZenonT(30) DEF VfdRecord, SameDots
  <2> HIDE DEF w
  <2>5. Parameters(w)
    BY <1>0, <2>3 DEF Parameters
  <2> QED
    BY <2>1, <2>3, <2>4, <2>5, SameDotsShown DEF Follows, VfdOK
<1>3. CASE b \in {12, 14}
  <2>1. NormalOctet(v, b) = ClearDisplay(v)
    BY <1>3 DEF NormalOctet
  <2> QED
    BY <1>1, <2>1, ClearShows
<1>4. CASE b \in {8, 9, 13}
  <2>1. \E k \in 0..(Columns - 1) : NormalOctet(v, b) = Decode([v EXCEPT !.at[2] = k])
    <3>1. v.at[2] \in 0..(Columns - 1) /\ Columns \in Nat \ {0}
      BY <1>0, CellParts, VfdAssumption
    <3>2. CASE b = 8
      <4> DEFINE k == IF v.at[2] > 0 THEN v.at[2] - 1 ELSE v.at[2]
      <4>1. NormalOctet(v, b) = Decode([v EXCEPT !.at[2] = k])
        BY <3>2 DEF NormalOctet
      <4>2. k \in 0..(Columns - 1)
        BY <3>1
      <4> HIDE DEF k
      <4> QED
        BY <4>1, <4>2
    <3>3. CASE b = 9
      <4> DEFINE k == IF 4 * (v.at[2] \div 4 + 1) >= Columns THEN Columns - 1 ELSE 4 * (v.at[2] \div 4 + 1)
      <4>1. NormalOctet(v, b) = Decode([v EXCEPT !.at[2] = k])
        BY <3>3 DEF NormalOctet
      <4>2. k \in 0..(Columns - 1)
        BY <3>1
      <4> HIDE DEF k
      <4> QED
        BY <4>1, <4>2
    <3>4. CASE b = 13
      <4>1. NormalOctet(v, b) = Decode([v EXCEPT !.at[2] = 0])
        BY <3>4 DEF NormalOctet
      <4> QED
        BY <3>1, <4>1
    <3> QED
      BY <1>4, <3>2, <3>3, <3>4
  <2> QED
    BY <1>1, <2>1, ColumnShows
<1>5. CASE b = 10
  <2>1. NormalOctet(v, b) = LineFeed(v)
    BY <1>5 DEF NormalOctet
  <2> QED
    BY <1>1, <2>1, LineFeedShows
<1>6. CASE b \in {16, 17, 18, 21, 19, 20, 23, 29, 30, 31}
  <2> DEFINE Setting(i, s, p, k) == [v EXCEPT !.increment = i, !.scroll = s, !.panel = p, !.blinkAt = k]
  <2>2. Redrawn(v, NormalOctet(v, b))
    <3>1. CASE b = 16
      <4>1. NormalOctet(v, b) = Decode([v EXCEPT !.increment = FALSE])
        BY <3>1 DEF NormalOctet
      <4>2. [v EXCEPT !.increment = FALSE] = Setting(FALSE, v.scroll, v.panel, v.blinkAt)
        BY <1>0 DEF VfdRecord
      <4>5. Redrawn(v, Decode(Setting(FALSE, v.scroll, v.panel, v.blinkAt)))
        BY <1>0, SettingShows
      <4> HIDE DEF Setting
      <4> QED
        BY <4>1, <4>2, <4>5, Zenon
    <3>2. CASE b = 17
      <4>1. NormalOctet(v, b) = Decode([v EXCEPT !.increment = TRUE, !.scroll = "none"])
        BY <3>2 DEF NormalOctet
      <4>2. [v EXCEPT !.increment = TRUE, !.scroll = "none"] = Setting(TRUE, "none", v.panel, v.blinkAt)
        BY <1>0 DEF VfdRecord
      <4>3. "none" \in Scrolls
        BY DEF Scrolls
      <4>5. Redrawn(v, Decode(Setting(TRUE, "none", v.panel, v.blinkAt)))
        BY <1>0, <4>3, SettingShows
      <4> HIDE DEF Setting
      <4> QED
        BY <4>1, <4>2, <4>5, Zenon
    <3>3. CASE b = 18
      <4>1. NormalOctet(v, b) = Decode([v EXCEPT !.scroll = "vertical"])
        BY <3>3 DEF NormalOctet
      <4>2. [v EXCEPT !.scroll = "vertical"] = Setting(v.increment, "vertical", v.panel, v.blinkAt)
        BY <1>0 DEF VfdRecord
      <4>3. "vertical" \in Scrolls
        BY DEF Scrolls
      <4>5. Redrawn(v, Decode(Setting(v.increment, "vertical", v.panel, v.blinkAt)))
        BY <1>0, <4>3, SettingShows
      <4> HIDE DEF Setting
      <4> QED
        BY <4>1, <4>2, <4>5, Zenon
    <3>4. CASE b = 21
      <4>1. NormalOctet(v, b) = Decode([v EXCEPT !.scroll = "horizontal", !.increment = TRUE])
        BY <3>4 DEF NormalOctet
      <4>2. [v EXCEPT !.scroll = "horizontal", !.increment = TRUE] = Setting(TRUE, "horizontal", v.panel, v.blinkAt)
        BY <1>0 DEF VfdRecord
      <4>3. "horizontal" \in Scrolls
        BY DEF Scrolls
      <4>5. Redrawn(v, Decode(Setting(TRUE, "horizontal", v.panel, v.blinkAt)))
        BY <1>0, <4>3, SettingShows
      <4> HIDE DEF Setting
      <4> QED
        BY <4>1, <4>2, <4>5, Zenon
    <3>5. ASSUME NEW p \in PanelModes, NormalOctet(v, b) = Decode([v EXCEPT !.panel = p])
          PROVE  Redrawn(v, NormalOctet(v, b))
      <4>1. [v EXCEPT !.panel = p] = Setting(v.increment, v.scroll, p, v.blinkAt)
        BY <1>0 DEF VfdRecord
      <4>2. Redrawn(v, Decode(Setting(v.increment, v.scroll, p, v.blinkAt)))
        BY <1>0, SettingShows
      <4> HIDE DEF Setting
      <4> QED
        BY <3>5, <4>1, <4>2, Zenon
    <3>6. \A m \in {"cursor", "blink", "katakana", "extended"} :
             v.panel \cup {m} \in PanelModes /\ v.panel \ {m} \in PanelModes
      BY <1>0 DEF PanelModes
    <3>7. CASE b = 19
      <4>1. NormalOctet(v, b) = Decode([v EXCEPT !.panel = v.panel \cup {"cursor"}])
        BY <3>7 DEF NormalOctet
      <4> HIDE DEF Setting
      <4> QED
        BY <3>5, <3>6, <4>1
    <3>8. CASE b = 20
      <4>1. NormalOctet(v, b) = Decode([v EXCEPT !.panel = v.panel \ {"cursor"}])
        BY <3>8 DEF NormalOctet
      <4> HIDE DEF Setting
      <4> QED
        BY <3>5, <3>6, <4>1
    <3>9. CASE b = 29
      <4>1. NormalOctet(v, b) = Decode([v EXCEPT !.panel = v.panel \ {"katakana"}])
        BY <3>9 DEF NormalOctet
      <4> HIDE DEF Setting
      <4> QED
        BY <3>5, <3>6, <4>1
    <3>10. CASE b = 30
      <4>1. NormalOctet(v, b) = Decode([v EXCEPT !.panel = v.panel \cup {"katakana"}])
        BY <3>10 DEF NormalOctet
      <4> HIDE DEF Setting
      <4> QED
        BY <3>5, <3>6, <4>1
    <3>11. CASE b = 31
      <4>1. NormalOctet(v, b) = Decode([v EXCEPT !.panel = v.panel \cup {"extended"}])
        BY <3>11 DEF NormalOctet
      <4> HIDE DEF Setting
      <4> QED
        BY <3>5, <3>6, <4>1
    <3>12. CASE b = 23
      <4> DEFINE p == v.panel \ {"blink"}
      <4>1. NormalOctet(v, b) = Decode([v EXCEPT !.panel = p, !.blinkAt = 0])
        BY <3>12 DEF NormalOctet
      <4>2. p \in PanelModes /\ 0 \in Nat
        BY <3>6
      <4> HIDE DEF p
      <4>3. [v EXCEPT !.panel = p, !.blinkAt = 0] = Setting(v.increment, v.scroll, p, 0)
        BY <1>0 DEF VfdRecord
      <4>4. Redrawn(v, Decode(Setting(v.increment, v.scroll, p, 0)))
        BY <1>0, <4>2, SettingShows
      <4> HIDE DEF Setting
      <4> QED
        BY <4>1, <4>3, <4>4, Zenon
    <3> HIDE DEF Setting
    <3> QED
      BY <1>6, <3>1, <3>2, <3>3, <3>4, <3>7, <3>8, <3>9, <3>10, <3>11, <3>12
  <2> QED
    BY <1>1, <2>2
<1>7. CASE b \in {24, 25}
  <2>1. NormalOctet(v, b) = Annotate(v, b)
    BY <1>7 DEF NormalOctet
  <2> QED
    BY <1>1, <2>1, AnnotateShows
<1>8. CASE b \in {22, 26}
  <2>1. NormalOctet(v, b) = Await(v, b, 1) /\ b \in Nat /\ b # 28
    BY <1>8 DEF NormalOctet
  <2> QED
    BY <2>1, AwaitOpens DEF Follows
<1>9. CASE b = 28
  <2>1. NormalOctet(v, b) = Await(v, b, GlyphColumns + 1)
    BY <1>9 DEF NormalOctet
  <2>2. GlyphColumns + 1 \in Nat /\ GlyphColumns + 1 > 0 /\ b \in Nat
    BY <1>9, VfdAssumption
  <2> QED
    BY <2>1, <2>2, AwaitOpens, ZenonT(60) DEF Follows
<1>10. CASE b >= 32
  <2>1. NormalOctet(v, b) = WriteGlyph(v, b) /\ b \in Code
    BY <1>0, <1>10 DEF NormalOctet, Code
  <2> QED
    BY <1>1, <2>1, GlyphShows
<1>11. CASE b < 32 /\ b \notin {8, 9, 10, 12, 13, 14} \cup (16..31)
  <2>1. NormalOctet(v, b) = v
    BY <1>0, <1>11 DEF NormalOctet
  <2> QED
    BY <2>1 DEF Follows
<1>12. \/ b \in {27, 12, 14, 8, 9, 13, 10, 24, 25, 22, 26, 28}
       \/ b \in {16, 17, 18, 21, 19, 20, 23, 29, 30, 31}
       \/ b >= 32
       \/ b < 32 /\ b \notin {8, 9, 10, 12, 13, 14} \cup (16..31)
  BY <1>0
<1> QED
  BY <1>2, <1>3, <1>4, <1>5, <1>6, <1>7, <1>8, <1>9, <1>10, <1>11, <1>12

LEMMA EscapeTakes ==
    ASSUME NEW v, VfdOK(v), Parameters(v), v.mode = "esc", NEW b \in DataOctets
    PROVE  Follows(v, EscapeOctet(v, b))
<1> DEFINE n == [v EXCEPT !.mode = "normal"]
           e == b % 128
<1>0. /\ v \in VfdRecord /\ b \in 0..255 /\ v.left \in Nat /\ ~(v.left > 0)
      /\ v.increment \in BOOLEAN /\ v.scroll \in Scrolls /\ v.panel \in PanelModes /\ v.blinkAt \in Nat
      /\ e \in 0..127
  BY VfdAssumption DEF VfdOK, VfdRecord, Parameters
<1>1. n \in VfdRecord /\ SameDots(v, n) /\ n.mode = "normal" /\ n.left = v.left /\ n.logged = v.logged
      /\ n.increment = v.increment /\ n.scroll = v.scroll /\ n.panel = v.panel /\ n.blinkAt = v.blinkAt
  <2>1. "normal" \in VfdModes
    BY DEF VfdModes
  <2>2. n \in VfdRecord
    BY <1>0, <2>1, ZenonT(30) DEF VfdRecord
  <2>3. SameDots(v, n)
    BY <1>0, ZenonT(30) DEF VfdRecord, SameDots
  <2>4. n.mode = "normal" /\ n.left = v.left /\ n.logged = v.logged
        /\ n.increment = v.increment /\ n.scroll = v.scroll /\ n.panel = v.panel /\ n.blinkAt = v.blinkAt
    BY <1>0, ZenonT(30) DEF VfdRecord
  <2> QED
    BY <2>2, <2>3, <2>4
<1>2. e \in {64, 2} => EscapeOctet(v, b) = ClearDisplay(n)
  BY DEF EscapeOctet
<1>3. e = 1 => EscapeOctet(v, b) = Decode([n EXCEPT !.at = <<0, 0>>])
  BY DEF EscapeOctet
<1>4. e = 73 => EscapeOctet(v, b) = SoftwareReset(n)
  BY DEF EscapeOctet
<1>5. e = 83 => EscapeOctet(v, b) = Decode([n EXCEPT !.panel = n.panel \cup {"flickerless"}])
  BY DEF EscapeOctet
<1>6. e \in {56, 57} => EscapeOctet(v, b) = Await([v EXCEPT !.panel = v.panel \cup {"extended"}], e, 5)
  BY DEF EscapeOctet
<1>7. e \in {88, 89} => EscapeOctet(v, b) = Decode([n EXCEPT !.panel = n.panel \cup {"extended"}])
  BY DEF EscapeOctet
<1>8. e \in {72, 76, 84} => EscapeOctet(v, b) = Await(v, e, 1)
  BY DEF EscapeOctet
<1>9. e = 67 => EscapeOctet(v, b) = Await(v, e, 2)
  BY DEF EscapeOctet
<1>10. e \in {0, 3, 15} => EscapeOctet(v, b) = Decode(n)
  BY DEF EscapeOctet
<1>11. e \notin {64, 2, 1, 73, 83, 56, 57, 88, 89, 72, 76, 84, 67, 0, 3, 15} => EscapeOctet(v, b) = n
  BY DEF EscapeOctet
<1> HIDE DEF n, e
<1>12. VfdOK(n) /\ Parameters(n)
  BY <1>0, <1>1, SameDotsShown DEF VfdOK, Parameters
<1>13. \A w : Redrawn(n, w) => Follows(v, w)
  BY <1>1, <1>12, RedrawnTakes DEF Follows
<1>14. CASE e \in {64, 2}
  BY <1>2, <1>12, <1>13, <1>14, ClearShows
<1>15. CASE e = 1
  <2>1. <<0, 0>> \in Cell
    BY CellPair, VfdAssumption
  <2> QED
    BY <1>3, <1>12, <1>13, <1>15, <2>1, MovedDecodeShows
<1>16. CASE e = 73
  <2> DEFINE w == SoftwareReset(n)
  <2>1. VfdOK(w) /\ w.logged = v.logged /\ w.mode = "normal" /\ w.left = 0
    BY <1>1, <1>12, ResetShows
  <2> HIDE DEF w
  <2>2. Follows(v, w)
    BY <2>1 DEF Follows, Parameters
  <2> QED
    BY <1>4, <1>16, <2>2 DEF w
<1>17. ASSUME NEW p \in PanelModes, EscapeOctet(v, b) = Decode([n EXCEPT !.panel = p])
       PROVE  Follows(v, EscapeOctet(v, b))
  <2>1. [n EXCEPT !.panel = p] = [n EXCEPT !.increment = n.increment, !.scroll = n.scroll, !.panel = p, !.blinkAt = n.blinkAt]
    BY <1>1 DEF VfdRecord
  <2>2. Redrawn(n, Decode([n EXCEPT !.increment = n.increment, !.scroll = n.scroll, !.panel = p, !.blinkAt = n.blinkAt]))
    BY <1>0, <1>1, <1>12, SettingShows
  <2> QED
    BY <1>13, <1>17, <2>1, <2>2, Zenon
<1>18. n.panel \cup {"flickerless"} \in PanelModes /\ n.panel \cup {"extended"} \in PanelModes
  BY <1>0, <1>1 DEF PanelModes
<1>19. CASE e = 83
  BY <1>5, <1>17, <1>18, <1>19
<1>20. CASE e \in {88, 89}
  BY <1>7, <1>17, <1>18, <1>20
<1>21. CASE e \in {56, 57}
  <2> DEFINE p == v.panel \cup {"extended"}
             w == [v EXCEPT !.panel = p]
  <2>1. p \in PanelModes
    BY <1>1, <1>18
  <2>2. EscapeOctet(v, b) = Await(w, e, 5)
    BY <1>6, <1>21
  <2> HIDE DEF p
  <2>3. w \in VfdRecord /\ w.logged = v.logged
    BY <1>0, <2>1, ZenonT(30) DEF VfdRecord
  <2>4. SameDots(v, w)
    BY <1>0, ZenonT(30) DEF VfdRecord, SameDots
  <2> HIDE DEF w
  <2>5. VfdOK(w) /\ e \in Nat /\ 5 \in Nat /\ 5 > 0 /\ e # 28
    BY <1>21, <2>3, <2>4, SameDotsShown DEF VfdOK
  <2> QED
    BY <2>2, <2>3, <2>5, AwaitOpens DEF Follows
<1>22. CASE e \in {72, 76, 84}
  <2>1. e \in Nat /\ 1 \in Nat /\ 1 > 0 /\ e # 28
    BY <1>22
  <2> QED
    BY <1>8, <1>22, <2>1, AwaitOpens DEF Follows
<1>23. CASE e = 67
  <2>1. e \in Nat /\ 2 \in Nat /\ 2 > 0 /\ e # 28
    BY <1>23
  <2> QED
    BY <1>9, <1>23, <2>1, AwaitOpens DEF Follows
<1>24. CASE e \in {0, 3, 15}
  BY <1>10, <1>12, <1>13, <1>24, DecodeShows
<1>25. CASE e \notin {64, 2, 1, 73, 83, 56, 57, 88, 89, 72, 76, 84, 67, 0, 3, 15}
  BY <1>1, <1>11, <1>12, <1>25 DEF Follows
<1> QED
  BY <1>14, <1>15, <1>16, <1>19, <1>20, <1>21, <1>22, <1>23, <1>24, <1>25

LEMMA DecodeSameDots ==
    ASSUME NEW v \in VfdRecord
    PROVE  SameDots(v, Decode(v))
<1> DEFINE u == [v EXCEPT !.decoded = TRUE]
           m == u.m6 \/ ((u.decoded \/ u.printed) /\ \E c \in Cell : u.cells[c] # 32)
           w == [u EXCEPT !.m6 = m]
<1>1. Decode(v) = w
  BY DEF Decode, Finalized
<1>2. u \in VfdRecord
  BY ZenonT(30) DEF VfdRecord
<1>3. SameDots(v, u)
  BY ZenonT(30) DEF VfdRecord, SameDots
<1> HIDE DEF u, m
<1>4. SameDots(u, w)
  BY <1>2, ZenonT(30) DEF VfdRecord, SameDots
<1> HIDE DEF w
<1> QED
  BY <1>1, <1>3, <1>4 DEF SameDots

\* What follows the first of a sequence.
LEMMA AfterFirst ==
    ASSUME NEW S, NEW a \in Seq(S), NEW n \in Nat, Len(a) = n + 1
    PROVE  SubSeq(a, 2, n + 1) \in [1..n -> S]
<1>1. SubSeq(a, 2, n + 1) = [i \in 1..n |-> a[i + 1]]
  OBVIOUS
<1>2. \A i \in 1..n : i + 1 \in 1..Len(a)
  OBVIOUS
<1>3. \A i \in 1..n : a[i + 1] \in S
  <2> SUFFICES ASSUME NEW i \in 1..n PROVE a[i + 1] \in S
    OBVIOUS
  <2> QED
    BY <1>2, ElementOfSeq
<1> QED
  BY <1>1, <1>3

LEMMA ParamTakes ==
    ASSUME NEW v, VfdOK(v), Parameters(v), v.mode = "param", NEW b \in DataOctets
    PROVE  Follows(v, ParamOctet(v, b))
<1> DEFINE args == Append(v.args, b)
           left == v.left - 1
           u == [v EXCEPT !.args = args, !.left = left]
           w == Decode(u)
           done == [w EXCEPT !.mode = "normal", !.pending = 0, !.args = <<>>]
           code == w.args[1]
           glyph == SubSeq(w.args, 2, GlyphColumns + 1)
           glyphs == [done.glyphs EXCEPT ![code] = glyph]
           named == [done EXCEPT !.glyphs = glyphs]
<1>0. /\ v \in VfdRecord /\ DotsShown(v) /\ v.left \in Nat /\ v.left > 0 /\ v.args \in Seq(DataOctets)
      /\ v.pending \in Nat /\ v.panel \in PanelModes /\ v.mode = "param"
  BY DEF VfdOK, VfdRecord, Parameters, Arguments
<1>1. /\ args \in Seq(DataOctets) /\ args \in Arguments /\ left \in Nat
      /\ Len(args) = Len(v.args) + 1 /\ Len(v.args) \in Nat /\ args[1] \in DataOctets
  BY <1>0 DEF Arguments
<1>2. ParamOctet(v, b) =
        IF w.left > 0 THEN w
        ELSE CASE v.pending \in {76, 26} -> [done EXCEPT !.level = code]
               [] v.pending = 72 -> [done EXCEPT !.at = CursorAt(code)]
               [] v.pending = 22 -> [done EXCEPT !.panel = done.panel \cup {"blink"}, !.blinkAt = code]
               [] v.pending = 28 /\ code \in Code ->
                     Rebuild([done EXCEPT !.glyphs[code] = glyph], {c \in Cell : v.cells[c] = code})
               [] OTHER -> done
  BY DEF ParamOctet
<1> HIDE DEF args, left
<1>3. u \in VfdRecord /\ u.args = args /\ u.left = left /\ u.mode = v.mode /\ u.pending = v.pending
      /\ u.logged = v.logged /\ u.panel = v.panel
  BY <1>0, <1>1, ZenonT(30) DEF VfdRecord
<1>4. SameDots(v, u)
  BY <1>0, ZenonT(30) DEF VfdRecord, SameDots
<1> HIDE DEF u
<1>5. VfdOK(u)
  BY <1>0, <1>3, <1>4, SameDotsShown DEF VfdOK
<1>6. VfdOK(w) /\ w.args = args /\ w.left = left /\ w.mode = "param" /\ w.pending = v.pending
      /\ w.logged = v.logged
  BY <1>0, <1>3, <1>5, DecodeShows DEF Redrawn, SameSequence
<1>7. w \in VfdRecord /\ DotsShown(w) /\ w.cells = v.cells /\ w.panel \in PanelModes
  BY <1>3, <1>4, <1>6, DecodeSameDots DEF VfdOK, SameDots, VfdRecord
<1> HIDE DEF w
<1>8. CASE w.left > 0
  <2>1. Parameters(w)
    <3>1. w.pending = 28 => Len(w.args) + w.left = GlyphColumns + 1
      BY <1>0, <1>1, <1>6 DEF Parameters, left
    <3> QED
      BY <1>6, <1>8, <3>1 DEF Parameters
  <2>2. ParamOctet(v, b) = w
    BY <1>2, <1>8, Zenon
  <2> QED
    BY <1>6, <2>1, <2>2 DEF Follows
<1>9. CASE ~(w.left > 0)
  <2>0. w.left = 0
    BY <1>1, <1>6, <1>9
  <2>1. "normal" \in VfdModes /\ 0 \in Nat /\ <<>> \in Arguments
    BY DEF VfdModes, Arguments
  <2>2. done \in VfdRecord
    BY <1>7, <2>1, ZenonT(30) DEF VfdRecord
  <2>3. SameDots(w, done)
    BY <1>7, ZenonT(30) DEF VfdRecord, SameDots
  <2>4. done.mode = "normal" /\ done.left = w.left /\ done.logged = w.logged /\ done.panel = w.panel
    BY <1>7, ZenonT(30) DEF VfdRecord
  <2> HIDE DEF done
  <2>5. VfdOK(done) /\ Parameters(done) /\ done.logged = v.logged /\ done.cells = v.cells
    BY <1>6, <1>7, <2>0, <2>2, <2>3, <2>4, SameDotsShown DEF VfdOK, Parameters, SameDots
  <2>6. \A x : Redrawn(done, x) => Follows(v, x)
    BY <2>5, RedrawnTakes DEF Follows
  <2>7. code \in DataOctets /\ code \in Nat
    <3>1. w.args = args /\ args[1] \in DataOctets
      BY <1>1, <1>6
    <3>2. w.args[1] \in DataOctets
      BY <3>1, Zenon
    <3>3. \A d \in DataOctets : d \in Nat
      BY VfdAssumption
    <3> QED
      BY <3>2, <3>3, Zenon
  <2>8. CASE v.pending \in {76, 26}
    <3> DEFINE x == [done EXCEPT !.level = code]
    <3>1. ParamOctet(v, b) = x
      <4> HIDE DEF code, glyph
      <4> QED
        BY <1>2, <1>9, <2>8
    <3> HIDE DEF code
    <3>2. x \in VfdRecord
      BY <2>2, <2>7, ZenonT(30) DEF VfdRecord
    <3>3. SameDots(done, x) /\ SameSequence(done, x)
      BY <2>2, ZenonT(30) DEF VfdRecord, SameDots, SameSequence
    <3> HIDE DEF x
    <3> QED
      BY <2>5, <2>6, <3>1, <3>2, <3>3, SameDotsShown DEF Redrawn, VfdOK
  <2>9. CASE v.pending = 72
    <3>1. ParamOctet(v, b) = [done EXCEPT !.at = CursorAt(code)]
      <4> HIDE DEF code, glyph
      <4> QED
        BY <1>2, <1>9, <2>9
    <3>2. CursorAt(code) \in Cell
      <4> HIDE DEF code
      <4> QED
        BY <2>7, CursorAtCell
    <3> QED
      BY <2>5, <2>6, <3>1, <3>2, MovedShows
  <2>10. CASE v.pending = 22
    <3> DEFINE p == done.panel \cup {"blink"}
               x == [done EXCEPT !.panel = p, !.blinkAt = code]
    <3>1. ParamOctet(v, b) = x
      <4> HIDE DEF code, glyph
      <4> QED
        BY <1>2, <1>9, <2>10
    <3>2. p \in PanelModes
      BY <1>7, <2>4 DEF PanelModes
    <3> HIDE DEF code, p
    <3>3. x \in VfdRecord
      BY <2>2, <2>7, <3>2, ZenonT(30) DEF VfdRecord
    <3>4. SameDots(done, x) /\ SameSequence(done, x)
      BY <2>2, ZenonT(30) DEF VfdRecord, SameDots, SameSequence
    <3> HIDE DEF x
    <3> QED
      BY <2>5, <2>6, <3>1, <3>3, <3>4, SameDotsShown DEF Redrawn, VfdOK
  <2>11. CASE v.pending = 28 /\ code \in Code
    <3> DEFINE cells == {c \in Cell : v.cells[c] = code}
    <3>1. ParamOctet(v, b) = Rebuild(named, cells)
      <4>1. named = [done EXCEPT !.glyphs[code] = glyph]
        <5> HIDE DEF code, glyph
        <5> QED
          BY <2>2, Zenon DEF VfdRecord
      <4>2. ParamOctet(v, b) = Rebuild([done EXCEPT !.glyphs[code] = glyph], cells)
        <5> HIDE DEF code, glyph
        <5> QED
          BY <1>2, <1>9, <2>11
      <4> QED
        BY <4>1, <4>2, Zenon
    <3>2. glyph \in Glyph
      <4>1. Len(args) = GlyphColumns + 1
        BY <1>0, <1>1, <1>6, <2>0, <2>11 DEF Parameters, left
      <4>2. GlyphColumns \in Nat \ {0}
        BY VfdAssumption
      <4>3. glyph \in [1..GlyphColumns -> DataOctets]
        <5>1. SubSeq(args, 2, GlyphColumns + 1) \in [1..GlyphColumns -> DataOctets]
          BY <1>1, <4>1, <4>2, AfterFirst
        <5> QED
          BY <1>6, <5>1
      <4> QED
        BY <4>3 DEF Glyph
    <3>3. done.glyphs \in [Code -> Glyph]
      BY <2>2 DEF VfdRecord, GlyphsOfCodes
    <3>4. glyphs \in GlyphsOfCodes /\ \A a \in Code : a = code \/ glyphs[a] = done.glyphs[a]
      <4> HIDE DEF code, glyph
      <4> QED
        BY <3>2, <3>3 DEF GlyphsOfCodes
    <3> HIDE DEF glyphs
    <3>5. named \in VfdRecord
      BY <2>2, <3>4, ZenonT(30) DEF VfdRecord
    <3>6. SameSequence(done, named)
      BY <2>2, ZenonT(30) DEF VfdRecord, SameSequence
    <3>7. named.glyphs = glyphs /\ named.cells = done.cells /\ named.comma = done.comma
          /\ named.arrow = done.arrow /\ named.dots = done.dots
      BY <2>2, ZenonT(30) DEF VfdRecord
    <3> HIDE DEF named
    <3>8. \A c \in Cell : c \in cells \/ named.dots[c] = Rebuilt(named, c)
      <4> SUFFICES ASSUME NEW c \in Cell, v.cells[c] # code PROVE named.dots[c] = Rebuilt(named, c)
        OBVIOUS
      <4> HIDE DEF code
      <4>1. done.cells[c] \in Code
        BY <2>2 DEF VfdRecord, CellCodes
      <4>2. named.glyphs[named.cells[c]] = done.glyphs[done.cells[c]]
        BY <2>5, <3>4, <3>7, <4>1
      <4>3. done.dots[c] = Rebuilt(done, c)
        BY <2>5 DEF VfdOK, DotsShown
      <4> QED
        BY <3>7, <4>2, <4>3 DEF Rebuilt
    <3> HIDE DEF cells
    <3>9. Redrawn(named, Rebuild(named, cells))
      BY <3>5, <3>8, RebuildShows
    <3>10. Redrawn(done, Rebuild(named, cells))
      BY <3>6, <3>9 DEF Redrawn, SameSequence
    <3> QED
      BY <2>6, <3>1, <3>10
  <2>12. CASE v.pending \notin {76, 26, 72, 22} /\ ~(v.pending = 28 /\ code \in Code)
    <3>1. ParamOctet(v, b) = done
      <4> HIDE DEF code, glyph
      <4> QED
        BY <1>2, <1>9, <2>12
    <3> QED
      BY <2>5, <3>1 DEF Follows
  <2> QED
    BY <2>8, <2>9, <2>10, <2>11, <2>12
<1> QED
  BY <1>8, <1>9

\* An octet taken is logged, and makes the display busy.
LEMMA LoggedInv ==
    ASSUME NEW v, VfdOK(v), v.logged < MaxLogged, NEW w, Follows(v, w), vfd' = [w EXCEPT !.busy = TRUE, !.logged = w.logged + 1]
    PROVE  VfdInv'
<1> DEFINE n == w.logged + 1
<1>1. w \in VfdRecord /\ DotsShown(w) /\ Parameters(w) /\ n \in Logged
  <2>1. w.logged \in 0..MaxLogged /\ w.logged < MaxLogged /\ MaxLogged \in Nat
    BY VfdAssumption DEF Follows, VfdOK, VfdRecord, Logged
  <2> QED
    BY <2>1 DEF Follows, VfdOK, Logged
<1> HIDE DEF n
<1>2. vfd' = [w EXCEPT !.busy = TRUE, !.logged = n]
  BY DEF n
<1>3. vfd' \in VfdRecord /\ vfd'.mode = w.mode /\ vfd'.left = w.left /\ vfd'.pending = w.pending
      /\ vfd'.args = w.args
  BY <1>1, <1>2, ZenonT(30) DEF VfdRecord
<1>4. SameDots(w, vfd')
  BY <1>1, <1>2, ZenonT(30) DEF VfdRecord, SameDots
<1>5. Parameters(vfd')
  BY <1>1, <1>3 DEF Parameters
<1> QED
  BY <1>1, <1>3, <1>4, <1>5, SameDotsShown DEF VfdInv, VfdOK

LEMMA VfdResetOK == VfdOK(VfdReset) /\ Parameters(VfdReset)
<1> DEFINE cells == [c \in Cell |-> 32]
           glyphs == [b \in Code |-> Font]
           dots == [c \in Cell |-> Dark]
           home == <<0, 0>>
           v == VfdReset
<1>1. /\ cells \in CellCodes /\ glyphs \in GlyphsOfCodes /\ dots \in CellDots /\ home \in Cell
      /\ {} \in Marks /\ {} \in BottomMarks /\ "normal" \in VfdModes /\ <<>> \in Arguments
      /\ "none" \in Scrolls /\ {} \in PanelModes /\ 0 \in Logged /\ 0 \in Nat /\ 255 \in Nat
  BY VfdAssumption
     DEF CellCodes, GlyphsOfCodes, CellDots, Cell, Marks, BottomMarks, Code, Glyph, Dots, Dark, VfdModes,
         Arguments, Scrolls, PanelModes, Logged
<1>2. \A c \in Cell : cells[c] = 32 /\ dots[c] = Dark /\ glyphs[32] = Font
  BY DEF Code
<1>3. v = [cells |-> cells, comma |-> {}, arrow |-> {}, glyphs |-> glyphs,
     dots |-> dots, at |-> home, mode |-> "normal", pending |-> 0, left |-> 0, args |-> <<>>,
     increment |-> TRUE, scroll |-> "none", panel |-> {}, blinkAt |-> 0, level |-> 255,
     decoded |-> FALSE, printed |-> FALSE, m6 |-> FALSE, busy |-> FALSE, logged |-> 0]
  BY DEF VfdReset
<1> HIDE DEF cells, glyphs, dots, home, v
<1>4. v \in VfdRecord
  BY <1>1, <1>3, SMTT(30) DEF VfdRecord
<1>5. v.cells = cells /\ v.comma = {} /\ v.arrow = {} /\ v.glyphs = glyphs /\ v.dots = dots
      /\ v.mode = "normal" /\ v.left = 0
  BY <1>3
<1>6. DotsShown(v)
  <2> SUFFICES ASSUME NEW c \in Cell PROVE v.dots[c] = Rebuilt(v, c)
    BY DEF DotsShown
  <2>1. v.cells[c] = 32 /\ v.glyphs[32] = Font /\ v.dots[c] = Dark
    BY <1>2, <1>5
  <2>2. (c \in v.comma) = FALSE /\ (c \in v.arrow /\ c[1] = Rows - 1) = FALSE
    BY <1>5
  <2> QED
    BY <2>1, <2>2 DEF Rebuilt, Dark
<1>7. Parameters(v)
  BY <1>5 DEF Parameters
<1> QED
  BY <1>4, <1>6, <1>7 DEF VfdOK, v

LEMMA VfdInitInv == VfdInit => VfdInv
  BY VfdResetOK DEF VfdInit, VfdInv

LEMMA CommandInv == ASSUME VfdInv, NEW b \in CommandOctets, WriteCommand(b) PROVE VfdInv'
<1> DEFINE calm == vfd.mode = "normal"
           pending == IF calm THEN vfd.pending ELSE 0
           left == IF calm THEN vfd.left ELSE 0
           args == IF calm THEN vfd.args ELSE <<>>
           v == [vfd EXCEPT !.mode = "normal", !.pending = pending, !.left = left, !.args = args]
           next == IF b = 64 THEN SoftwareReset(v) ELSE Decode([v EXCEPT !.at = CursorAt(b)])
<1>0. vfd \in VfdRecord /\ DotsShown(vfd) /\ Parameters(vfd) /\ vfd.logged < MaxLogged /\ VfdOK(vfd)
  BY DEF VfdInv, VfdOK, WriteCommand
<1>1. vfd' = [next EXCEPT !.busy = TRUE, !.logged = next.logged + 1]
  BY DEF WriteCommand
<1>2. "normal" \in VfdModes /\ pending \in Nat /\ left \in Nat /\ args \in Arguments
  BY <1>0 DEF VfdModes, VfdRecord, Arguments
<1>3. left = 0
  BY <1>0 DEF Parameters, VfdRecord
<1> HIDE DEF pending, left, args
<1>4. v \in VfdRecord /\ v.mode = "normal" /\ v.left = left /\ v.logged = vfd.logged
  BY <1>0, <1>2, ZenonT(30) DEF VfdRecord
<1>5. SameDots(vfd, v)
  BY <1>0, ZenonT(30) DEF VfdRecord, SameDots
<1> HIDE DEF v
<1>6. VfdOK(v) /\ Parameters(v)
  BY <1>0, <1>3, <1>4, <1>5, SameDotsShown DEF VfdOK, Parameters
<1>7. Follows(v, next)
  <2>1. CASE b = 64
    <3> DEFINE w == SoftwareReset(v)
    <3>1. VfdOK(w) /\ w.logged = v.logged /\ w.mode = "normal" /\ w.left = 0
      BY <1>4, <1>6, ResetShows
    <3> HIDE DEF w
    <3>2. Follows(v, w)
      BY <3>1 DEF Follows, Parameters
    <3> QED
      BY <2>1, <3>2 DEF w
  <2>2. CASE b # 64
    <3>1. CursorAt(b) \in Cell
      BY CursorAtCell, VfdAssumption
    <3>2. Redrawn(v, Decode([v EXCEPT !.at = CursorAt(b)]))
      BY <1>6, <3>1, MovedDecodeShows
    <3> QED
      BY <1>6, <2>2, <3>2, RedrawnTakes
  <2> QED
    BY <2>1, <2>2
<1> HIDE DEF next
<1> QED
  BY <1>0, <1>1, <1>4, <1>6, <1>7, LoggedInv

LEMMA VfdStepInv == VfdInv /\ [VfdNext]_vfdVars => VfdInv'
<1> SUFFICES ASSUME VfdInv, [VfdNext]_vfdVars PROVE VfdInv'
  OBVIOUS
<1>0. VfdOK(vfd) /\ Parameters(vfd) /\ vfd \in VfdRecord /\ vfd.mode \in VfdModes
  BY DEF VfdInv, VfdOK, VfdRecord
<1>1. ASSUME NEW b \in DataOctets, WriteData(b) PROVE VfdInv'
  <2> DEFINE next == IF vfd.mode = "normal" THEN NormalOctet(vfd, b)
                     ELSE IF vfd.mode = "esc" THEN EscapeOctet(vfd, b) ELSE ParamOctet(vfd, b)
  <2>1. vfd.logged < MaxLogged /\ vfd' = [next EXCEPT !.busy = TRUE, !.logged = next.logged + 1]
    BY <1>1 DEF WriteData
  <2>2. Follows(vfd, next)
    <3>1. CASE vfd.mode = "normal"
      BY <1>0, <3>1, NormalTakes
    <3>2. CASE vfd.mode = "esc"
      BY <1>0, <3>2, EscapeTakes
    <3>3. CASE vfd.mode = "param"
      BY <1>0, <3>3, ParamTakes
    <3> QED
      BY <1>0, <3>1, <3>2, <3>3 DEF VfdModes
  <2> HIDE DEF next
  <2> QED
    BY <1>0, <2>1, <2>2, LoggedInv
<1>2. ASSUME NEW b \in CommandOctets, WriteCommand(b) PROVE VfdInv'
  BY <1>2, CommandInv
<1>3. CASE BusyEnds
  <2>1. vfd' = [vfd EXCEPT !.busy = FALSE]
    BY <1>3 DEF BusyEnds
  <2>2. vfd' \in VfdRecord /\ vfd'.mode = vfd.mode /\ vfd'.left = vfd.left /\ vfd'.pending = vfd.pending
        /\ vfd'.args = vfd.args
    BY <1>0, <2>1, ZenonT(30) DEF VfdRecord
  <2>3. SameDots(vfd, vfd')
    BY <1>0, <2>1, ZenonT(30) DEF VfdRecord, SameDots
  <2> QED
    BY <1>0, <2>2, <2>3, SameDotsShown DEF VfdInv, VfdOK, Parameters
<1>4. CASE VfdDeviceReset
  BY <1>4, VfdResetOK DEF VfdDeviceReset, VfdInv
<1>5. CASE UNCHANGED vfdVars
  BY <1>5 DEF vfdVars, VfdInv
<1> QED
  BY <1>1, <1>2, <1>3, <1>4, <1>5 DEF VfdNext

LEMMA VfdInvImplies == VfdInv => VfdTypeOK /\ DotsShowText
  BY DEF VfdInv, VfdOK, VfdRecord, Parameters, VfdTypeOK, DotsShowText, DotsShown, CellCodes, Marks,
         BottomMarks, GlyphsOfCodes, CellDots, VfdModes, Arguments, Scrolls, PanelModes, Logged

\* In every reachable state the cursor is within the cells, and the dots drawn are those of the
\* cells, the marks and the glyphs now in force.
THEOREM DisplayCorrect == VfdSpec => [](VfdTypeOK /\ DotsShowText)
  BY VfdInitInv, VfdStepInv, VfdInvImplies, PTL DEF VfdSpec

-------------------------------------------------------------------------------
(* Keypad matrix.  A strobe is counted as moved at most once per read.                    *)

KeypadRecord == [strobe : Strobes, lastStrobe : Strobes, reads : 0..MaxScanReads,
                 deltas : 0..MaxScanReads, scanPending : BOOLEAN, scanSeen : BOOLEAN,
                 held : SUBSET Keys, rows : SUBSET Lines]

KeypadInv == /\ keypad \in KeypadRecord
             /\ keypad.deltas <= keypad.reads
             /\ RowsSound

LEMMA KeypadResetInv == ASSUME keypad = KeypadReset PROVE KeypadInv
<1>1. KeypadReset \in KeypadRecord
  BY KeypadAssumption DEF KeypadReset, KeypadRecord, Strobes, NoStrobe, Keys
<1>2. /\ keypad.deltas = 0 /\ keypad.reads = 0 /\ keypad.rows = {} /\ keypad.held = {}
      /\ keypad.scanPending = FALSE
  BY DEF KeypadReset
<1> QED
  BY <1>1, <1>2 DEF KeypadInv, RowsSound

\* The columns answered for are lines, and a single strobe in the bank in use is the one.
LEMMA ColumnsAnswered ==
    ASSUME NEW b \in Strobes
    PROVE  /\ ActiveColumns(b) \subseteq Lines
           /\ \A c : (IF b.high # {} THEN b.high ELSE b.low) = {c} => ActiveColumns(b) = {c}
<1>1. \A s \in SUBSET Lines : s # {} => LowestLine(s) \in s
  <2> SUFFICES ASSUME NEW s \in SUBSET Lines, s # {} PROVE LowestLine(s) \in s
    OBVIOUS
  <2>1. s \in SUBSET Nat
    BY KeypadAssumption
  <2>2. \E c \in s : \A d \in s : c <= d
    BY <2>1, LeastNumber
  <2> QED
    BY <2>2 DEF LowestLine
<1>2. b.low \in SUBSET Lines /\ b.high \in SUBSET Lines
  BY DEF Strobes
<1> QED
  BY <1>1, <1>2 DEF ActiveColumns

LEMMA KeypadReadInv == ASSUME KeypadInv, NEW keys \in SUBSET Keys, KeypadReadRows(keys) PROVE KeypadInv'
<1> DEFINE moved == keypad.strobe # keypad.lastStrobe
           deltas == IF moved THEN keypad.deltas + 1 ELSE keypad.deltas
           due == ~keypad.scanSeen /\ keypad.reads + 1 >= ScanReads /\ deltas >= ScanDeltas
           reads == keypad.reads + 1
           pending == keypad.scanPending \/ due
           seen == keypad.scanSeen \/ due
           rows == RowLines(keypad.strobe, keys)
           was == keypad.strobe
<1>0. /\ keypad \in KeypadRecord /\ keypad.reads \in 0..MaxScanReads /\ keypad.deltas \in 0..MaxScanReads
      /\ keypad.deltas <= keypad.reads /\ keypad.reads < MaxScanReads /\ MaxScanReads \in Nat
      /\ was \in Strobes /\ keypad.scanPending \in BOOLEAN /\ keypad.scanSeen \in BOOLEAN
      /\ keypad.scanPending => keypad.scanSeen /\ keypad.deltas >= ScanDeltas
      /\ ScanDeltas \in Nat
  BY KeypadAssumption DEF KeypadInv, KeypadRecord, KeypadReadRows, RowsSound
<1>1. keypad' = [keypad EXCEPT !.reads = reads, !.lastStrobe = was, !.deltas = deltas,
                               !.scanPending = pending, !.scanSeen = seen, !.held = keys, !.rows = rows]
  BY DEF KeypadReadRows, ObserveScan, KeypadRecord
<1>2. /\ reads \in 0..MaxScanReads /\ deltas \in 0..MaxScanReads /\ deltas <= reads
      /\ pending => seen /\ deltas >= ScanDeltas
  BY <1>0
<1>3. pending \in BOOLEAN /\ seen \in BOOLEAN
  BY <1>0
<1>4. rows \in SUBSET Lines
  BY DEF RowLines
<1>5. /\ \A r \in rows : \E c \in Lines : <<r, c>> \in keys
      /\ \A key \in keys : (IF was.high # {} THEN was.high ELSE was.low) = {key[2]} => key[1] \in rows
  <2>1. \A r \in rows : \E c \in Lines : <<r, c>> \in keys
    BY <1>0, ColumnsAnswered DEF RowLines
  <2>2. ASSUME NEW key \in keys, (IF was.high # {} THEN was.high ELSE was.low) = {key[2]}
        PROVE  key[1] \in rows
    <3>1. ActiveColumns(was) = {key[2]}
      BY <1>0, <2>2, ColumnsAnswered
    <3>2. key[1] \in Lines /\ <<key[1], key[2]>> \in keys
      BY DEF Keys
    <3> QED
      BY <3>1, <3>2 DEF RowLines
  <2> QED
    BY <2>1, <2>2
<1> DEFINE N == 0..MaxScanReads
           B == BOOLEAN
           H == SUBSET Keys
           R == SUBSET Lines
           Z == [strobe : Strobes, lastStrobe : Strobes, reads : N, deltas : N, scanPending : B,
                 scanSeen : B, held : H, rows : R]
<1>6. keypad \in Z /\ was \in Strobes /\ reads \in N /\ deltas \in N /\ pending \in B /\ seen \in B
      /\ keys \in H /\ rows \in R
  BY <1>0, <1>2, <1>3, <1>4 DEF KeypadRecord
<1> HIDE DEF N, B, H, R, deltas, reads, pending, seen, rows, was
<1>7. keypad' \in Z
  BY ONLY <1>1, <1>6, ZenonT(30)
<1>8. /\ keypad'.strobe = keypad.strobe /\ keypad'.reads = reads /\ keypad'.deltas = deltas
      /\ keypad'.scanPending = pending /\ keypad'.scanSeen = seen
      /\ keypad'.held = keys /\ keypad'.rows = rows
  BY ONLY <1>1, <1>6, ZenonT(30)
<1>9. keypad' \in KeypadRecord
  BY <1>7 DEF N, B, H, R, KeypadRecord
<1>10. RowsSound'
  BY <1>2, <1>5, <1>8 DEF RowsSound, ActiveBank, was
<1> QED
  BY <1>2, <1>8, <1>9, <1>10 DEF KeypadInv

LEMMA KeypadStepInv == KeypadInv /\ [KeypadNext]_keypadVars => KeypadInv'
<1> SUFFICES ASSUME KeypadInv, [KeypadNext]_keypadVars PROVE KeypadInv'
  OBVIOUS
<1>1. CASE KeypadPioRead \/ KeypadModelRead
  BY <1>1, KeypadReadInv DEF KeypadPioRead, KeypadModelRead
<1>2. CASE KeypadStrobe
  <2>1. PICK b \in Strobes : keypad' = [keypad EXCEPT !.strobe = b, !.held = {}, !.rows = {}]
    BY <1>2 DEF KeypadStrobe
  <2>2. keypad' \in KeypadRecord
    BY <2>1 DEF KeypadInv, KeypadRecord
  <2>3. /\ keypad'.held = {} /\ keypad'.rows = {} /\ keypad'.reads = keypad.reads
        /\ keypad'.deltas = keypad.deltas /\ keypad'.scanPending = keypad.scanPending
        /\ keypad'.scanSeen = keypad.scanSeen
    BY <2>1 DEF KeypadInv, KeypadRecord
  <2> QED
    BY <2>2, <2>3 DEF KeypadInv, RowsSound
<1>3. CASE KeypadConsumeScan
  <2>2. keypad' \in KeypadRecord
    BY <1>3 DEF KeypadConsumeScan, KeypadInv, KeypadRecord
  <2>3. /\ keypad'.held = keypad.held /\ keypad'.rows = keypad.rows /\ keypad'.reads = keypad.reads
        /\ keypad'.deltas = keypad.deltas /\ keypad'.scanPending = FALSE /\ keypad'.strobe = keypad.strobe
    BY <1>3 DEF KeypadConsumeScan, KeypadInv, KeypadRecord
  <2> QED
    BY <2>2, <2>3 DEF KeypadInv, RowsSound, ActiveBank
<1>4. CASE KeypadDeviceReset
  <2>1. keypad' = KeypadReset
    BY <1>4 DEF KeypadDeviceReset
  <2>2. KeypadReset \in KeypadRecord
    BY KeypadAssumption DEF KeypadReset, KeypadRecord, Strobes, NoStrobe, Keys
  <2>3. /\ keypad'.deltas = 0 /\ keypad'.reads = 0 /\ keypad'.rows = {} /\ keypad'.held = {}
        /\ keypad'.scanPending = FALSE
    BY <2>1 DEF KeypadReset
  <2> QED
    BY <2>1, <2>2, <2>3 DEF KeypadInv, RowsSound
<1>5. CASE UNCHANGED keypadVars
  BY <1>5 DEF keypadVars, KeypadInv, RowsSound, ActiveBank
<1> QED
  BY <1>1, <1>2, <1>3, <1>4, <1>5 DEF KeypadNext

LEMMA KeypadInvImplies == KeypadInv => KeypadTypeOK /\ RowsSound
  BY DEF KeypadInv, KeypadRecord, KeypadTypeOK

\* RowsSound and the types in every reachable state, for every matrix and every threshold of a scan.
THEOREM KeypadCorrect == KeypadSpec => [](KeypadTypeOK /\ RowsSound)
<1>1. KeypadInit => KeypadInv
  BY KeypadResetInv DEF KeypadInit
<1> QED
  BY <1>1, KeypadInvImplies, KeypadStepInv, PTL DEF KeypadSpec

-------------------------------------------------------------------------------
(* Soft keys behind the ten-millisecond poll.  While a change waits, the wait and the     *)
(* polls that have read the same add up to the debounce.                                  *)

PanelRecord == [raw : SUBSET SoftKeys, stable : SUBSET SoftKeys, wait : 0..NotWaiting,
                last : SUBSET SoftKeys, illegal : BOOLEAN,
                held : SUBSET EdgeKeys, reversed : SUBSET Reversals,
                hook : BOOLEAN, onHook : BOOLEAN, guard : BOOLEAN, out : SUBSET PanelCodes,
                reports : [SoftKeys -> 0..2], steady : 0..PollsToSettle]

\* What is stable was told, a change waits its turn, and a key was reported only since it is down.
PanelWaits(p) ==
    /\ p.stable = p.last
    /\ p.wait # NotWaiting => p.wait > 0 /\ p.wait + (PollPeriod * p.steady) = SoftDebounce
PanelReports(p) == \A k \in SoftKeys : p.reports[k] <= 1 /\ (p.reports[k] = 1 => k \in p.last)

PanelInv == /\ uiPolicy \in Policy /\ panel \in PanelRecord
            /\ PanelWaits(panel) /\ PanelReports(panel) /\ SoftKeysHonest

LEMMA PollsEnough ==
    /\ PollsToSettle \in Nat
    /\ \A n \in Nat : (PollPeriod * n < SoftDebounce) <=> (n < PollsToSettle)
<1> DEFINE P == PollPeriod
           D == SoftDebounce
           t == D + P - 1
           q == t \div P
<1>1. P \in Nat \ {0} /\ D \in Nat \ {0} /\ t \in Nat
  BY PanelAssumption
<1> HIDE DEF P, D
<1>2. t = (P * q) + (t % P) /\ t % P \in 0..(P - 1) /\ q \in Nat
  <2> HIDE DEF t
  <2> QED
    BY <1>1, DivMod
<1> HIDE DEF q
<1>3. ASSUME NEW n \in Nat PROVE (P * n < D) <=> (n < q)
  <2>1. P * (q - n) = (P * q) - (P * n)
    BY <1>1, <1>2, TimesSum
  <2>2. q - n \in Int /\ P * (q - n) \in Int /\ P * n \in Int /\ P * q \in Int
    BY <1>1, <1>2
  <2>3. (q - n >= 1 => P * (q - n) >= P) /\ (q - n <= -1 => P * (q - n) <= -P)
    BY <1>1, <2>2, TimesSign
  <2>4. CASE n < q
    <3>1. P * (q - n) >= P
      BY <1>2, <2>3, <2>4
    <3> QED
      BY <1>1, <1>2, <2>1, <2>2, <2>4, <3>1
  <2>5. CASE n >= q
    <3>1. P * (q - n) <= 0
      <4>1. CASE n = q
        BY <1>1, <2>5, <4>1
      <4>2. CASE n # q
        BY <1>1, <1>2, <2>2, <2>3, <2>5, <4>2
      <4> QED
        BY <4>1, <4>2
    <3> QED
      BY <1>1, <1>2, <2>1, <2>2, <2>5, <3>1
  <2> QED
    BY <1>2, <2>4, <2>5
<1>4. q = PollsToSettle
  BY DEF q, P, D, PollsToSettle
<1> QED
  BY <1>2, <1>3, <1>4 DEF P, D

LEMMA PanelInitInv == PanelEventsInit => PanelInv
<1> SUFFICES ASSUME PanelEventsInit PROVE PanelInv
  OBVIOUS
<1>1. PICK raw \in SUBSET SoftKeys :
         panel = [raw |-> raw, stable |-> raw, wait |-> NotWaiting, last |-> raw, illegal |-> FALSE,
                  held |-> {}, reversed |-> {}, hook |-> TRUE, onHook |-> TRUE, guard |-> FALSE,
                  out |-> {}, reports |-> [k \in SoftKeys |-> 0], steady |-> 0]
  BY DEF PanelEventsInit
<1>2. uiPolicy \in Policy
  BY PanelAssumption DEF PanelEventsInit
<1>3. NotWaiting \in 0..NotWaiting /\ 0 \in 0..PollsToSettle /\ [k \in SoftKeys |-> 0] \in [SoftKeys -> 0..2]
  BY PollsEnough, PanelAssumption DEF NotWaiting
<1>4. panel \in PanelRecord
  BY <1>1, <1>3 DEF PanelRecord
<1> QED
  BY <1>1, <1>2, <1>4 DEF PanelInv, PanelWaits, PanelReports, SoftKeysHonest

\* A poll takes what has stood for the debounce, and nothing else.
DebouncedTo(p, d, raw) ==
    /\ d.raw = raw /\ d.stable \in SUBSET SoftKeys
    /\ d.wait \in 0..NotWaiting /\ d.steady \in 0..PollsToSettle
    /\ d.wait # NotWaiting => d.wait > 0 /\ d.wait + (PollPeriod * d.steady) = SoftDebounce
    /\ d.stable # p.stable => d.stable = raw /\ d.steady = PollsToSettle
    /\ d.last = p.last /\ d.reports = p.reports
    /\ \E s \in SUBSET SoftKeys, w \in 0..NotWaiting, n \in 0..PollsToSettle :
          d = [p EXCEPT !.raw = raw, !.stable = s, !.wait = w, !.steady = n]

LEMMA DebounceWaits ==
    ASSUME NEW p \in PanelRecord, PanelWaits(p), NEW raw \in SUBSET SoftKeys
    PROVE  DebouncedTo(p, Debounced(p, raw), raw)
<1> DEFINE d == Debounced(p, raw)
<1> SUFFICES DebouncedTo(p, d, raw)
  OBVIOUS
<1> DEFINE left == IF p.wait <= PollPeriod THEN 0 ELSE p.wait - PollPeriod
           n == IF p.steady < PollsToSettle THEN p.steady + 1 ELSE p.steady
<1>0. /\ p.raw \in SUBSET SoftKeys /\ p.stable \in SUBSET SoftKeys
      /\ p.wait \in 0..NotWaiting /\ p.steady \in 0..PollsToSettle
      /\ SoftDebounce \in Nat \ {0} /\ PollPeriod \in Nat \ {0} /\ NotWaiting = SoftDebounce + 1
      /\ PollsToSettle \in Nat /\ PollPeriod * p.steady \in Nat
      /\ p.wait # NotWaiting => p.wait > 0 /\ p.wait + (PollPeriod * p.steady) = SoftDebounce
  BY PanelAssumption, PollsEnough DEF PanelRecord, PanelWaits, NotWaiting
<1> DEFINE WithWait(s, w, m) == [p EXCEPT !.raw = raw, !.stable = s, !.wait = w, !.steady = m]
<1>1. ASSUME NEW s \in SUBSET SoftKeys, NEW w \in 0..NotWaiting, NEW m \in 0..PollsToSettle,
             d = WithWait(s, w, m),
             w # NotWaiting => w > 0 /\ w + (PollPeriod * m) = SoftDebounce,
             s # p.stable => s = raw /\ m = PollsToSettle
      PROVE  DebouncedTo(p, d, raw)
  <2> HIDE DEF d
  <2>1. /\ d.raw = raw /\ d.stable = s /\ d.wait = w /\ d.steady = m
        /\ d.last = p.last /\ d.reports = p.reports
    BY <1>1 DEF PanelRecord
  <2>2. \E u \in SUBSET SoftKeys, v \in 0..NotWaiting, k \in 0..PollsToSettle :
          d = [p EXCEPT !.raw = raw, !.stable = u, !.wait = v, !.steady = k]
    BY <1>1
  <2> QED
    BY <1>1, <2>1, <2>2 DEF DebouncedTo
<1>2. CASE raw # p.raw
  <2>1. d = WithWait(p.stable, SoftDebounce, 0)
    BY <1>2 DEF Debounced, PanelRecord
  <2>2. SoftDebounce \in 0..NotWaiting /\ 0 \in 0..PollsToSettle /\ PollPeriod * 0 = 0
    BY <1>0
  <2>3. SoftDebounce > 0 /\ SoftDebounce + (PollPeriod * 0) = SoftDebounce
    BY <1>0, <2>2
  <2> HIDE DEF d, WithWait
  <2> QED
    BY <1>0, <1>1, <2>1, <2>2, <2>3
<1>3. CASE raw = p.raw
  <2>1. n \in 0..PollsToSettle
    BY <1>0
  <2>2. CASE p.wait = NotWaiting
    <3>1. d = WithWait(p.stable, p.wait, n)
      BY <1>3, <2>2 DEF Debounced, PanelRecord
    <3> HIDE DEF d, WithWait, n
    <3> QED
      BY <1>0, <1>1, <2>1, <2>2, <3>1
  <2>3. CASE p.wait # NotWaiting
    <3>1. p.steady \in Nat /\ PollPeriod * p.steady < SoftDebounce
      BY <1>0, <2>3
    <3>2. p.steady < PollsToSettle /\ n = p.steady + 1
      BY <1>0, <3>1, PollsEnough
    <3>3. PollPeriod * (p.steady + 1) = (PollPeriod * p.steady) + (PollPeriod * 1)
      BY <1>0, <3>1, TimesSum
    <3>4. PollPeriod * n = (PollPeriod * p.steady) + PollPeriod
      BY <1>0, <3>2, <3>3
    <3>5. CASE left = 0
      <4>1. p.wait <= PollPeriod
        BY <1>0, <3>5
      <4>2. ~(PollPeriod * n < SoftDebounce)
        BY <1>0, <2>3, <3>4, <4>1
      <4>3. n = PollsToSettle
        <5> HIDE DEF n
        <5>1. n \in Nat /\ n <= PollsToSettle
          BY <1>0, <2>1
        <5>2. ~(n < PollsToSettle)
          BY <4>2, <5>1, PollsEnough
        <5> QED
          BY <1>0, <5>1, <5>2
      <4>4. d = WithWait(raw, NotWaiting, n)
        BY <1>3, <2>3, <3>5 DEF Debounced, PanelRecord
      <4>5. NotWaiting \in 0..NotWaiting
        BY <1>0
      <4> HIDE DEF d, WithWait, n
      <4> QED
        BY <1>1, <2>1, <4>3, <4>4, <4>5
    <3>6. CASE left # 0
      <4>1. left = p.wait - PollPeriod /\ left > 0 /\ left \in 0..NotWaiting
        BY <1>0, <3>6
      <4>2. left + (PollPeriod * n) = SoftDebounce
        BY <1>0, <2>3, <3>4, <4>1
      <4>3. d = WithWait(p.stable, left, n)
        BY <1>3, <2>3, <3>6 DEF Debounced, PanelRecord
      <4> HIDE DEF d, WithWait, n, left
      <4> QED
        BY <1>0, <1>1, <2>1, <4>1, <4>2, <4>3
    <3> QED
      BY <3>5, <3>6
  <2> QED
    BY <2>2, <2>3
<1> QED
  BY <1>2, <1>3

\* Of the soft keys a poll reports one at most, alone and steady.
LEMMA PressedAlone ==
    ASSUME NEW p \in PanelRecord, PanelWaits(p), NEW raw \in SUBSET SoftKeys,
           NEW k \in SoftPressed(Debounced(p, raw))
    PROVE  /\ k \in SoftKeys /\ k \notin p.last /\ raw = {k}
           /\ Debounced(p, raw).steady = PollsToSettle
<1> DEFINE d == Debounced(p, raw)
<1>1. DebouncedTo(p, d, raw)
  BY DebounceWaits
<1> HIDE DEF d
<1>2. k \in SoftPressed(d)
  BY DEF d
<1>3. ~(Cardinality(d.stable) > 1) /\ k \in d.stable /\ k \notin d.last
  BY <1>2 DEF SoftPressed, Illegal
<1>4. d.stable # p.stable /\ k \notin p.last
  BY <1>1, <1>3 DEF DebouncedTo, PanelWaits
<1>5. d.stable = raw /\ d.steady = PollsToSettle
  BY <1>1, <1>4 DEF DebouncedTo
<1>6. raw = {k}
  <2> SUFFICES ASSUME NEW m \in raw, m # k PROVE FALSE
    BY <1>3, <1>5
  <2>1. IsFiniteSet(raw) /\ {k, m} \subseteq raw
    BY <1>3, <1>5, PanelAssumption, FS_Subset
  <2>2. IsFiniteSet({k, m}) /\ Cardinality({k, m}) = 2
    <3>1. IsFiniteSet({m}) /\ Cardinality({m}) = 1
      BY FS_Singleton
    <3>2. IsFiniteSet({m} \cup {k}) /\ Cardinality({m} \cup {k}) = Cardinality({m}) + 1
      BY <3>1, FS_AddElement
    <3>3. {m} \cup {k} = {k, m}
      OBVIOUS
    <3> QED
      BY <3>1, <3>2, <3>3
  <2>3. Cardinality({k, m}) <= Cardinality(raw)
    BY <2>1, FS_Subset
  <2>4. Cardinality(raw) \in Nat
    BY <2>1, FS_CardinalityType
  <2> QED
    BY <1>3, <1>5, <2>2, <2>3, <2>4
<1> QED
  BY <1>3, <1>4, <1>5, <1>6 DEF d

LEMMA PanelPolledInv ==
    ASSUME PanelInv, NEW raw \in SUBSET SoftKeys, NEW held \in SUBSET EdgeKeys,
           NEW reversed \in SUBSET Reversals, NEW suppressed \in BOOLEAN,
           panel' = Polled(raw, held, reversed, suppressed), uiPolicy' = uiPolicy
    PROVE  PanelInv'
<1> DEFINE p == Debounced(panel, raw)
           pressed == held \ panel.held
           turned == IF suppressed THEN {} ELSE reversed \ panel.reversed
           reported == {c \in pressed \cup SoftPressed(p) \cup turned : Queued(p, c)}
           reports == [k \in SoftKeys |-> IF k \notin p.stable THEN 0
                                          ELSE IF k \in reported /\ p.reports[k] < 2 THEN p.reports[k] + 1
                                          ELSE p.reports[k]]
           illegal == Illegal(p)
<1>0. panel \in PanelRecord /\ PanelWaits(panel) /\ PanelReports(panel) /\ uiPolicy \in Policy
  BY DEF PanelInv
<1>1. DebouncedTo(panel, p, raw)
  BY <1>0, DebounceWaits
<1>2. \A k \in SoftPressed(p) : k \in SoftKeys /\ k \notin panel.last /\ raw = {k} /\ p.steady = PollsToSettle
  BY <1>0, PressedAlone
<1>3. panel' = [p EXCEPT !.illegal = illegal, !.last = p.stable, !.held = held,
                         !.reversed = reversed, !.out = reported, !.reports = reports]
  BY DEF Polled
<1>4. reported \in SUBSET PanelCodes
  BY <1>2 DEF PanelCodes
<1>5. \A k \in SoftKeys : k \in reported => k \in SoftPressed(p) /\ Queued(p, k)
  BY PanelAssumption
<1>6. p.reports = panel.reports /\ panel.reports \in [SoftKeys -> 0..2]
  BY <1>0, <1>1 DEF DebouncedTo, PanelRecord
<1> DEFINE dStable == p.stable
           was == panel.reports
<1>7. \A k \in SoftKeys : /\ reports[k] \in 0..2 /\ reports[k] <= 1
                          /\ reports[k] = 1 => k \in dStable
  <2> SUFFICES ASSUME NEW k \in SoftKeys
               PROVE  reports[k] \in 0..2 /\ reports[k] <= 1 /\ (reports[k] = 1 => k \in dStable)
    OBVIOUS
  <2>1. was[k] \in 0..2 /\ was[k] <= 1 /\ (was[k] = 1 => k \in panel.last)
    BY <1>0, <1>6 DEF PanelReports
  <2>2. reports[k] = IF k \notin dStable THEN 0
                     ELSE IF k \in reported /\ was[k] < 2 THEN was[k] + 1 ELSE was[k]
    BY <1>6
  <2>3. k \in reported => was[k] = 0
    <3>1. k \in reported => k \notin panel.last
      BY <1>2, <1>5
    <3> HIDE DEF reported
    <3> QED
      BY <2>1, <3>1
  <2> HIDE DEF reported, reports, dStable, was
  <2> QED
    BY <2>1, <2>2, <2>3
<1>8. reports \in [SoftKeys -> 0..2]
  BY <1>7
<1>9. illegal \in BOOLEAN
  BY DEF Illegal
<1> HIDE DEF reported, reports, illegal, p
<1>10. PICK s \in SUBSET SoftKeys, w \in 0..NotWaiting, n \in 0..PollsToSettle :
          p = [panel EXCEPT !.raw = raw, !.stable = s, !.wait = w, !.steady = n]
  BY <1>1 DEF DebouncedTo
<1>11. p \in PanelRecord
  <2> DEFINE W == 0..NotWaiting
             N == 0..PollsToSettle
  <2>1. w \in W /\ n \in N
    OBVIOUS
  <2>2. panel \in [raw : SUBSET SoftKeys, stable : SUBSET SoftKeys, wait : W,
                last : SUBSET SoftKeys, illegal : BOOLEAN,
                held : SUBSET EdgeKeys, reversed : SUBSET Reversals,
                hook : BOOLEAN, onHook : BOOLEAN, guard : BOOLEAN, out : SUBSET PanelCodes,
                reports : [SoftKeys -> 0..2], steady : N]
    BY <1>0 DEF PanelRecord
  <2> DEFINE K == SUBSET SoftKeys
             H == SUBSET EdgeKeys
             V == SUBSET Reversals
             C == SUBSET PanelCodes
             R == [SoftKeys -> 0..2]
             B == BOOLEAN
             Z == [raw : K, stable : K, wait : W, last : K, illegal : B, held : H, reversed : V,
                   hook : B, onHook : B, guard : B, out : C, reports : R, steady : N]
  <2>3. panel \in Z /\ raw \in K /\ s \in K
    BY <2>2
  <2> HIDE DEF W, N, K, H, V, C, R, B
  <2>4. [panel EXCEPT !.raw = raw, !.stable = s, !.wait = w, !.steady = n] \in Z
    BY ONLY <2>1, <2>3, ZenonT(30)
  <2>5. Z = PanelRecord
    BY DEF W, N, K, H, V, C, R, B, PanelRecord
  <2> HIDE DEF Z
  <2> QED
    BY <1>10, <2>4, <2>5
<1>12. /\ panel' \in PanelRecord
       /\ panel'.raw = p.raw /\ panel'.stable = dStable /\ panel'.wait = p.wait /\ panel'.last = dStable
       /\ panel'.steady = p.steady /\ panel'.out = reported /\ panel'.reports = reports
  <2> DEFINE W == 0..NotWaiting
             N == 0..PollsToSettle
             K == SUBSET SoftKeys
             H == SUBSET EdgeKeys
             V == SUBSET Reversals
             C == SUBSET PanelCodes
             R == [SoftKeys -> 0..2]
             B == BOOLEAN
             Z == [raw : K, stable : K, wait : W, last : K, illegal : B, held : H, reversed : V,
                   hook : B, onHook : B, guard : B, out : C, reports : R, steady : N]
  <2>1. Z = PanelRecord
    BY DEF PanelRecord
  <2>2. /\ dStable \in K /\ held \in H /\ reversed \in V /\ reported \in C /\ reports \in R /\ illegal \in B
        /\ p \in Z
    BY <1>1, <1>4, <1>8, <1>9, <1>11, <2>1 DEF DebouncedTo
  <2>3. panel' = [p EXCEPT !.illegal = illegal, !.last = dStable, !.held = held,
                           !.reversed = reversed, !.out = reported, !.reports = reports]
    BY <1>3
  <2> HIDE DEF W, N, K, H, V, C, R, B
  <2>4. panel' \in Z
    BY ONLY <2>2, <2>3, ZenonT(30)
  <2>5. /\ panel'.raw = p.raw /\ panel'.stable = p.stable /\ panel'.wait = p.wait /\ panel'.last = dStable
        /\ panel'.steady = p.steady /\ panel'.out = reported /\ panel'.reports = reports
    <3> HIDE DEF dStable
    <3> QED
      BY ONLY <2>2, <2>3
  <2> QED
    BY <2>1, <2>4, <2>5
<1>13. PanelWaits(panel')
  <2>1. /\ panel'.stable = panel'.last
        /\ panel'.wait # NotWaiting
             => panel'.wait > 0 /\ panel'.wait + (PollPeriod * panel'.steady) = SoftDebounce
    BY <1>1, <1>12 DEF DebouncedTo
  <2> QED
    BY <2>1 DEF PanelWaits
<1>14. PanelReports(panel')
  BY <1>7, <1>12 DEF PanelReports
<1>15. ASSUME NEW k \in SoftKeys
       PROVE  /\ panel'.reports[k] <= 1
              /\ k \in panel'.out => panel'.raw = {k} /\ panel'.steady = PollsToSettle
              /\ k \in panel'.out => ~(uiPolicy.protects /\ uiPolicy.absorbs)
  <2>1. panel'.reports[k] <= 1
    BY <1>7, <1>12
  <2>2. k \in panel'.out => raw = {k} /\ p.steady = PollsToSettle
    BY <1>2, <1>5, <1>12
  <2>3. k \in panel'.out => ~(uiPolicy.protects /\ uiPolicy.absorbs)
    BY <1>5, <1>12 DEF Queued, Absorbed
  <2> QED
    BY <1>1, <1>12, <2>1, <2>2, <2>3 DEF DebouncedTo
<1> QED
  BY <1>0, <1>12, <1>13, <1>14, <1>15 DEF PanelInv, SoftKeysHonest

LEMMA PanelStepInv == PanelInv /\ [PanelEventsNext]_panelEventVars => PanelInv'
<1> SUFFICES ASSUME PanelInv, [PanelEventsNext]_panelEventVars PROVE PanelInv'
  OBVIOUS
<1>1. CASE PanelPollEvents
  BY <1>1, PanelPolledInv DEF PanelPollEvents
<1>2. CASE HookMoves \/ HookRouted
  <2>0. panel \in PanelRecord /\ panel.hook \in BOOLEAN /\ uiPolicy' = uiPolicy
    BY <1>2 DEF PanelInv, PanelRecord, HookMoves, HookRouted
  <2>1. PICK h \in BOOLEAN, o \in BOOLEAN, g \in BOOLEAN :
           panel' = [panel EXCEPT !.hook = h, !.onHook = o, !.guard = g, !.out = {}]
    <3>1. CASE HookMoves
      <4>1. panel' = [panel EXCEPT !.hook = ~panel.hook, !.onHook = panel.onHook, !.guard = TRUE, !.out = {}]
        BY <2>0, <3>1 DEF HookMoves, PanelRecord
      <4>2. panel.onHook \in BOOLEAN /\ (~panel.hook) \in BOOLEAN
        BY <2>0 DEF PanelRecord
      <4> QED
        BY <4>1, <4>2
    <3>2. CASE HookRouted
      <4>1. panel' = [panel EXCEPT !.hook = panel.hook, !.onHook = panel.hook, !.guard = FALSE, !.out = {}]
        BY <2>0, <3>2 DEF HookRouted, PanelRecord
      <4> QED
        BY <2>0, <4>1
    <3> QED
      BY <1>2, <3>1, <3>2
  <2>2. /\ panel' \in PanelRecord
        /\ panel'.raw = panel.raw /\ panel'.stable = panel.stable /\ panel'.wait = panel.wait
        /\ panel'.last = panel.last /\ panel'.steady = panel.steady /\ panel'.out = {}
        /\ panel'.reports = panel.reports
    <3> DEFINE W == 0..NotWaiting
               N == 0..PollsToSettle
               R == [SoftKeys -> 0..2]
               Z == [raw : SUBSET SoftKeys, stable : SUBSET SoftKeys, wait : W,
                last : SUBSET SoftKeys, illegal : BOOLEAN,
                held : SUBSET EdgeKeys, reversed : SUBSET Reversals,
                hook : BOOLEAN, onHook : BOOLEAN, guard : BOOLEAN, out : SUBSET PanelCodes,
                reports : R, steady : N]
    <3>1. Z = PanelRecord
      BY DEF PanelRecord
    <3>2. panel \in Z
      BY <2>0, <3>1
    <3> HIDE DEF W, N, R
    <3> DEFINE K == SUBSET SoftKeys
               H == SUBSET EdgeKeys
               V == SUBSET Reversals
               C == SUBSET PanelCodes
               B == BOOLEAN
    <3>3. panel \in [raw : K, stable : K, wait : W, last : K, illegal : B, held : H, reversed : V,
                     hook : B, onHook : B, guard : B, out : C, reports : R, steady : N]
          /\ {} \in C /\ h \in B /\ o \in B /\ g \in B
      BY <3>2
    <3> HIDE DEF K, H, V, C, B
    <3>4. panel' \in [raw : K, stable : K, wait : W, last : K, illegal : B, held : H, reversed : V,
                      hook : B, onHook : B, guard : B, out : C, reports : R, steady : N]
      BY ONLY <2>1, <3>3, ZenonT(30)
    <3>5. panel' \in Z
      BY <3>4 DEF K, H, V, C, B
    <3>6. /\ panel'.raw = panel.raw /\ panel'.stable = panel.stable /\ panel'.wait = panel.wait
          /\ panel'.last = panel.last /\ panel'.steady = panel.steady /\ panel'.out = {}
          /\ panel'.reports = panel.reports
      BY ONLY <2>1, <3>3, ZenonT(30)
    <3> QED
      BY <3>1, <3>5, <3>6
  <2>3. PanelWaits(panel') /\ PanelReports(panel')
    BY <2>2 DEF PanelInv, PanelWaits, PanelReports
  <2> QED
    BY <2>0, <2>2, <2>3 DEF PanelInv, SoftKeysHonest
<1>3. CASE UNCHANGED panelEventVars
  BY <1>3 DEF panelEventVars, PanelInv, SoftKeysHonest
<1> QED
  BY <1>1, <1>2, <1>3 DEF PanelEventsNext

LEMMA PanelInvImplies == PanelInv => PanelEventsTypeOK /\ SoftKeysHonest
  BY DEF PanelInv, PanelRecord, PanelEventsTypeOK

\* SoftKeysHonest and the types in every reachable state, for every debounce and every period of
\* the poll.
THEOREM SoftKeysCorrect == PanelEventsSpec => [](PanelEventsTypeOK /\ SoftKeysHonest)
  BY PanelInitInv, PanelStepInv, PanelInvImplies, PTL DEF PanelEventsSpec

-------------------------------------------------------------------------------
(* Security inputs.  The debounce's clock is never behind the stretch of equal reads that *)
(* ends now, and no further ahead than it, except over open lines since the reset.        *)

SecurityRecord == [stable : SUBSET SecurityLines, lastRaw : SUBSET SecurityLines,
                   since : 0..DebounceCycles]
Sample == [lines : SUBSET SecurityLines, at : Nat]

\* Reads i to the last saw the same.
SameSince(s, i) == \A k \in i..Len(s) : s[k].lines = s[i].lines
Stretch(s, i) == s[Len(s)].at - s[i].at

SecurityClock(c, s) ==
    /\ s = <<>> => c = SecurityReset
    /\ s # <<>> => c.lastRaw = s[Len(s)].lines
    /\ c.since = DebounceCycles => c.stable = c.lastRaw
    /\ \A i \in 1..Len(s) : SameSince(s, i) /\ c.since < DebounceCycles => Stretch(s, i) <= c.since
    /\ s # <<>> => \/ \A k \in 1..Len(s) : s[k].lines = {}
                   \/ \E i \in 1..Len(s) : SameSince(s, i) /\ Stretch(s, i) >= c.since

SecurityInv == /\ security \in SecurityRecord /\ closed \subseteq SecurityLines
               /\ samples \in Seq(Sample)
               /\ SecurityClock(security, samples)
               /\ LinesSettled

LEMMA SecurityResetInv ==
    ASSUME security = SecurityReset, closed \subseteq SecurityLines, samples = <<>>
    PROVE  SecurityInv
<1>1. security \in SecurityRecord /\ <<>> \in Seq(Sample) /\ Len(samples) = 0
  BY SecurityAssumption DEF SecurityReset, SecurityRecord
<1>2. DOMAIN samples = {} /\ 1..Len(samples) = {}
  BY <1>1
<1>3. SteadyReads = {}
  BY <1>2 DEF SteadyReads
<1>4. security.stable = {} /\ security.lastRaw = {}
  BY DEF SecurityReset
<1> QED
  BY <1>1, <1>2, <1>3, <1>4 DEF SecurityInv, SecurityClock, LinesSettled

LEMMA SecurityReadInv == ASSUME SecurityInv, NEW n \in 1..(DebounceCycles + 1), SecurityRead(n) PROVE SecurityInv'
<1> DEFINE L == Len(samples)
           D == DebounceCycles
           since == Since(n)
           at == Later(n)
           new == [lines |-> closed, at |-> at]
           s == Append(samples, new)
           same == closed = security.lastRaw
           now == IF same THEN since ELSE 0
           stable == IF now >= D THEN closed ELSE security.stable
<1>0. /\ security \in SecurityRecord /\ closed \in SUBSET SecurityLines /\ samples \in Seq(Sample)
      /\ SecurityClock(security, samples) /\ D \in Nat /\ L \in Nat /\ n \in Nat /\ n > 0
      /\ security.since \in 0..D
  BY SecurityAssumption DEF SecurityInv, SecurityRecord
<1>1. since \in 0..D /\ since = (IF security.since + n < D THEN security.since + n ELSE D) /\ now \in 0..D
  BY <1>0 DEF Since
<1>2. \A i \in 1..L : samples[i] \in Sample /\ samples[i].at \in Nat
  <2>1. \A i \in 1..L : samples[i] \in Sample
    <3> HIDE DEF L
    <3>1. L = Len(samples)
      BY DEF L
    <3> QED
      BY <1>0, <3>1, ElementOfSeq
  <2> QED
    BY <2>1 DEF Sample
<1>3. at \in Nat /\ (L > 0 => at = samples[L].at + n)
  <2>1. CASE samples = <<>>
    BY <1>0, <2>1 DEF Later
  <2>2. CASE samples # <<>>
    <3>1. L > 0 /\ L \in 1..L
      BY <1>0, <2>2
    <3> QED
      BY <1>0, <1>2, <2>2, <3>1 DEF Later
  <2> QED
    BY <2>1, <2>2
<1>4. new \in Sample /\ new.lines = closed /\ new.at = at
  BY <1>0, <1>3 DEF Sample
<1>5. samples' = s /\ closed' = closed
  BY DEF SecurityRead
<1>6. s \in Seq(Sample) /\ Len(s) = L + 1 /\ s[L + 1] = new /\ (\A i \in 1..L : s[i] = samples[i])
  <2> HIDE DEF new
  <2> QED
    BY <1>0, <1>4
<1>7. security' = [stable |-> stable, lastRaw |-> closed, since |-> now]
  <2> DEFINE c == [security EXCEPT !.since = since]
             seen == IF closed = c.lastRaw THEN c ELSE [c EXCEPT !.lastRaw = closed, !.since = 0]
  <2>1. security' = IF seen.since >= DebounceCycles THEN [seen EXCEPT !.stable = closed] ELSE seen
    BY DEF SecurityRead, ReadLines
  <2> HIDE DEF since
  <2>2. c = [stable |-> security.stable, lastRaw |-> security.lastRaw, since |-> since]
    BY <1>0 DEF SecurityRecord
  <2>3. seen = [stable |-> security.stable, lastRaw |-> closed, since |-> now]
    <3> HIDE DEF c
    <3> QED
      BY <2>2
  <2> HIDE DEF seen, now
  <2> QED
    BY <2>1, <2>3
<1> HIDE DEF since, at, new, s, now, stable
<1>8. /\ security' \in SecurityRecord /\ security'.lastRaw = closed /\ security'.since = now
      /\ security'.stable = stable
  <2>1. stable \in SUBSET SecurityLines
    BY <1>0 DEF stable, SecurityRecord
  <2> QED
    BY <1>0, <1>1, <1>7, <2>1 DEF SecurityRecord
\* What was the same up to this read, and for how long.
<1>9. ASSUME NEW i \in 1..L
      PROVE  SameSince(s, i) <=> SameSince(samples, i) /\ same
  <2>1. L \in 1..L /\ L > 0 /\ samples # <<>>
    BY <1>0
  <2>2. security.lastRaw = samples[L].lines
    BY <1>0, <2>1 DEF SecurityClock
  <2>3. i..(L + 1) = (i..L) \cup {L + 1} /\ i \in i..L /\ L \in i..L /\ \A k \in i..L : k \in 1..L
    BY <1>0
  <2>4. SameSince(s, i) <=> (\A k \in i..L : samples[k].lines = samples[i].lines) /\ closed = samples[i].lines
    <3>1. s[L + 1].lines = closed
      BY <1>4, <1>6
    <3>2. \A k \in i..L : s[k].lines = samples[k].lines
      BY <1>6, <2>3
    <3>3. SameSince(s, i) <=> \A k \in i..(L + 1) : s[k].lines = s[i].lines
      BY <1>6 DEF SameSince
    <3> QED
      BY <2>3, <3>1, <3>2, <3>3
  <2>5. SameSince(samples, i) <=> \A k \in i..L : samples[k].lines = samples[i].lines
    BY DEF SameSince
  <2> QED
    BY <2>2, <2>3, <2>4, <2>5
<1>10. ASSUME NEW i \in 1..L
       PROVE  /\ Stretch(s, i) = Stretch(samples, i) + n
              /\ Stretch(samples, i) \in Int
  <2>1. L \in 1..L /\ L > 0
    BY <1>0
  <2>2. s[L + 1].at = samples[L].at + n /\ s[i] = samples[i]
    BY <1>3, <1>4, <1>6, <2>1
  <2>3. samples[L].at \in Nat /\ samples[i].at \in Nat
    BY <1>2, <2>1
  <2> DEFINE a == samples[L].at
             b == samples[i].at
  <2>4. Stretch(samples, i) = a - b /\ Stretch(s, i) = (a + n) - b
    BY <1>6, <2>2 DEF Stretch
  <2> HIDE DEF a, b
  <2>5. a \in Nat /\ b \in Nat
    BY <2>3 DEF a, b
  <2> QED
    BY <1>0, <2>4, <2>5
<1>11. SameSince(s, L + 1) /\ Stretch(s, L + 1) = 0
  <2>1. s[L + 1].at \in Nat /\ (L + 1)..(L + 1) = {L + 1}
    BY <1>0, <1>3, <1>4, <1>6
  <2> QED
    BY <1>6, <2>1 DEF SameSince, Stretch
<1>12. \A i \in 1..(L + 1) : i \in 1..L \/ i = L + 1
  BY <1>0
<1>13. ASSUME NEW i \in 1..(L + 1), SameSince(s, i), now < D
       PROVE  Stretch(s, i) <= now
  <2>1. CASE i = L + 1
    BY <1>1, <1>11, <2>1
  <2>2. CASE i # L + 1
    <3>1. i \in 1..L
      BY <1>12, <2>2
    <3>2. SameSince(samples, i) /\ same
      BY <1>9, <1>13, <3>1
    <3>3. now = since
      BY <3>2 DEF now
    <3>4. security.since < D /\ now = security.since + n
      BY <1>0, <1>1, <1>13, <3>3
    <3>5. Stretch(samples, i) <= security.since
      BY <1>0, <3>1, <3>2, <3>4 DEF SecurityClock
    <3> QED
      BY <1>0, <1>10, <3>1, <3>4, <3>5
  <2> QED
    BY <2>1, <2>2
<1>14. \/ \A k \in 1..(L + 1) : s[k].lines = {}
       \/ \E i \in 1..(L + 1) : SameSince(s, i) /\ Stretch(s, i) >= now
  <2>1. CASE ~same
    <3>1. now = 0 /\ L + 1 \in 1..(L + 1)
      BY <1>0, <2>1 DEF now
    <3> QED
      BY <1>11, <3>1
  <2>2. CASE same /\ L = 0
    <3>1. samples = <<>>
      BY <1>0, <2>2
    <3>2. closed = {}
      BY <1>0, <2>2, <3>1 DEF SecurityClock, SecurityReset
    <3> QED
      BY <1>4, <1>6, <1>12, <2>2, <3>2
  <2>3. CASE same /\ L # 0
    <3>1. samples # <<>> /\ L \in 1..L /\ now = since
      BY <1>0, <2>3 DEF now
    <3>2. CASE \A k \in 1..L : samples[k].lines = {}
      <4>1. closed = {}
        BY <1>0, <2>3, <3>1, <3>2 DEF SecurityClock
      <4> QED
        BY <1>4, <1>6, <1>12, <3>2, <4>1
    <3>3. CASE \E i \in 1..L : SameSince(samples, i) /\ Stretch(samples, i) >= security.since
      <4>1. PICK i \in 1..L : SameSince(samples, i) /\ Stretch(samples, i) >= security.since
        BY <3>3
      <4>2. SameSince(s, i) /\ Stretch(s, i) = Stretch(samples, i) + n /\ Stretch(samples, i) \in Int
        BY <1>9, <1>10, <2>3, <4>1
      <4>3. now <= security.since + n
        BY <1>0, <1>1, <3>1
      <4>4. Stretch(s, i) >= now
        BY <1>0, <1>1, <4>1, <4>2, <4>3
      <4>5. i \in 1..(L + 1)
        BY <1>0
      <4> QED
        BY <4>2, <4>4, <4>5
    <3> QED
      BY <1>0, <3>1, <3>2, <3>3 DEF SecurityClock
  <2> QED
    BY <2>1, <2>2, <2>3
<1>15. s # <<>>
  BY <1>0, <1>6
<1>16. now = D => stable = closed
  BY <1>1 DEF stable
<1>17. SecurityClock(security', s)
  BY <1>4, <1>6, <1>8, <1>13, <1>14, <1>15, <1>16 DEF SecurityClock
\* The reads that end a steady stretch: those there were, and perhaps this one.
<1>18. \A j \in 1..L : j \in SteadyReads' <=> j \in SteadyReads
  <2> SUFFICES ASSUME NEW j \in 1..L PROVE j \in SteadyReads' <=> j \in SteadyReads
    OBVIOUS
  <2>1. DOMAIN samples' = 1..(L + 1) /\ DOMAIN samples = 1..L /\ j \in 1..(L + 1)
    BY <1>0, <1>5, <1>6
  <2>2. \A i \in 1..j : \A k \in i..j : k \in 1..L
    BY <1>0
  <2>3. \A i \in 1..j : i \in i..j /\ i \in 1..L
    BY <1>0
  <2>4. \A i \in 1..j : Steady(i, j)' <=> Steady(i, j)
    BY <1>5, <1>6, <2>2, <2>3 DEF Steady
  <2> QED
    BY <2>1, <2>4 DEF SteadyReads
<1>19. SteadyReads' \subseteq 1..(L + 1) /\ SteadyReads \subseteq 1..L
  BY <1>0, <1>5, <1>6 DEF SteadyReads
<1>20. (L + 1 \in SteadyReads') <=> \E i \in 1..(L + 1) : SameSince(s, i) /\ Stretch(s, i) >= D
  <2>1. PICK e \in Nat : e = L + 1
    BY <1>0
  <2>2. DOMAIN samples' = 1..e /\ e \in 1..e /\ Len(s) = e
    BY <1>0, <1>5, <1>6, <2>1
  <2>3. ASSUME NEW i \in 1..e PROVE Steady(i, e)' <=> SameSince(s, i) /\ Stretch(s, i) >= D
    <3>1. Steady(i, e)' <=> (\A k \in i..e : s[k].lines = s[i].lines) /\ s[e].at - s[i].at >= D
      BY <1>5 DEF Steady
    <3>2. SameSince(s, i) <=> \A k \in i..e : s[k].lines = s[i].lines
      BY <2>2 DEF SameSince
    <3>3. Stretch(s, i) = s[e].at - s[i].at
      BY <2>2 DEF Stretch
    <3> QED
      BY <3>1, <3>2, <3>3
  <2>4. e \in SteadyReads' <=> \E i \in 1..e : Steady(i, e)'
    BY <2>2 DEF SteadyReads
  <2> QED
    BY <2>1, <2>3, <2>4
<1>21. LinesSettled'
  <2>1. CASE now = D
    <3>1. security'.stable = closed /\ s[L + 1].lines = closed
      BY <1>4, <1>6, <1>8, <1>16, <2>1
    <3>2. CASE L + 1 \in SteadyReads'
      <4>1. \A j \in SteadyReads' : (\A k \in SteadyReads' : k <= j) => j = L + 1
        <5> SUFFICES ASSUME NEW j \in SteadyReads', L + 1 <= j PROVE j = L + 1
          BY <3>2
        <5>1. j \in 1..(L + 1)
          BY <1>19
        <5> QED
          BY <1>0, <5>1
      <4> QED
        BY <1>5, <3>1, <3>2, <4>1 DEF LinesSettled
    <3>3. CASE L + 1 \notin SteadyReads'
      <4>1. \A k \in 1..(L + 1) : s[k].lines = {}
        BY <1>14, <1>20, <2>1, <3>3
      <4>2. security'.stable = {}
        BY <1>0, <3>1, <4>1
      <4> QED
        BY <1>5, <1>19, <4>1, <4>2 DEF LinesSettled
    <3> QED
      BY <3>2, <3>3
  <2>2. CASE now # D
    <3>1. now < D /\ stable = security.stable
      <4>1. now < D
        BY <1>0, <1>1, <2>2
      <4>2. ~(now >= D)
        BY <1>0, <1>1, <4>1
      <4> QED
        BY <4>1, <4>2 DEF stable
    <3>2. L + 1 \notin SteadyReads'
      <4> SUFFICES ASSUME NEW i \in 1..(L + 1), SameSince(s, i), Stretch(s, i) >= D PROVE FALSE
        BY <1>20
      <4>1. Stretch(s, i) <= now
        BY <1>13, <3>1
      <4>2. Stretch(s, i) \in Int
        BY <1>10, <1>11, <1>12, <1>0
      <4> QED
        BY <1>0, <1>1, <3>1, <4>1, <4>2
    <3>3. SteadyReads' = SteadyReads
      BY <1>12, <1>18, <1>19, <3>2
    <3>4. \A j \in SteadyReads : s[j] = samples[j]
      BY <1>6, <1>19
    <3>5. LinesSettled
      BY DEF SecurityInv
    <3> QED
      BY <1>5, <1>8, <3>1, <3>3, <3>4, <3>5 DEF LinesSettled
  <2> QED
    BY <2>1, <2>2
<1> QED
  BY <1>0, <1>5, <1>6, <1>8, <1>17, <1>21 DEF SecurityInv

LEMMA SecurityStepInv == SecurityInv /\ [SecurityNext]_securityVars => SecurityInv'
<1> SUFFICES ASSUME SecurityInv, [SecurityNext]_securityVars PROVE SecurityInv'
  OBVIOUS
<1>1. CASE \E n \in 1..(DebounceCycles + 1) : SecurityRead(n)
  BY <1>1, SecurityReadInv
<1>2. CASE LinesMove
  BY <1>2 DEF LinesMove, SecurityInv, LinesSettled, SteadyReads, Steady
<1>3. CASE SecurityDeviceReset
  <2>1. security' = SecurityReset /\ closed' = closed /\ samples' = <<>> /\ closed \subseteq SecurityLines
    BY <1>3 DEF SecurityDeviceReset, SecurityInv
  <2>2. security' \in SecurityRecord /\ <<>> \in Seq(Sample) /\ Len(samples') = 0
    BY <2>1, SecurityAssumption DEF SecurityReset, SecurityRecord
  <2>3. DOMAIN samples' = {} /\ 1..Len(samples') = {}
    BY <2>1, <2>2
  <2>4. SteadyReads' = {}
    BY <2>3 DEF SteadyReads
  <2>5. security'.stable = {} /\ security'.lastRaw = {}
    BY <2>1 DEF SecurityReset
  <2> QED
    BY <2>1, <2>2, <2>3, <2>4, <2>5 DEF SecurityInv, SecurityClock, LinesSettled
<1>4. CASE UNCHANGED securityVars
  BY <1>4 DEF securityVars, SecurityInv, LinesSettled, SteadyReads, Steady
<1> QED
  BY <1>1, <1>2, <1>3, <1>4 DEF SecurityNext

LEMMA SecurityInvImplies == SecurityInv => SecurityTypeOK /\ LinesSettled
  BY DEF SecurityInv, SecurityRecord, Sample, SecurityTypeOK

\* LinesSettled and the types in every reachable state, however the lines move between the reads.
THEOREM SecurityCorrect == SecuritySpec => [](SecurityTypeOK /\ LinesSettled)
<1>1. SecurityInit => SecurityInv
  BY SecurityResetInv DEF SecurityInit
<1> QED
  BY <1>1, SecurityInvImplies, SecurityStepInv, PTL DEF SecuritySpec
===============================================================================
