----------------------------- MODULE Swamp_proofs -----------------------------
(***************************************************************************)
(* swamp implements a store of pages (Almacen), with fixed and with        *)
(* dynamic assignment, for any number of processes, files and frames.      *)
(*                                                                         *)
(* The argument rests on three facts, together Inv: a frame is occupied    *)
(* exactly when it has a page, and then it has a process (FramesOK); no    *)
(* page is in two frames (UnFramePorPagina); whoever waits for an answer   *)
(* sent the last request of the socket, and no other answer is unread      *)
(* (TurnoOK).                                                              *)
(***************************************************************************)
EXTENDS Swamp, SequenceTheorems, TLAPS

Registros == [pid : Procesos \cup {Nadie}, pag : Int, ocupado : BOOLEAN]

\* Requests and answers, without the bound on page numbers.
PedidosTipo ==
    [op : {"RESERVAR_ESPACIO"}, pid : Procesos, cant : 1 .. MaxPedido]
    \cup [op : {"TIRAR_A_SWAP"}, pid : Procesos, pag : Nat, dato : Datos]
    \cup [op : {"TRAER_DE_SWAP", "LIBERAR_PAGINA"}, pid : Procesos, pag : Nat]

RespuestasTipo ==
    [op : {"RESERVAR_ESPACIO"}, pid : Procesos, cant : 1 .. MaxPedido, ok : BOOLEAN]
    \cup [op : {"TRAER_DE_SWAP"}, pid : Procesos, pag : Nat, dato : Datos]
    \cup {Nada}

Tipos ==
    /\ marcosMax \in Int
    /\ marco \in [Marcos -> Registros]
    /\ dato \in [Marcos -> Datos]
    /\ canal \in Seq(PedidosTipo)
    /\ respuesta \in RespuestasTipo
    /\ tabla \in [Procesos -> Seq(Nat)]

FrameOK(r) ==
    /\ ~r.ocupado => r.pag = SinPagina
    /\ r.ocupado => r.pag \in Nat /\ r.pid \in Procesos

FramesOK == \A f \in Marcos : FrameOK(marco[f])

SinRepetir(m) ==
    \A f, g \in Marcos :
        /\ m[f].ocupado /\ m[g].ocupado
        /\ m[f].pid = m[g].pid /\ m[f].pag = m[g].pag
        => f = g

UnFramePorPagina == SinRepetir(marco)

\* Frames as the invariant wants them.
Sano(m) ==
    /\ m \in [Marcos -> Registros]
    /\ \A f \in Marcos : FrameOK(m[f])
    /\ SinRepetir(m)

\* The first n of the frames s lists are free, s has no repetition, and the
\* pages p has in m are not above u.
PuedeCrecer(m, q, n, s, p, u) ==
    /\ Sano(m)
    /\ q \in Nat /\ n \in 0 .. q /\ s \in [1 .. q -> Marcos]
    /\ p \in Procesos /\ u \in Int /\ u >= -1
    /\ \A i, j \in 1 .. q : s[i] = s[j] => i = j
    /\ \A i \in 1 .. n : ~m[s[i]].ocupado
    /\ \A f \in Marcos : m[f].ocupado /\ m[f].pid = p => m[f].pag <= u

TurnoOK ==
    \A i \in DOMAIN canal :
        canal[i].op \in PedidosConRespuesta => i = Len(canal) /\ respuesta = Nada

Inv == Tipos /\ FramesOK /\ UnFramePorPagina /\ TurnoOK

\* The store seen through any frames and any disk.
Guardadas(m, d) ==
    { [pid |-> m[f].pid, pag |-> m[f].pag, dato |-> d[f]] : f \in {g \in Marcos : m[g].ocupado} }

\* The page a frame holds.
Entrada(m, d, f) == [pid |-> m[f].pid, pag |-> m[f].pag, dato |-> d[f]]

\* What Liberar and Tirar do to one frame, and ReservarNuevo to the frames s lists.
Vaciado(m, f, p) == [m EXCEPT ![f] = [pid |-> p, pag |-> SinPagina, ocupado |-> FALSE]]
Escrito(d, f, x) == [d EXCEPT ![f] = x]
Tomados(m, q, s, p) ==
    [f \in Marcos |-> IF \E i \in 1 .. q : s[i] = f
                      THEN [m[f] EXCEPT !.pid = p, !.ocupado = FALSE]
                      ELSE m[f]]

-----------------------------------------------------------------------------
\* The list order of the frames has no cycles: a list of frames in order has
\* no repetition.
LEMMA OrdenEstricto ==
    ASSUME NEW S \in SUBSET Marcos, NEW n \in Nat, NEW s, Primeros(s, n, S)
    PROVE  /\ s \in [1 .. n -> S]
           /\ \A i, j \in 1 .. n : s[i] = s[j] => i = j
<1>1. s \in [1 .. n -> S] /\ \A i, j \in 1 .. n : i < j => Antes(s[i], s[j])
  BY DEF Primeros
<1>2. \A f \in Marcos : ~Antes(f, f)
  BY TamaniosAssumption DEF Marcos, Archivos, Antes
<1>3. ASSUME NEW i \in 1 .. n, NEW j \in 1 .. n, s[i] = s[j] PROVE i = j
  <2>1. s[i] \in Marcos
    BY <1>1
  <2>2. ~(i < j) /\ ~(j < i)
    BY <1>1, <1>2, <1>3, <2>1
  <2> QED BY <2>2
<1> QED BY <1>1, <1>3

\* What ConPaginas gives to the frames it lists and leaves to the others.
LEMMA ConPaginasDe ==
    ASSUME NEW m, NEW q \in Nat, NEW n \in 0 .. q, NEW s \in [1 .. q -> Marcos],
           NEW p, NEW u \in Int, \A i, j \in 1 .. q : s[i] = s[j] => i = j,
           NEW c, c = ConPaginas(m, s, n, p, u)
    PROVE  /\ c = [f \in Marcos |-> c[f]]
           /\ \A i \in 1 .. n : c[s[i]] = [pid |-> p, pag |-> u + i, ocupado |-> TRUE]
           /\ \A f \in Marcos : (\A i \in 1 .. n : s[i] # f) => c[f] = m[f]
<1>1. ASSUME NEW i \in 1 .. n
      PROVE  c[s[i]] = [pid |-> p, pag |-> u + i, ocupado |-> TRUE]
  <2>1. s[i] \in Marcos /\ \E j \in 1 .. n : s[j] = s[i]
    OBVIOUS
  <2>2. (CHOOSE j \in 1 .. n : s[j] = s[i]) = i
    OBVIOUS
  <2> QED BY <2>1, <2>2 DEF ConPaginas
<1>2. ASSUME NEW f \in Marcos, \A i \in 1 .. n : s[i] # f
      PROVE  c[f] = m[f]
  BY <1>2 DEF ConPaginas
<1>3. c = [f \in Marcos |-> c[f]]
  BY DEF ConPaginas
<1> QED BY <1>1, <1>2, <1>3

\* New pages in frames that were free: the store grows by them and by nothing
\* else, and no page is repeated if they are above the pages p already had.
LEMMA CrecerGuarda ==
    ASSUME NEW m, NEW d, NEW q, NEW n, NEW s, NEW p, NEW u, PuedeCrecer(m, q, n, s, p, u),
           NEW c, c = ConPaginas(m, s, n, p, u)
    PROVE  /\ Sano(c)
           /\ Guardadas(c, d) = Guardadas(m, d) \cup
                { [pid |-> p, pag |-> u + i, dato |-> d[s[i]]] : i \in 1 .. n }
<1> DEFINE Elegido(f) == \E i \in 1 .. n : s[i] = f
<1>0. /\ m \in [Marcos -> Registros] /\ SinRepetir(m)
      /\ q \in Nat /\ n \in 0 .. q /\ s \in [1 .. q -> Marcos]
      /\ p \in Procesos /\ u \in Int /\ u >= -1
      /\ \A i, j \in 1 .. q : s[i] = s[j] => i = j
      /\ \A i \in 1 .. n : ~m[s[i]].ocupado
      /\ \A f \in Marcos : m[f].ocupado /\ m[f].pid = p => m[f].pag <= u
      /\ \A f \in Marcos : FrameOK(m[f])
  BY DEF PuedeCrecer, Sano
<1> USE <1>0
<1>1. /\ c = [f \in Marcos |-> c[f]]
      /\ \A i \in 1 .. n : c[s[i]] = [pid |-> p, pag |-> u + i, ocupado |-> TRUE]
      /\ \A f \in Marcos : ~Elegido(f) => c[f] = m[f]
  BY ConPaginasDe
<1>2. \A f \in Marcos : m[f] \in Registros /\ m[f].pag \in Int /\ m[f].ocupado \in BOOLEAN
  BY DEF Registros
<1>3. ASSUME NEW f \in Marcos, NEW i \in 1 .. n, s[i] = f
      PROVE  /\ c[f] \in Registros /\ FrameOK(c[f])
             /\ c[f].pid = p /\ c[f].pag = u + i /\ c[f].ocupado = TRUE
             /\ ~m[f].ocupado
  <2>1. c[s[i]] = [pid |-> p, pag |-> u + i, ocupado |-> TRUE] /\ ~m[s[i]].ocupado
    BY <1>1
  <2>2. c[f] = [pid |-> p, pag |-> u + i, ocupado |-> TRUE] /\ ~m[f].ocupado
    BY <2>1, <1>3
  <2>3. u + i \in Nat
    OBVIOUS
  <2> QED BY <2>2, <2>3 DEF Registros, FrameOK, SinPagina
<1>4. ASSUME NEW f \in Marcos PROVE c[f] \in Registros /\ FrameOK(c[f])
  <2>1. CASE Elegido(f)
    <3>1. PICK i \in 1 .. n : s[i] = f
      BY <2>1
    <3> QED BY <1>3, <3>1, Zenon
  <2>2. CASE ~Elegido(f)
    BY <1>1, <1>2, <2>2
  <2> QED BY <2>1, <2>2
<1>5. SinRepetir(c)
  <2> SUFFICES ASSUME NEW f \in Marcos, NEW g \in Marcos, c[f].ocupado, c[g].ocupado,
                      c[f].pid = c[g].pid, c[f].pag = c[g].pag
               PROVE  f = g
    BY DEF SinRepetir
  <2>1. CASE Elegido(f) /\ Elegido(g)
    <3>1. PICK i \in 1 .. n : s[i] = f
      BY <2>1
    <3>2. PICK j \in 1 .. n : s[j] = g
      BY <2>1
    <3>3. c[f].pag = u + i /\ c[g].pag = u + j
      BY <1>3, <3>1, <3>2, Zenon
    <3>4. u + i = u + j
      BY <3>3, Zenon
    <3>5. i = j
      BY <3>4
    <3> QED BY <3>1, <3>2, <3>5
  <2>2. CASE Elegido(f) /\ ~Elegido(g)
    <3>1. PICK i \in 1 .. n : s[i] = f
      BY <2>2
    <3>2. c[f].pid = p /\ c[f].pag = u + i
      BY <1>3, <3>1, Zenon
    <3>3. m[g] = c[g] /\ m[g].ocupado
      BY <1>1, <2>2
    <3>4. m[g].pid = p /\ m[g].pag = u + i
      BY <3>2, <3>3
    <3>5. m[g].pag <= u
      BY <3>3, <3>4
    <3> QED BY <3>4, <3>5
  <2>3. CASE ~Elegido(f) /\ Elegido(g)
    <3>1. PICK i \in 1 .. n : s[i] = g
      BY <2>3
    <3>2. c[g].pid = p /\ c[g].pag = u + i
      BY <1>3, <3>1, Zenon
    <3>3. m[f] = c[f] /\ m[f].ocupado
      BY <1>1, <2>3
    <3>4. m[f].pid = p /\ m[f].pag = u + i
      BY <3>2, <3>3
    <3>5. m[f].pag <= u
      BY <3>3, <3>4
    <3> QED BY <3>4, <3>5
  <2>4. CASE ~Elegido(f) /\ ~Elegido(g)
    BY <1>1, <2>4 DEF SinRepetir
  <2> QED BY <2>1, <2>2, <2>3, <2>4
<1>6. Guardadas(c, d) \subseteq Guardadas(m, d) \cup
          { [pid |-> p, pag |-> u + i, dato |-> d[s[i]]] : i \in 1 .. n }
  <2> SUFFICES ASSUME NEW f \in Marcos, c[f].ocupado
               PROVE  [pid |-> c[f].pid, pag |-> c[f].pag, dato |-> d[f]]
                          \in Guardadas(m, d) \cup
                              { [pid |-> p, pag |-> u + i, dato |-> d[s[i]]] : i \in 1 .. n }
    BY DEF Guardadas
  <2>1. CASE Elegido(f)
    <3>1. PICK i \in 1 .. n : s[i] = f
      BY <2>1
    <3>2. c[f].pid = p /\ c[f].pag = u + i
      BY <1>3, <3>1, Zenon
    <3>3. d[f] = d[s[i]]
      BY <3>1
    <3> QED BY <3>2, <3>3
  <2>2. CASE ~Elegido(f)
    BY <1>1, <2>2 DEF Guardadas
  <2> QED BY <2>1, <2>2
<1>7. Guardadas(m, d) \subseteq Guardadas(c, d)
  <2> SUFFICES ASSUME NEW f \in Marcos, m[f].ocupado
               PROVE  [pid |-> m[f].pid, pag |-> m[f].pag, dato |-> d[f]] \in Guardadas(c, d)
    BY DEF Guardadas
  <2>1. ~Elegido(f)
    OBVIOUS
  <2> QED BY <1>1, <2>1 DEF Guardadas
<1>8. { [pid |-> p, pag |-> u + i, dato |-> d[s[i]]] : i \in 1 .. n } \subseteq Guardadas(c, d)
  <2> SUFFICES ASSUME NEW i \in 1 .. n
               PROVE  [pid |-> p, pag |-> u + i, dato |-> d[s[i]]] \in Guardadas(c, d)
    OBVIOUS
  <2>1. s[i] \in Marcos /\ c[s[i]] = [pid |-> p, pag |-> u + i, ocupado |-> TRUE]
    BY <1>1
  <2> QED BY <2>1 DEF Guardadas
<1> QED BY <1>1, <1>4, <1>5, <1>6, <1>7, <1>8 DEF Sano

-----------------------------------------------------------------------------
\* Changing one occupied frame, or emptying it.

LEMMA CambiarDato ==
    ASSUME NEW m \in [Marcos -> Registros], SinRepetir(m),
           NEW d \in [Marcos -> Datos], NEW f \in Marcos, m[f].ocupado, NEW x \in Datos,
           NEW d2, d2 = Escrito(d, f, x), NEW e, e = Entrada(m, d, f)
    PROVE  /\ e \in Guardadas(m, d)
           /\ Guardadas(m, d2) = (Guardadas(m, d) \ {e}) \cup {[e EXCEPT !.dato = x]}
<1> USE DEF Entrada
<1> DEFINE E(g) == [pid |-> m[g].pid, pag |-> m[g].pag, dato |-> d[g]]
           E2(g) == [pid |-> m[g].pid, pag |-> m[g].pag, dato |-> d2[g]]
<1>1. d2[f] = x /\ \A g \in Marcos : g # f => d2[g] = d[g]
  BY DEF Escrito
<1>2. E2(f) = [e EXCEPT !.dato = x]
  BY <1>1
<1>3. \A g \in Marcos : g # f => E2(g) = E(g)
  BY <1>1
<1>4. \A g \in Marcos : g # f /\ m[g].ocupado => E(g) # e
  BY DEF SinRepetir
<1>5. e \in Guardadas(m, d)
  BY DEF Guardadas
<1>6. Guardadas(m, d2) \subseteq (Guardadas(m, d) \ {e}) \cup {[e EXCEPT !.dato = x]}
  <2>1. PICK S : S = (Guardadas(m, d) \ {e}) \cup {[e EXCEPT !.dato = x]}
    OBVIOUS
  <2>2. ASSUME NEW g \in Marcos, m[g].ocupado PROVE E2(g) \in S
    <3>1. E(g) \in Guardadas(m, d)
      BY <2>2 DEF Guardadas
    <3>2. g = f \/ (E2(g) = E(g) /\ E(g) # e)
      BY <1>3, <1>4, <2>2
    <3> QED BY <1>2, <2>1, <3>1, <3>2
  <2>3. Guardadas(m, d2) \subseteq S
    BY <2>2 DEF Guardadas
  <2> QED BY <2>1, <2>3
<1>7. (Guardadas(m, d) \ {e}) \cup {[e EXCEPT !.dato = x]} \subseteq Guardadas(m, d2)
  <2>1. E2(f) \in Guardadas(m, d2)
    BY DEF Guardadas
  <2>2. ASSUME NEW g \in Marcos, m[g].ocupado, E(g) # e
        PROVE  E(g) \in Guardadas(m, d2)
    <3>1. g # f
      BY <2>2
    <3>2. E2(g) \in Guardadas(m, d2)
      BY <2>2 DEF Guardadas
    <3> QED BY <1>3, <3>1, <3>2
  <2>3. Guardadas(m, d) \ {e} \subseteq Guardadas(m, d2)
    BY <2>2 DEF Guardadas
  <2> QED BY <1>2, <2>1, <2>3
<1> QED BY <1>5, <1>6, <1>7

LEMMA VaciarFrame ==
    ASSUME NEW m, Sano(m),
           NEW d, NEW f \in Marcos, m[f].ocupado, NEW q \in Procesos \cup {Nadie},
           NEW c, c = Vaciado(m, f, q), NEW e, e = Entrada(m, d, f)
    PROVE  /\ Sano(c)
           /\ e \in Guardadas(m, d)
           /\ Guardadas(c, d) = Guardadas(m, d) \ {e}
<1> DEFINE E(g) == [pid |-> m[g].pid, pag |-> m[g].pag, dato |-> d[g]]
<1>0. m \in [Marcos -> Registros] /\ SinRepetir(m) /\ \A g \in Marcos : FrameOK(m[g])
  BY DEF Sano
<1> USE <1>0
<1>1. /\ c[f] = [pid |-> q, pag |-> SinPagina, ocupado |-> FALSE]
      /\ \A g \in Marcos : g # f => c[g] = m[g]
  BY DEF Vaciado
<1>2. c[f] \in Registros /\ FrameOK(c[f]) /\ ~c[f].ocupado
  BY <1>1 DEF Registros, FrameOK, SinPagina
<1>3. c \in [Marcos -> Registros]
  BY <1>2 DEF Registros, Vaciado
<1>4. \A g \in Marcos : FrameOK(c[g])
  BY <1>1, <1>2
<1>5. SinRepetir(c)
  BY <1>1, <1>2 DEF SinRepetir
<1>6. \A g \in Marcos : c[g].ocupado <=> m[g].ocupado /\ g # f
  BY <1>1, <1>2
<1>7. \A g \in Marcos : g # f /\ m[g].ocupado => E(g) # E(f)
  BY DEF SinRepetir
<1>8. Guardadas(c, d) \subseteq Guardadas(m, d) \ {E(f)}
  <2> SUFFICES ASSUME NEW g \in Marcos, c[g].ocupado
               PROVE  [pid |-> c[g].pid, pag |-> c[g].pag, dato |-> d[g]]
                          \in Guardadas(m, d) \ {E(f)}
    BY DEF Guardadas
  <2>1. g # f /\ m[g].ocupado /\ c[g] = m[g]
    BY <1>1, <1>6
  <2>2. E(g) \in Guardadas(m, d)
    BY <2>1 DEF Guardadas
  <2> QED BY <1>7, <2>1, <2>2
<1>9. Guardadas(m, d) \ {E(f)} \subseteq Guardadas(c, d)
  <2>1. ASSUME NEW g \in Marcos, m[g].ocupado, E(g) # E(f)
        PROVE  E(g) \in Guardadas(c, d)
    <3>1. g # f
      BY <2>1
    <3>2. c[g].ocupado /\ c[g] = m[g]
      BY <1>1, <2>1, <3>1
    <3> QED BY <3>2 DEF Guardadas
  <2> QED BY <2>1 DEF Guardadas
<1>10. E(f) \in Guardadas(m, d)
  BY DEF Guardadas
<1> QED BY <1>3, <1>4, <1>5, <1>8, <1>9, <1>10 DEF Sano, Entrada

-----------------------------------------------------------------------------
\* The socket.

LEMMA EnviarTurno ==
    ASSUME Inv, NEW r \in PedidosTipo, Enviar(r), respuesta' = respuesta
    PROVE  canal' \in Seq(PedidosTipo) /\ TurnoOK'
<1>1. /\ canal \in Seq(PedidosTipo) /\ canal' = Append(canal, r)
      /\ respuesta = Nada /\ \A i \in DOMAIN canal : canal[i].op \notin PedidosConRespuesta
  BY DEF Inv, Tipos, Enviar, Esperando
<1>2. /\ canal' \in Seq(PedidosTipo) /\ Len(canal') = Len(canal) + 1
      /\ \A i \in 1 .. Len(canal) : canal'[i] = canal[i]
  BY <1>1
<1>3. DOMAIN canal' = 1 .. Len(canal) + 1 /\ DOMAIN canal = 1 .. Len(canal) /\ Len(canal) \in Nat
  BY <1>1, <1>2
<1>4. \A i \in DOMAIN canal' : i # Len(canal') => i \in DOMAIN canal /\ canal'[i] = canal[i]
  BY <1>2, <1>3
<1> QED BY <1>1, <1>2, <1>4 DEF TurnoOK

LEMMA AtenderTurno ==
    ASSUME Inv, canal # <<>>, canal' = Tail(canal),
           Head(canal).op \notin PedidosConRespuesta => respuesta' = respuesta
    PROVE  /\ Head(canal) \in PedidosTipo
           /\ canal' \in Seq(PedidosTipo)
           /\ Head(canal).op \in PedidosConRespuesta => respuesta = Nada
           /\ TurnoOK'
<1>1. canal \in Seq(PedidosTipo) /\ TurnoOK
  BY DEF Inv, Tipos
<1>2. /\ Len(canal) \in Nat \ {0} /\ DOMAIN canal = 1 .. Len(canal)
      /\ canal' \in Seq(PedidosTipo) /\ Len(canal') = Len(canal) - 1
      /\ \A i \in 1 .. Len(canal) - 1 : canal'[i] = canal[i + 1]
      /\ Head(canal) = canal[1]
      /\ Head(canal) \in PedidosTipo
  BY <1>1
<1>3. Head(canal).op \in PedidosConRespuesta => respuesta = Nada /\ Len(canal) = 1
  BY <1>1, <1>2 DEF TurnoOK
<1>4. ASSUME NEW i \in DOMAIN canal', canal'[i].op \in PedidosConRespuesta
      PROVE  i = Len(canal') /\ respuesta' = Nada
  <2>1. i \in 1 .. Len(canal) - 1 /\ i + 1 \in DOMAIN canal /\ canal'[i] = canal[i + 1]
    BY <1>2
  <2>2. i + 1 = Len(canal) /\ respuesta = Nada
    BY <1>1, <1>4, <2>1 DEF TurnoOK
  <2>3. Head(canal).op \notin PedidosConRespuesta
    BY <1>2, <1>3, <2>1
  <2> QED BY <1>2, <2>1, <2>2, <2>3
<1> QED BY <1>2, <1>3, <1>4 DEF TurnoOK

\* The fields of a request, by its operation.
LEMMA CamposDelPedido ==
    ASSUME NEW r \in PedidosTipo
    PROVE  /\ r.pid \in Procesos
           /\ r.op = "RESERVAR_ESPACIO" => r.cant \in 1 .. MaxPedido
           /\ r.op # "RESERVAR_ESPACIO" => r.pag \in Nat
           /\ r.op = "TIRAR_A_SWAP" => r.dato \in Datos
BY DEF PedidosTipo

-----------------------------------------------------------------------------
\* What each step must do: keep the invariant, and look like a step of the
\* store or like nothing.

Paso == A!Next \/ UNCHANGED <<PaginasGuardadas, respuesta>>

LEMMA VistaGuardadas == PaginasGuardadas = Guardadas(marco, dato)
BY DEF PaginasGuardadas, Guardadas

LEMMA VistaGuardadasPrima ==
    ASSUME NEW m, NEW d, marco' = m, dato' = d
    PROVE  PaginasGuardadas' = Guardadas(m, d)
BY DEF PaginasGuardadas, Guardadas

\* Steps of memoria leave the frames alone.
LEMMA MemoriaNoToca ==
    ASSUME Inv, UNCHANGED <<marcosMax, discos>>
    PROVE  /\ marcosMax' \in Int
           /\ marco' \in [Marcos -> Registros] /\ dato' \in [Marcos -> Datos]
           /\ FramesOK' /\ UnFramePorPagina'
           /\ PaginasGuardadas' = PaginasGuardadas
BY DEF Inv, Tipos, FramesOK, UnFramePorPagina, SinRepetir, PaginasGuardadas, discos

LEMMA RemoveAtNat ==
    ASSUME NEW l \in Seq(Nat), NEW i \in 1 .. Len(l)
    PROVE  RemoveAt(l, i) \in Seq(Nat)
<1>1. Len(l) \in Nat /\ i \in 1 .. Len(l)
  BY LenProperties
<1>2. SubSeq(l, 1, i - 1) \in Seq(Nat)
  BY <1>1, SubSeqProperties
<1>3. SubSeq(l, i + 1, Len(l)) \in Seq(Nat)
  BY <1>1, SubSeqProperties
<1> QED BY <1>2, <1>3, ConcatProperties DEF RemoveAt

LEMMA PedirReservaPreserva ==
    ASSUME Inv, NEW p \in Procesos, NEW n \in 1 .. MaxPedido, PedirReserva(p, n)
    PROVE  Inv' /\ Paso
<1>1. [op |-> "RESERVAR_ESPACIO", pid |-> p, cant |-> n] \in PedidosTipo
  BY DEF PedidosTipo
<1>2. /\ Enviar([op |-> "RESERVAR_ESPACIO", pid |-> p, cant |-> n])
      /\ UNCHANGED <<marcosMax, discos, respuesta, tabla>>
  BY DEF PedirReserva
<1>3. canal' \in Seq(PedidosTipo) /\ TurnoOK'
  BY <1>1, <1>2, EnviarTurno
<1> QED BY <1>2, <1>3, MemoriaNoToca DEF Inv, Tipos, Paso

LEMMA PedirLiberarPreserva ==
    ASSUME Inv, NEW p \in Procesos, NEW i, PedirLiberar(p, i)
    PROVE  Inv' /\ Paso
<1>1. tabla \in [Procesos -> Seq(Nat)] /\ tabla[p] \in Seq(Nat) /\ i \in 1 .. Len(tabla[p])
  BY DEF Inv, Tipos, PedirLiberar
<1>2. tabla[p][i] \in Nat /\ RemoveAt(tabla[p], i) \in Seq(Nat)
  BY <1>1, RemoveAtNat
<1>3. [op |-> "LIBERAR_PAGINA", pid |-> p, pag |-> tabla[p][i]] \in PedidosTipo
  BY <1>2 DEF PedidosTipo
<1>4. /\ Enviar([op |-> "LIBERAR_PAGINA", pid |-> p, pag |-> tabla[p][i]])
      /\ tabla' = [tabla EXCEPT ![p] = RemoveAt(tabla[p], i)]
      /\ UNCHANGED <<marcosMax, discos, respuesta>>
  BY DEF PedirLiberar
<1>5. canal' \in Seq(PedidosTipo) /\ TurnoOK'
  BY <1>3, <1>4, EnviarTurno
<1>6. tabla' \in [Procesos -> Seq(Nat)]
  BY <1>1, <1>2, <1>4
<1> QED BY <1>4, <1>5, <1>6, MemoriaNoToca DEF Inv, Tipos, Paso

LEMMA PedirTirarPreserva ==
    ASSUME Inv, NEW p \in Procesos, NEW i, NEW d \in Datos, PedirTirar(p, i, d)
    PROVE  Inv' /\ Paso
<1>1. tabla[p] \in Seq(Nat) /\ i \in DOMAIN tabla[p]
  BY DEF Inv, Tipos, PedirTirar
<1>2. tabla[p][i] \in Nat
  BY <1>1
<1>3. [op |-> "TIRAR_A_SWAP", pid |-> p, pag |-> tabla[p][i], dato |-> d] \in PedidosTipo
  BY <1>2 DEF PedidosTipo
<1>4. /\ Enviar([op |-> "TIRAR_A_SWAP", pid |-> p, pag |-> tabla[p][i], dato |-> d])
      /\ UNCHANGED <<marcosMax, discos, respuesta, tabla>>
  BY DEF PedirTirar
<1>5. canal' \in Seq(PedidosTipo) /\ TurnoOK'
  BY <1>3, <1>4, EnviarTurno
<1> QED BY <1>4, <1>5, MemoriaNoToca DEF Inv, Tipos, Paso

LEMMA PedirTraerPreserva ==
    ASSUME Inv, NEW p \in Procesos, NEW i, PedirTraer(p, i)
    PROVE  Inv' /\ Paso
<1>1. tabla[p] \in Seq(Nat) /\ i \in DOMAIN tabla[p]
  BY DEF Inv, Tipos, PedirTraer
<1>2. tabla[p][i] \in Nat
  BY <1>1
<1>3. [op |-> "TRAER_DE_SWAP", pid |-> p, pag |-> tabla[p][i]] \in PedidosTipo
  BY <1>2 DEF PedidosTipo
<1>4. /\ Enviar([op |-> "TRAER_DE_SWAP", pid |-> p, pag |-> tabla[p][i]])
      /\ UNCHANGED <<marcosMax, discos, respuesta, tabla>>
  BY DEF PedirTraer
<1>5. canal' \in Seq(PedidosTipo) /\ TurnoOK'
  BY <1>3, <1>4, EnviarTurno
<1> QED BY <1>4, <1>5, MemoriaNoToca DEF Inv, Tipos, Paso

\* Reading an answer empties its place.
LEMMA LeerTurno ==
    ASSUME Inv, respuesta # Nada, respuesta' = Nada, UNCHANGED canal,
           PaginasGuardadas' = PaginasGuardadas
    PROVE  TurnoOK' /\ respuesta' \in RespuestasTipo /\ Paso
<1>1. TurnoOK'
  BY DEF Inv, TurnoOK
<1>2. A!Leer
  BY DEF A!Leer, A!Nada, Nada
<1> QED BY <1>1, <1>2 DEF Paso, A!Next, RespuestasTipo

LEMMA LeerReservaPreserva ==
    ASSUME Inv, LeerReserva
    PROVE  Inv' /\ Paso
<1> DEFINE p == respuesta.pid
           k == PrimeraNueva(p)
           nuevas == [i \in 1 .. respuesta.cant |-> k + i - 1]
<1>1. /\ respuesta.op = "RESERVAR_ESPACIO" /\ respuesta' = Nada
      /\ UNCHANGED <<marcosMax, discos, canal>>
      /\ tabla' = [tabla EXCEPT ![p] = tabla[p] \o nuevas] \/ tabla' = tabla
  BY DEF LeerReserva
<1>2. respuesta # Nada /\ p \in Procesos /\ respuesta.cant \in Nat
  BY <1>1 DEF Inv, Tipos, RespuestasTipo, Nada
<1>3. tabla \in [Procesos -> Seq(Nat)] /\ tabla[p] \in Seq(Nat)
  BY <1>2 DEF Inv, Tipos
<1>4. k \in Nat
  <2>1. CASE tabla[p] = <<>>
    BY <2>1 DEF PrimeraNueva
  <2>2. CASE tabla[p] # <<>>
    <3>1. Len(tabla[p]) \in 1 .. Len(tabla[p])
      BY <1>3, <2>2
    <3>2. Last(tabla[p]) \in Nat
      BY <1>3, <3>1 DEF Last
    <3> QED BY <2>2, <3>2 DEF PrimeraNueva
  <2> QED BY <2>1, <2>2
<1>5. nuevas \in Seq(Nat)
  <2> HIDE DEF k
  <2>1. \A i \in 1 .. respuesta.cant : k + i - 1 \in Nat
    BY <1>2, <1>4
  <2> QED BY <1>2, <2>1
<1>6. tabla[p] \o nuevas \in Seq(Nat)
  BY <1>3, <1>5, ConcatProperties
<1>7. tabla' \in [Procesos -> Seq(Nat)]
  BY <1>1, <1>3, <1>6
<1>8. PaginasGuardadas' = PaginasGuardadas
  BY <1>1, MemoriaNoToca
<1>9. TurnoOK' /\ respuesta' \in RespuestasTipo /\ Paso
  BY <1>1, <1>2, <1>8, LeerTurno
<1> QED BY <1>1, <1>7, <1>9, MemoriaNoToca DEF Inv, Tipos

LEMMA LeerPaginaPreserva ==
    ASSUME Inv, LeerPagina
    PROVE  Inv' /\ Paso
<1>1. /\ respuesta.op = "TRAER_DE_SWAP" /\ respuesta' = Nada
      /\ UNCHANGED <<marcosMax, discos, canal, tabla>>
  BY DEF LeerPagina
<1>2. respuesta # Nada
  BY <1>1 DEF Nada
<1>3. PaginasGuardadas' = PaginasGuardadas
  BY <1>1, MemoriaNoToca
<1>4. TurnoOK' /\ respuesta' \in RespuestasTipo /\ Paso
  BY <1>1, <1>2, <1>3, LeerTurno
<1> QED BY <1>1, <1>4, MemoriaNoToca DEF Inv, Tipos

-----------------------------------------------------------------------------
\* Requests with an answer.

\* The pages the store gives to a process are those of its assigned frames.
LEMMA PaginasDelProceso ==
    ASSUME Inv, NEW p \in Procesos
    PROVE  /\ A!PaginasDe(p) = {marco[f].pag : f \in Asignados(p)}
           /\ \A f \in Marcos : marco[f].ocupado /\ marco[f].pid = p => f \in Asignados(p)
<1>1. \A f \in Marcos : f \in Asignados(p) <=> marco[f].ocupado /\ marco[f].pid = p
  BY DEF Inv, FramesOK, FrameOK, Asignados, FramesDelProceso, SinPagina
<1>2. A!PaginasDe(p) \subseteq {marco[f].pag : f \in Asignados(p)}
  BY <1>1 DEF A!PaginasDe, PaginasGuardadas
<1>3. ASSUME NEW f \in Asignados(p) PROVE marco[f].pag \in A!PaginasDe(p)
  <2>1. f \in Marcos /\ marco[f].ocupado /\ marco[f].pid = p
    BY <1>1 DEF Asignados, FramesDelProceso
  <2>2. [pid |-> marco[f].pid, pag |-> marco[f].pag, dato |-> dato[f]] \in PaginasGuardadas
    BY <2>1 DEF PaginasGuardadas
  <2> QED BY <2>1, <2>2 DEF A!PaginasDe
<1> QED BY <1>1, <1>2, <1>3

\* New pages of a process, numbered from u + 1, in the frames s lists.
LEMMA ReservarEsReservar ==
    ASSUME Inv, NEW p \in Procesos, NEW n \in 1 .. MaxPedido,
           NEW q \in Nat, n <= q, NEW s \in [1 .. q -> Marcos],
           NEW u \in A!PaginasDe(p) \cup {-1}, A!Ultima(p, u),
           PaginasGuardadas' = PaginasGuardadas \cup
               { [pid |-> p, pag |-> u + i, dato |-> dato[s[i]]] : i \in 1 .. n },
           respuesta = Nada,
           respuesta' = [op |-> "RESERVAR_ESPACIO", pid |-> p, cant |-> n, ok |-> TRUE]
    PROVE  Paso
<1> DEFINE d == [i \in 1 .. n |-> dato[s[i]]]
<1>1. d \in [1 .. n -> Datos]
  BY DEF Inv, Tipos
<1>2. \A i \in 1 .. n : d[i] = dato[s[i]]
  OBVIOUS
<1>3. PaginasGuardadas' = PaginasGuardadas \cup
          { [pid |-> p, pag |-> u + i, dato |-> d[i]] : i \in 1 .. n }
  BY <1>2
<1> HIDE DEF d
<1>4. A!Reservar(p, n)
  BY <1>1, <1>3 DEF A!Reservar, A!Nada, Nada, A!RespuestaReserva
<1> QED BY <1>4 DEF Paso, A!Next

\* The turn, the answer and the memoria side of any request swamp serves.
LEMMA Servido ==
    ASSUME Inv, NEW op, NEW a, Pedido(op), Atendido(a),
           op \in PedidosConRespuesta \/ a = respuesta
    PROVE  /\ Head(canal) \in PedidosTipo /\ Head(canal).op = op
           /\ op \in PedidosConRespuesta => respuesta = Nada
           /\ canal' \in Seq(PedidosTipo) /\ TurnoOK'
           /\ respuesta' = a /\ marcosMax' \in Int /\ tabla' \in [Procesos -> Seq(Nat)]
<1>1. canal # <<>> /\ Head(canal).op = op /\ canal' = Tail(canal) /\ respuesta' = a
  BY DEF Pedido, Atendido
<1>2. Head(canal).op \notin PedidosConRespuesta => respuesta' = respuesta
  BY <1>1
<1>3. marcosMax' = marcosMax /\ tabla' = tabla
  BY DEF Atendido
<1> QED BY <1>1, <1>2, <1>3, AtenderTurno DEF Inv, Tipos

LEMMA ReservaAceptadaTipo ==
    ASSUME NEW r \in PedidosTipo, r.op = "RESERVAR_ESPACIO"
    PROVE  /\ ReservaAceptada(r)
                  = [op |-> "RESERVAR_ESPACIO", pid |-> r.pid, cant |-> r.cant, ok |-> TRUE]
           /\ ReservaRechazada(r)
                  = [op |-> "RESERVAR_ESPACIO", pid |-> r.pid, cant |-> r.cant, ok |-> FALSE]
           /\ ReservaAceptada(r) \in RespuestasTipo /\ ReservaRechazada(r) \in RespuestasTipo
BY CamposDelPedido DEF ReservaAceptada, ReservaRechazada, RespuestasTipo

\* Both cases of reservar_espacio end this way: r.cant pages, numbered from
\* u + 1, in frames that were free.  t is marco, or marco once the process has
\* taken the frames of its fixed assignment.
LEMMA ReservaHecha ==
    ASSUME Inv, NEW r \in PedidosTipo, r.op = "RESERVAR_ESPACIO", r.pid \in Procesos,
           r.cant \in 1 .. MaxPedido, respuesta = Nada, respuesta' = ReservaAceptada(r),
           NEW t, Guardadas(t, dato) = Guardadas(marco, dato),
           NEW q, NEW s, NEW u, PuedeCrecer(t, q, r.cant, s, r.pid, u),
           u \in A!PaginasDe(r.pid) \cup {-1}, A!Ultima(r.pid, u),
           marco' = ConPaginas(t, s, r.cant, r.pid, u), dato' = dato
    PROVE  Sano(marco') /\ respuesta' \in RespuestasTipo /\ dato' \in [Marcos -> Datos] /\ Paso
<1>1. /\ Sano(marco')
      /\ Guardadas(marco', dato) = Guardadas(t, dato) \cup
             { [pid |-> r.pid, pag |-> u + i, dato |-> dato[s[i]]] : i \in 1 .. r.cant }
  BY CrecerGuarda
<1>2. PaginasGuardadas' = PaginasGuardadas \cup
          { [pid |-> r.pid, pag |-> u + i, dato |-> dato[s[i]]] : i \in 1 .. r.cant }
  BY <1>1, VistaGuardadas, VistaGuardadasPrima
<1>3. /\ respuesta' = [op |-> "RESERVAR_ESPACIO", pid |-> r.pid, cant |-> r.cant, ok |-> TRUE]
      /\ respuesta' \in RespuestasTipo
  BY ReservaAceptadaTipo
<1>4. q \in Nat /\ r.cant <= q /\ s \in [1 .. q -> Marcos]
  BY DEF PuedeCrecer
<1>5. Paso
  BY <1>2, <1>3, <1>4, ReservarEsReservar
<1> QED BY <1>1, <1>3, <1>5 DEF Inv, Tipos

LEMMA InvSano ==
    ASSUME Inv
    PROVE  Sano(marco)
BY DEF Inv, Tipos, FramesOK, UnFramePorPagina, Sano

LEMMA SanoInv ==
    ASSUME Sano(marco'), dato' \in [Marcos -> Datos], respuesta' \in RespuestasTipo, TurnoOK',
           canal' \in Seq(PedidosTipo), marcosMax' \in Int, tabla' \in [Procesos -> Seq(Nat)]
    PROVE  Inv'
BY DEF Inv, Tipos, FramesOK, UnFramePorPagina, Sano

LEMMA ReservarExistentePreserva ==
    ASSUME Inv, ReservarExistente
    PROVE  Inv' /\ Paso
<1>0. PICK r : r = Head(canal)
  OBVIOUS
<1>1. Pedido("RESERVAR_ESPACIO") /\ Atendido(ReservaAceptada(r)) /\ dato' = dato
  BY <1>0 DEF ReservarExistente
<1>2. /\ r \in PedidosTipo /\ r.op = "RESERVAR_ESPACIO" /\ respuesta = Nada
      /\ canal' \in Seq(PedidosTipo) /\ TurnoOK'
      /\ respuesta' = ReservaAceptada(r) /\ marcosMax' \in Int
      /\ tabla' \in [Procesos -> Seq(Nat)]
  BY <1>0, <1>1, Servido DEF PedidosConRespuesta
<1>3. r.pid \in Procesos /\ r.cant \in 1 .. MaxPedido
  BY <1>2, CamposDelPedido
<1>4. PICK f, u, s :
          /\ u \in 0 .. MaxPagina /\ s \in [1 .. r.cant -> FramesParaCrecer(f[1], r.pid)]
          /\ UltimaPagina(r.pid, u)
          /\ Primeros(s, r.cant, FramesParaCrecer(f[1], r.pid))
          /\ marco' = ConPaginas(marco, s, r.cant, r.pid, u)
  BY <1>0 DEF ReservarExistente
<1>5. /\ FramesParaCrecer(f[1], r.pid) \in SUBSET Marcos
      /\ \A g \in FramesParaCrecer(f[1], r.pid) : ~marco[g].ocupado
  BY DEF FramesParaCrecer, FramesLibresDelProceso, FramesLibresDelArchivo
<1>6. r.cant \in Nat /\ r.cant \in 0 .. r.cant /\ u \in Int /\ u >= -1
  BY <1>3, <1>4, TamaniosAssumption
<1>7. /\ s \in [1 .. r.cant -> Marcos]
      /\ \A i \in 1 .. r.cant : ~marco[s[i]].ocupado
      /\ \A i, j \in 1 .. r.cant : s[i] = s[j] => i = j
  BY <1>4, <1>5, <1>6, OrdenEstricto
<1>8. /\ \A g \in Asignados(r.pid) : marco[g].pag <= u
      /\ u \in {marco[g].pag : g \in Asignados(r.pid)}
  BY <1>4 DEF UltimaPagina
<1>9. \A g \in Marcos : marco[g].ocupado /\ marco[g].pid = r.pid => marco[g].pag <= u
  BY <1>3, <1>8, PaginasDelProceso
<1>10. PuedeCrecer(marco, r.cant, r.cant, s, r.pid, u)
  BY <1>3, <1>6, <1>7, <1>9, InvSano DEF PuedeCrecer
<1>11. A!Ultima(r.pid, u) /\ u \in A!PaginasDe(r.pid) \cup {-1}
  BY <1>3, <1>8, PaginasDelProceso DEF A!Ultima
<1>12. Sano(marco') /\ respuesta' \in RespuestasTipo /\ dato' \in [Marcos -> Datos] /\ Paso
  BY <1>1, <1>2, <1>3, <1>4, <1>10, <1>11, ReservaHecha
<1> QED BY <1>2, <1>12, SanoInv

\* The store depends on the occupied frames alone.
LEMMA MismaVista ==
    ASSUME NEW m, NEW t, NEW d, \A f \in Marcos : t[f].ocupado <=> m[f].ocupado,
           \A f \in Marcos : m[f].ocupado => t[f] = m[f]
    PROVE  Guardadas(t, d) = Guardadas(m, d)
<1>1. \A f \in Marcos : t[f].ocupado => Entrada(t, d, f) = Entrada(m, d, f)
  BY DEF Entrada
<1>2. {f \in Marcos : t[f].ocupado} = {f \in Marcos : m[f].ocupado}
  OBVIOUS
<1>3. /\ Guardadas(t, d) = {Entrada(t, d, f) : f \in {g \in Marcos : t[g].ocupado}}
      /\ Guardadas(m, d) = {Entrada(m, d, f) : f \in {g \in Marcos : m[g].ocupado}}
  BY DEF Guardadas, Entrada
<1>4. {Entrada(t, d, f) : f \in {g \in Marcos : m[g].ocupado}}
          = {Entrada(m, d, f) : f \in {g \in Marcos : m[g].ocupado}}
  BY <1>1, <1>2
<1> QED BY <1>2, <1>3, <1>4

\* With fixed assignment a new process first takes all its frames: they have
\* an owner and still no page.
LEMMA TomarFrames ==
    ASSUME NEW m, Sano(m), NEW d, NEW q, NEW s, NEW p \in Procesos,
           \A i \in 1 .. q : ~m[s[i]].ocupado,
           NEW t, t = Tomados(m, q, s, p)
    PROVE  /\ Sano(t)
           /\ \A f \in Marcos : t[f].ocupado <=> m[f].ocupado
           /\ \A f \in Marcos : m[f].ocupado => t[f] = m[f]
           /\ Guardadas(t, d) = Guardadas(m, d)
<1>1. m \in [Marcos -> Registros] /\ SinRepetir(m) /\ \A f \in Marcos : FrameOK(m[f])
  BY DEF Sano
<1>2. ASSUME NEW f \in Marcos
      PROVE  /\ t[f] \in Registros /\ FrameOK(t[f])
             /\ t[f].ocupado <=> m[f].ocupado
             /\ m[f].ocupado => t[f] = m[f]
  <2>1. m[f] \in Registros /\ FrameOK(m[f])
    BY <1>1
  <2>2. CASE \E i \in 1 .. q : s[i] = f
    <3>1. ~m[f].ocupado /\ m[f].pag = SinPagina
      BY <2>1, <2>2 DEF FrameOK
    <3>2. t[f] = [m[f] EXCEPT !.pid = p, !.ocupado = FALSE]
      BY <2>2 DEF Tomados
    <3> QED BY <2>1, <3>1, <3>2 DEF Registros, FrameOK
  <2>3. CASE ~\E i \in 1 .. q : s[i] = f
    <3>1. t[f] = m[f]
      BY <2>3 DEF Tomados
    <3> QED BY <2>1, <3>1
  <2> QED BY <2>2, <2>3
<1>3. t \in [Marcos -> Registros] /\ SinRepetir(t)
  BY <1>1, <1>2 DEF SinRepetir, Tomados
<1>4. Guardadas(t, d) = Guardadas(m, d)
  BY <1>2, MismaVista
<1> QED BY <1>2, <1>3, <1>4 DEF Sano

LEMMA ReservarNuevoPreserva ==
    ASSUME Inv, ReservarNuevo
    PROVE  Inv' /\ Paso
<1>0. PICK r : r = Head(canal)
  OBVIOUS
<1>1. /\ Pedido("RESERVAR_ESPACIO") /\ Atendido(ReservaAceptada(r)) /\ dato' = dato
      /\ FramesDelProceso(r.pid) = {} /\ r.cant <= FramesRequeridos(r.cant)
  BY <1>0 DEF ReservarNuevo
<1>2. /\ r \in PedidosTipo /\ r.op = "RESERVAR_ESPACIO" /\ respuesta = Nada
      /\ canal' \in Seq(PedidosTipo) /\ TurnoOK'
      /\ respuesta' = ReservaAceptada(r) /\ marcosMax' \in Int
      /\ tabla' \in [Procesos -> Seq(Nat)]
  BY <1>0, <1>1, Servido DEF PedidosConRespuesta
<1>3. r.pid \in Procesos /\ r.cant \in 1 .. MaxPedido
  BY <1>2, CamposDelPedido
<1>4. PICK q : q = FramesRequeridos(r.cant)
  OBVIOUS
<1>5. q \in Nat /\ r.cant \in 0 .. q
  <2>1. q \in Int
    BY <1>3, <1>4, TamaniosAssumption DEF Inv, Tipos, FramesRequeridos
  <2> QED BY <1>1, <1>3, <1>4, <2>1, TamaniosAssumption
<1>6. PICK a, s, t :
          /\ s \in [1 .. q -> FramesLibresDelArchivo(a)]
          /\ Primeros(s, q, FramesLibresDelArchivo(a))
          /\ t = Tomados(marco, q, s, r.pid)
          /\ marco' = ConPaginas(t, s, r.cant, r.pid, SinPagina)
  BY <1>0, <1>4, Zenon DEF ReservarNuevo, Tomados
<1>7. /\ FramesLibresDelArchivo(a) \in SUBSET Marcos
      /\ \A g \in FramesLibresDelArchivo(a) : ~marco[g].ocupado
  BY DEF FramesLibresDelArchivo
<1>8. s \in [1 .. q -> FramesLibresDelArchivo(a)] /\ Primeros(s, q, FramesLibresDelArchivo(a))
  BY <1>6
<1>9. /\ s \in [1 .. q -> Marcos]
      /\ \A i \in 1 .. q : ~marco[s[i]].ocupado
      /\ \A i, j \in 1 .. q : s[i] = s[j] => i = j
  BY <1>5, <1>7, <1>8, OrdenEstricto
<1>10. \A g \in Marcos : marco[g].pid # r.pid
  BY <1>1 DEF FramesDelProceso
<1>11. /\ Sano(t)
       /\ \A f \in Marcos : t[f].ocupado <=> marco[f].ocupado
       /\ \A f \in Marcos : marco[f].ocupado => t[f] = marco[f]
       /\ Guardadas(t, dato) = Guardadas(marco, dato)
  <2>1. t = Tomados(marco, q, s, r.pid) /\ Sano(marco)
    BY <1>6, InvSano
  <2>2. \A i \in 1 .. q : ~marco[s[i]].ocupado
    BY <1>9
  <2> QED BY <1>3, <2>1, <2>2, TomarFrames
<1>12. \A g \in Marcos : t[g].ocupado /\ t[g].pid = r.pid => t[g].pag <= -1
  BY <1>10, <1>11
<1>13. \A i \in 1 .. r.cant : ~t[s[i]].ocupado
  <2>1. ASSUME NEW i \in 1 .. r.cant PROVE i \in 1 .. q
    BY <1>5
  <2> QED BY <1>9, <1>11, <2>1
<1>14. PuedeCrecer(t, q, r.cant, s, r.pid, -1)
  BY <1>3, <1>5, <1>9, <1>11, <1>12, <1>13 DEF PuedeCrecer
<1>15. A!Ultima(r.pid, -1) /\ -1 \in A!PaginasDe(r.pid) \cup {-1}
  <2>1. Asignados(r.pid) = {}
    BY <1>10 DEF Asignados, FramesDelProceso
  <2>2. A!PaginasDe(r.pid) = {}
    BY <1>3, <2>1, PaginasDelProceso
  <2> QED BY <2>2 DEF A!Ultima
<1>16. marco' = ConPaginas(t, s, r.cant, r.pid, -1)
  BY <1>6 DEF SinPagina
<1>17. Sano(marco') /\ respuesta' \in RespuestasTipo /\ dato' \in [Marcos -> Datos] /\ Paso
  BY <1>1, <1>2, <1>3, <1>11, <1>14, <1>15, <1>16, ReservaHecha
<1> QED BY <1>2, <1>17, SanoInv

LEMMA RechazarReservaPreserva ==
    ASSUME Inv, RechazarReserva
    PROVE  Inv' /\ Paso
<1> DEFINE r == Head(canal)
<1>1. Pedido("RESERVAR_ESPACIO") /\ Atendido(ReservaRechazada(r)) /\ UNCHANGED discos
  BY DEF RechazarReserva
<1>2. /\ r \in PedidosTipo /\ r.op = "RESERVAR_ESPACIO" /\ respuesta = Nada
      /\ canal' \in Seq(PedidosTipo) /\ TurnoOK'
      /\ respuesta' = ReservaRechazada(r) /\ marcosMax' = marcosMax
      /\ tabla' \in [Procesos -> Seq(Nat)]
  BY <1>1, Servido DEF PedidosConRespuesta, Atendido
<1>3. r.pid \in Procesos /\ r.cant \in 1 .. MaxPedido
  BY <1>2, CamposDelPedido
<1>4. /\ respuesta' = [op |-> "RESERVAR_ESPACIO", pid |-> r.pid, cant |-> r.cant, ok |-> FALSE]
      /\ respuesta' \in RespuestasTipo
  BY <1>2, ReservaAceptadaTipo
<1>5. PaginasGuardadas' = PaginasGuardadas
  BY <1>1, <1>2, MemoriaNoToca
<1>6. A!Rechazar(r.pid, r.cant)
  BY <1>2, <1>4, <1>5 DEF A!Rechazar, A!Nada, Nada, A!RespuestaReserva
<1>7. Paso
  BY <1>3, <1>6 DEF Paso, A!Next
<1> QED BY <1>1, <1>2, <1>4, <1>7, MemoriaNoToca DEF Inv, Tipos

\* The frame list_find gives for a page is occupied.
LEMMA PaginaOcupada ==
    ASSUME Inv, NEW p, NEW g \in Nat, NEW f, EsPrimero(f, FramesDePagina(p, g))
    PROVE  f \in Marcos /\ marco[f].ocupado /\ marco[f].pid = p /\ marco[f].pag = g
BY DEF Inv, FramesOK, FrameOK, EsPrimero, FramesDePagina, SinPagina

LEMMA TirarPreserva ==
    ASSUME Inv, Tirar
    PROVE  Inv' /\ Paso
<1>0. PICK r : r = Head(canal)
  OBVIOUS
<1>1. Pedido("TIRAR_A_SWAP") /\ Atendido(respuesta) /\ marco' = marco
  BY DEF Tirar
<1>2. /\ r \in PedidosTipo /\ r.op = "TIRAR_A_SWAP"
      /\ canal' \in Seq(PedidosTipo) /\ TurnoOK'
      /\ respuesta' = respuesta /\ marcosMax' \in Int
      /\ tabla' \in [Procesos -> Seq(Nat)]
  BY <1>0, <1>1, Servido
<1>3. r.pid \in Procesos /\ r.pag \in Nat /\ r.dato \in Datos
  BY <1>2, CamposDelPedido
<1>4. PICK f \in Marcos : /\ EsPrimero(f, FramesDePagina(r.pid, r.pag))
                          /\ dato' = Escrito(dato, f, r.dato)
  BY <1>0 DEF Tirar, Escrito
<1>5. marco[f].ocupado
  BY <1>3, <1>4, PaginaOcupada
<1>6. marco \in [Marcos -> Registros] /\ SinRepetir(marco) /\ dato \in [Marcos -> Datos]
  BY DEF Inv, Tipos, UnFramePorPagina
<1>7. PICK e : e = Entrada(marco, dato, f)
  OBVIOUS
<1>8. /\ e \in Guardadas(marco, dato)
      /\ Guardadas(marco, dato') = (Guardadas(marco, dato) \ {e}) \cup {[e EXCEPT !.dato = r.dato]}
  BY <1>3, <1>4, <1>5, <1>6, <1>7, CambiarDato
<1>9. /\ e \in PaginasGuardadas
      /\ PaginasGuardadas' = (PaginasGuardadas \ {e}) \cup {[e EXCEPT !.dato = r.dato]}
  BY <1>1, <1>8, VistaGuardadas, VistaGuardadasPrima
<1>10. A!Tirar(e, r.dato)
  BY <1>2, <1>9 DEF A!Tirar
<1>11. Paso
  BY <1>3, <1>9, <1>10 DEF Paso, A!Next
<1>12. dato' \in [Marcos -> Datos]
  BY <1>3, <1>4, <1>6 DEF Escrito
<1> QED BY <1>1, <1>2, <1>11, <1>12 DEF Inv, Tipos, FramesOK, UnFramePorPagina

LEMMA TraerPreserva ==
    ASSUME Inv, Traer
    PROVE  Inv' /\ Paso
<1> DEFINE r == Head(canal)
<1>1. PICK f \in Marcos :
          /\ Pedido("TRAER_DE_SWAP") /\ UNCHANGED discos
          /\ EsPrimero(f, FramesDePagina(r.pid, r.pag))
          /\ Atendido([op |-> r.op, pid |-> r.pid, pag |-> r.pag, dato |-> dato[f]])
  BY DEF Traer
<1>2. /\ r \in PedidosTipo /\ r.op = "TRAER_DE_SWAP" /\ respuesta = Nada
      /\ canal' \in Seq(PedidosTipo) /\ TurnoOK'
      /\ respuesta' = [op |-> r.op, pid |-> r.pid, pag |-> r.pag, dato |-> dato[f]]
      /\ marcosMax' = marcosMax
      /\ tabla' \in [Procesos -> Seq(Nat)]
  BY <1>1, Servido DEF PedidosConRespuesta, Atendido
<1>3. r.pid \in Procesos /\ r.pag \in Nat
  BY <1>2, CamposDelPedido
<1>4. marco[f].ocupado /\ marco[f].pid = r.pid /\ marco[f].pag = r.pag
  BY <1>1, <1>3, PaginaOcupada
<1>5. dato[f] \in Datos
  BY DEF Inv, Tipos
<1> DEFINE e == [pid |-> r.pid, pag |-> r.pag, dato |-> dato[f]]
<1>6. e \in PaginasGuardadas
  BY <1>4 DEF PaginasGuardadas
<1>7. PaginasGuardadas' = PaginasGuardadas
  BY <1>1, <1>2, MemoriaNoToca
<1>8. A!Traer(e)
  BY <1>2, <1>7 DEF A!Traer, A!Nada, Nada, A!RespuestaTraer
<1>9. Paso
  BY <1>6, <1>8 DEF Paso, A!Next
<1>10. respuesta' \in RespuestasTipo
  BY <1>2, <1>3, <1>5 DEF RespuestasTipo
<1> QED BY <1>1, <1>2, <1>9, <1>10, MemoriaNoToca DEF Inv, Tipos

LEMMA LiberarPreserva ==
    ASSUME Inv, Liberar
    PROVE  Inv' /\ Paso
<1>0. PICK r : r = Head(canal)
  OBVIOUS
<1>1. Pedido("LIBERAR_PAGINA") /\ Atendido(respuesta) /\ dato' = dato
  BY DEF Liberar
<1>2. /\ r \in PedidosTipo /\ r.op = "LIBERAR_PAGINA"
      /\ canal' \in Seq(PedidosTipo) /\ TurnoOK'
      /\ respuesta' = respuesta /\ marcosMax' \in Int
      /\ tabla' \in [Procesos -> Seq(Nat)]
  BY <1>0, <1>1, Servido
<1>3. r.pid \in Procesos /\ r.pag \in Nat
  BY <1>2, CamposDelPedido
<1>4. PICK f \in Marcos :
          /\ EsPrimero(f, FramesDePagina(r.pid, r.pag))
          /\ marco' = Vaciado(marco, f, DuenioTrasLiberar(f))
  BY <1>0 DEF Liberar, Vaciado
<1>5. marco[f].ocupado
  BY <1>3, <1>4, PaginaOcupada
<1>6. Sano(marco) /\ dato \in [Marcos -> Datos]
  BY InvSano DEF Inv, Tipos
<1>7. DuenioTrasLiberar(f) \in Procesos \cup {Nadie}
  BY <1>6 DEF DuenioTrasLiberar, Sano, Registros
<1>8. PICK e : e = Entrada(marco, dato, f)
  OBVIOUS
<1>9. /\ Sano(marco')
      /\ e \in Guardadas(marco, dato)
      /\ Guardadas(marco', dato) = Guardadas(marco, dato) \ {e}
  BY <1>4, <1>5, <1>6, <1>7, <1>8, VaciarFrame
<1>10. e \in PaginasGuardadas /\ PaginasGuardadas' = PaginasGuardadas \ {e}
  BY <1>1, <1>9, VistaGuardadas, VistaGuardadasPrima
<1>11. A!Liberar(e)
  BY <1>2, <1>10 DEF A!Liberar
<1>12. Paso
  BY <1>10, <1>11 DEF Paso, A!Next
<1>13. respuesta' \in RespuestasTipo /\ dato' \in [Marcos -> Datos]
  BY <1>1, <1>2, <1>6 DEF Inv, Tipos
<1> QED BY <1>2, <1>9, <1>12, <1>13, SanoInv

LEMMA CaerPreserva ==
    ASSUME Inv, Caer
    PROVE  Inv' /\ Paso
<1>1. UNCHANGED <<marcosMax, discos, canal, respuesta, tabla>>
  BY DEF Caer
<1>2. TurnoOK'
  BY <1>1 DEF Inv, TurnoOK
<1> QED BY <1>1, <1>2, MemoriaNoToca DEF Inv, Tipos, Paso

-----------------------------------------------------------------------------
LEMMA InitInv ==
    ASSUME Init
    PROVE  Inv /\ A!Init
<1>1. Tipos
  <2>1. marco \in [Marcos -> Registros] /\ dato \in [Marcos -> Datos]
    BY DatosAssumption DEF Init, Registros, SinPagina
  <2>2. marcosMax \in Int /\ canal \in Seq(PedidosTipo) /\ respuesta \in RespuestasTipo
    BY ConfiguracionesAssumption DEF Init, RespuestasTipo
  <2>3. tabla \in [Procesos -> Seq(Nat)]
    BY DEF Init
  <2> QED BY <2>1, <2>2, <2>3 DEF Tipos
<1>2. \A f \in Marcos : ~marco[f].ocupado /\ marco[f].pag = SinPagina
  BY DEF Init
<1>3. FramesOK /\ UnFramePorPagina
  BY <1>2 DEF FramesOK, FrameOK, UnFramePorPagina, SinRepetir
<1>4. TurnoOK
  BY DEF Init, TurnoOK
<1>5. PaginasGuardadas = {}
  BY <1>2 DEF PaginasGuardadas
<1>6. A!Init
  BY <1>5 DEF A!Init, A!Nada, Nada, Init
<1> QED BY <1>1, <1>3, <1>4, <1>6 DEF Inv

LEMMA NextInv ==
    ASSUME Inv, [Next]_vars
    PROVE  Inv' /\ Paso
<1>1. CASE HiloMemoria
  BY <1>1, PedirReservaPreserva, PedirLiberarPreserva, PedirTirarPreserva, PedirTraerPreserva,
     LeerReservaPreserva, LeerPaginaPreserva DEF HiloMemoria
<1>2. CASE HiloSwamp
  BY <1>2, ReservarExistentePreserva, ReservarNuevoPreserva, RechazarReservaPreserva,
     TirarPreserva, TraerPreserva, LiberarPreserva, CaerPreserva DEF HiloSwamp
<1>3. CASE UNCHANGED vars
  <2>1. UNCHANGED <<marcosMax, discos, canal, respuesta, tabla>>
    BY <1>3 DEF vars
  <2>2. TurnoOK'
    BY <2>1 DEF Inv, TurnoOK
  <2> QED BY <2>1, <2>2, MemoriaNoToca DEF Inv, Tipos, Paso
<1> QED BY <1>1, <1>2, <1>3 DEF Next

\* A page is never in two frames, and memoria never has two unread answers nor
\* a request behind one that waits for its answer (archivo_proceso_existente,
\* frame_de_pagina, mutex_swamp).
THEOREM InvariantePaginas == Spec => []Inv
<1>1. Init => Inv
  BY InitInv
<1>2. Inv /\ [Next]_vars => Inv'
  BY NextInv
<1> QED BY <1>1, <1>2, PTL DEF Spec

\* swamp implements the store of pages: whatever the files, the assignment and
\* the order of the requests, memoria sees pages that appear when they are
\* reserved, change when they are thrown, come back as they were thrown last
\* and go when they are released.
THEOREM SwampEsAlmacen == Spec => EsAlmacen
<1>1. Init => A!Init
  BY InitInv
<1>2. Inv /\ [Next]_vars => [A!Next]_<<PaginasGuardadas, respuesta>>
  BY NextInv DEF Paso
<1> QED BY <1>1, <1>2, InvariantePaginas, PTL DEF Spec, EsAlmacen, A!Spec
=============================================================================
