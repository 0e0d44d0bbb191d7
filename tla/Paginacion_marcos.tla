--------------------------- MODULE Paginacion_marcos ---------------------------
(***************************************************************************)
(* Frames, pages and contents of memoria, for any number of processes,     *)
(* pages and requests in flight and any configuration: the frame of a      *)
(* present page is its own, the TLB says where it is, what is in it is     *)
(* what was last written, and memoria does not run out of victims, for     *)
(* the processes that paging can be trusted for.                           *)
(*                                                                         *)
(* The argument has two halves.  Whose: a process refers, in its page      *)
(* table, in its thread or in the TLB, to no frame but its own, unless a   *)
(* suspension released the frame or two processes took it (PropiedadOK).   *)
(* Where: Suyo(p) says of the pages that p may touch where they are, what  *)
(* its thread has in hand and what the frames hold; a lemma XSuyo for each *)
(* action X of p shows that X keeps it.  With fixed assignment a step of   *)
(* another process leaves all of p's alone (PasoAjeno), since it only      *)
(* writes frames it refers to.  With dynamic assignment everybody's pages  *)
(* are p's, and p is the only process with a request.                      *)
(***************************************************************************)
EXTENDS Paginacion_proofs

-----------------------------------------------------------------------------
\* Whose frames are whose.

\* q may read or write the frame f: it is the frame of one of its pages, one its thread has,
\* or one the TLB gives for its pages.
Refiere(q, f) ==
    \/ \E i \in Ids : pag[<<q, i>>].frame = f
    \/ hilo[q].fr = f
    \/ hilo[q].pc # "tomar" /\ f \in ToSet(hilo[q].frs)
    \/ \E e \in ToSet(tlb) : e.pid = q /\ e.frame = f

\* With fixed assignment such a frame is its own unless it has been released by a suspension or
\* taken twice; who has one of those is counted as robbed; nobody's frames are free.
PropiedadOK ==
    /\ Fija => \A q \in Procesos, f \in Marcos :
                  Refiere(q, f) /\ f \notin manchados => marco[f].pid = q
    /\ Fija => \A q \in Procesos \ robados, f \in Marcos :
                  marco[f].pid = q \/ Refiere(q, f) => f \notin manchados
    /\ Fija => \A f \in Marcos : marco[f].pid = Nadie => ~marco[f].ocupado
    /\ manchados = {} => robados = {}

\* A suspended process that was not robbed had no pages.
VolverOK ==
    /\ Fija => \A p \in Procesos \ robados :
          /\ hilo[p].op # "volver"
          /\ hilo[p].pc # "tirar"
          /\ p \in suspendidos /\ hilo[p].pc = "libre" => tabla[p] = <<>>
    /\ manchados = {} => \A p \in Procesos : hilo[p].pc # "tirar"

\* The kernel has at most so many requests in flight.
Pidiendo == {q \in Procesos : hilo[q].op \in Llamadas}
CupoOK == Cardinality(Pidiendo) <= conf.hilos

\* Without entries there is no TLB; with one request at a time an entry that must be replaced
\* is still there.
TLBHay ==
    /\ conf.entradas = 0 => tlb = <<>> /\ \A p \in Procesos : hilo[p].pc # "reemplazar"
    /\ conf.hilos <= 1 /\ manchados = {} =>
          \A p \in Procesos : hilo[p].pc = "reemplazar" => tlb # <<>>

Duenios == PropiedadOK /\ VolverOK /\ CupoOK /\ TLBHay

-----------------------------------------------------------------------------
\* Where the pages are.

\* The processes whose pages are where their bits say: with fixed assignment each on its own,
\* with dynamic assignment all together, seen from the one that has a request (or from any,
\* when none has).
Solo(p) == \A q \in Procesos \ {p} : hilo[q].op = "nada"
Vale(p) ==
    IF Fija THEN p \notin achicados \union robados
    ELSE /\ conf.hilos <= 1 /\ manchados = {} /\ (conf.entradas = 0 \/ achicados = {})
         /\ Solo(p)

\* A replacement of p is among the pages and the frames that are its own, or all of them.
Mia(p, k) == EnTabla(k) /\ (Fija => k[1] = p)
De(p, f) == Fija => marco[f].pid = p

\* The page k is in memory, in the frame f.
EnMarco(k, f) == pag[k].presencia /\ pag[k].frame = f

\* p has the frame f, with no page in it yet; it has the page k locked.
Ocupa(p, f) == hilo[p].pc \in {"crear", "traer"} /\ hilo[p].fr = f
Traba(p, k) ==
    \/ /\ hilo[p].op \in Accesos \ {"liberar"}
       /\ \/ k \in Halladas(p)
          \/ hilo[p].pc \notin {"buscar", "copiar"} /\ k = Buscada(p)
    \/ hilo[p].pc = "soltar" /\ k = hilo[p].vic

\* The frame of a present page is marked, its own and of no other present page.
MarcosOK(p) ==
    \A k \in Claves : Mia(p, k) /\ pag[k].presencia =>
        /\ De(p, pag[k].frame) /\ marco[pag[k].frame].ocupado
        /\ \A l \in Claves : Mia(p, l) /\ l # k => ~EnMarco(l, pag[k].frame)

\* A marked frame has a page, or the thread will put one in it.
CubiertosOK(p) ==
    \A f \in Marcos : De(p, f) /\ marco[f].ocupado =>
        Ocupa(p, f) \/ \E k \in Claves : Mia(p, k) /\ EnMarco(k, f)

\* A locked page is locked by the thread.
TrabasOK(p) == \A k \in Claves : Mia(p, k) /\ pag[k].lock => Traba(p, k)

\* The frame the thread has is marked and has no page.
ViajeOK(p) ==
    hilo[p].pc \in {"crear", "traer"} =>
        /\ De(p, hilo[p].fr) /\ marco[hilo[p].fr].ocupado
        /\ \A l \in Claves : Mia(p, l) => ~EnMarco(l, hilo[p].fr)

\* Nothing is free while a page is replaced, nor, with fixed assignment, when a page is out.
Lleno(p) == \A f \in Marcos : De(p, f) => marco[f].ocupado
LlenoOK(p) == hilo[p].pc \in {"elegir", "expulsar", "soltar"} => Lleno(p)
AusentesOK(p) == Fija => \A k \in Claves : Mia(p, k) /\ ~pag[k].presencia => Lleno(p)

\* The pages a request has found stay in memory, and locked while it looks for the next; the
\* one it brings is out until it is brought.
BuscadaOK(p) ==
    hilo[p].op \in Accesos =>
        /\ \A k \in Halladas(p) : pag[k].presencia
        /\ hilo[p].pc \in {"falta", "elegir", "expulsar", "soltar", "traer"} =>
              ~pag[Buscada(p)].presencia
        /\ hilo[p].pc \in {"actualizar", "reemplazar"} => pag[Buscada(p)].presencia
        /\ hilo[p].op # "liberar" /\ (hilo[p].op = "cabecera" =>
                                         hilo[p].pc \notin {"buscar", "copiar"}) =>
              \A k \in Halladas(p) : pag[k].lock
        /\ hilo[p].op \notin {"liberar", "cabecera"} /\ hilo[p].pc \notin {"buscar", "copiar"} =>
              pag[Buscada(p)].lock

\* The victim is present and is not one of the pages found.
VictimaOK(p) ==
    hilo[p].pc \in {"expulsar", "soltar"} =>
        /\ Mia(p, hilo[p].vic) /\ pag[hilo[p].vic].presencia
        /\ hilo[p].op \in Accesos => hilo[p].vic \notin Halladas(p)

\* With fixed assignment it has marcos_max frames from its first page on.
Propios(p) == {f \in Marcos : marco[f].pid = p}
Tiene(p) == tabla[p] # <<>> \/ hilo[p].pc \notin {"libre", "reservar", "tomar"}
CuotaOK(p) ==
    Fija => IF Tiene(p) THEN Cardinality(Propios(p)) = conf.marcos ELSE Propios(p) = {}

-----------------------------------------------------------------------------
\* What is in the frames.

\* The current content of a page is in its frame if it is present, and in swamp if it is not
\* or is not modified.
RamOK(p) ==
    \A k \in Claves : Mia(p, k) =>
        /\ pag[k].presencia => ram[pag[k].frame] = k
        /\ ~pag[k].presencia \/ ~pag[k].modificado => enSwap[k]

\* The frames found are those of the pages.
HalladasOK(p) ==
    hilo[p].op \in Accesos =>
        /\ \A i \in DOMAIN hilo[p].frs : pag[<<p, hilo[p].pags[i]>>].frame = hilo[p].frs[i]
        /\ hilo[p].pc \in {"actualizar", "reemplazar"} => pag[Buscada(p)].frame = hilo[p].fr

\* A victim has been saved.
LimpiaOK(p) == hilo[p].pc = "soltar" => ~pag[hilo[p].vic].modificado

\* With fixed assignment each entry of the TLB is of a present page in its frame, and the only
\* one of it; there is none of a page that is about to get one or to leave.
Unicas(t, p) ==
    \A i, j \in DOMAIN t : t[i].pid = p /\ t[j].pid = p /\ t[i].pag = t[j].pag => i = j
TLBOK(p) ==
    Fija =>
        /\ \A e \in ToSet(tlb) : e.pid = p =>
              EnTabla(<<p, e.pag>>) /\ EnMarco(<<p, e.pag>>, e.frame)
        /\ Unicas(tlb, p)
EntradasOK(p) ==
    Fija =>
        /\ hilo[p].pc \in {"actualizar", "reemplazar"} =>
              \A e \in ToSet(tlb) : e.pid = p => e.pag # Buscada(p)[2]
        /\ hilo[p].pc = "soltar" => \A e \in ToSet(tlb) : e.pid = p => e.pag # hilo[p].vic[2]

-----------------------------------------------------------------------------
\* All of it: the pages of p, its request, and what relates them.  With dynamic assignment and
\* a TLB only the places are right, not the contents.
Fiel == Fija \/ conf.entradas = 0
EnSitio(p) == MarcosOK(p) /\ AusentesOK(p) /\ (Fiel => RamOK(p) /\ TLBOK(p))
EnCurso(p) ==
    /\ ViajeOK(p) /\ LlenoOK(p) /\ BuscadaOK(p) /\ VictimaOK(p)
    /\ Fiel => HalladasOK(p) /\ LimpiaOK(p) /\ EntradasOK(p)
Suyo(p) == EnSitio(p) /\ EnCurso(p) /\ CubiertosOK(p) /\ TrabasOK(p) /\ CuotaOK(p)
Lugares == \A p \in Procesos : Vale(p) => Suyo(p)

-----------------------------------------------------------------------------
\* What a step lets its process refer to.

\* The frames a step of p makes p refer to are among those it referred to, or are its own.
Alcance(p) ==
    /\ \A k \in Claves : \/ pag'[k].frame = pag[k].frame
                         \/ k[1] = p /\ Refiere(p, pag'[k].frame)
    /\ \A e \in ToSet(tlb') : e \in ToSet(tlb) \/ (e.pid = p /\ Refiere(p, e.frame))
    /\ hilo'[p].fr \in Marcos => Refiere(p, hilo'[p].fr) \/ marco[hilo'[p].fr].pid = p
    /\ hilo'[p].pc # "tomar" => \A g \in ToSet(hilo'[p].frs) : Refiere(p, g)

\* No other process refers to a frame it did not.
LEMMA RefiereTras ==
  ASSUME NEW p \in Procesos, Alcance(p), \A q \in Procesos \ {p} : hilo'[q] = hilo[q],
         NEW q \in Procesos, NEW f \in Marcos, Refiere(q, f)'
  PROVE  Refiere(q, f) \/ (q = p /\ marco[f].pid = p)
<1>1. CASE \E i \in Ids : pag'[<<q, i>>].frame = f
  <2>1. PICK i \in Ids : pag'[<<q, i>>].frame = f
    BY <1>1
  <2>2. <<q, i>> \in Claves /\ <<q, i>>[1] = q
    BY DEF Claves
  <2>3. \/ pag'[<<q, i>>].frame = pag[<<q, i>>].frame
        \/ <<q, i>>[1] = p /\ Refiere(p, pag'[<<q, i>>].frame)
    BY <2>2 DEF Alcance
  <2>. QED
    BY <2>1, <2>2, <2>3 DEF Refiere
<1>2. CASE hilo'[q].fr = f
  BY <1>2 DEF Alcance, Refiere
<1>3. CASE hilo'[q].pc # "tomar" /\ f \in ToSet(hilo'[q].frs)
  <2>1. CASE q = p
    BY <1>3, <2>1 DEF Alcance
  <2>2. CASE q # p
    BY <1>3, <2>2 DEF Refiere
  <2>. QED
    BY <2>1, <2>2
<1>4. CASE \E e \in ToSet(tlb') : e.pid = q /\ e.frame = f
  <2>1. PICK e \in ToSet(tlb') : e.pid = q /\ e.frame = f
    BY <1>4
  <2>2. e \in ToSet(tlb) \/ (e.pid = p /\ Refiere(p, e.frame))
    BY <2>1 DEF Alcance
  <2>. QED
    BY <2>1, <2>2 DEF Refiere
<1>. QED
  BY <1>1, <1>2, <1>3, <1>4, Zenon DEF Refiere

\* A thread that is left without frames refers to no other.
LEMMA AlcanceVacio ==
  ASSUME TypeOK, NEW p \in Procesos, hilo'[p].frs = <<>>, hilo'[p].fr = SinMarco,
         \A k \in Claves : pag'[k].frame = pag[k].frame, ToSet(tlb') \subseteq ToSet(tlb)
  PROVE  Alcance(p)
<1>1. SinMarco \notin Marcos /\ ToSet(<<>>) = {}
  BY MarcosTipo DEF ToSet
<1>. QED
  BY <1>1 DEF Alcance

\* Nor one that goes on with those it had, or with one that is its own.
LEMMA AlcanceIgual ==
  ASSUME TypeOK, NEW p \in Procesos, hilo[p].pc # "tomar", hilo'[p].frs = hilo[p].frs,
         \/ hilo'[p].fr \in {hilo[p].fr, SinMarco}
         \/ Refiere(p, hilo'[p].fr) \/ marco[hilo'[p].fr].pid = p,
         \A k \in Claves : pag'[k].frame = pag[k].frame, ToSet(tlb') \subseteq ToSet(tlb)
  PROVE  Alcance(p)
<1>1. SinMarco \notin Marcos /\ Refiere(p, hilo[p].fr)
  BY MarcosTipo DEF Refiere
<1>2. \A g \in ToSet(hilo[p].frs) : Refiere(p, g)
  BY DEF Refiere
<1>. QED
  BY <1>1, <1>2 DEF Alcance

\* Nor one that adds, to the frames it found, one that it knew.
LEMMA AlcanceEncontrada ==
  ASSUME Base, NEW p \in Procesos, hilo[p].op \in Accesos, Len(hilo[p].frs) < Len(hilo[p].pags),
         NEW fr \in Marcos, Encontrada(p, fr), Refiere(p, fr),
         \A k \in Claves : pag'[k].frame = pag[k].frame,
         \A e \in ToSet(tlb') : e \in ToSet(tlb) \/ (e.pid = p /\ Refiere(p, e.frame))
  PROVE  Alcance(p)
<1>1. /\ hilo'[p].fr = SinMarco /\ hilo'[p].frs = Append(hilo[p].frs, fr) /\ SinMarco \notin Marcos
  BY EncontradaHace DEF Queda
<1>2. hilo[p].pc # "tomar" /\ hilo[p].frs \in Seq(Marcos)
  BY Registro DEF Base, HilosOK, AccesoOK, PcAcceso
<1>3. ToSet(Append(hilo[p].frs, fr)) = ToSet(hilo[p].frs) \union {fr}
  BY <1>2, MiembrosAppend
<1>4. \A g \in ToSet(hilo[p].frs) : Refiere(p, g)
  BY <1>2 DEF Refiere
<1>. QED
  BY <1>1, <1>3, <1>4 DEF Alcance

\* The frame of a page of p, and that of an entry of the TLB for p, are among them.
LEMMA RefiereSuyos ==
  ASSUME NEW p \in Procesos
  PROVE  /\ Refiere(p, hilo[p].fr)
         /\ \A i \in Ids : Refiere(p, pag[<<p, i>>].frame)
         /\ \A e \in ToSet(tlb) : e.pid = p => Refiere(p, e.frame)
BY DEF Refiere

\* The reach of a step, with fixed assignment.
LEMMA AlcanceDelPaso ==
  ASSUME Base, Fija, NEW p \in Procesos, PasoDe(p)
  PROVE  Alcance(p)
<1>. USE DEF Queda
<1>1. TypeOK /\ ReposoOK(p) /\ AltaOK(p) /\ AccesoOK(p) /\ SinMarco \notin Marcos
  BY MarcosTipo DEF Base, HilosOK
<1>2. ASSUME NEW n, MemallocNuevo(p, n) \/ MemallocCrecer(p, n)  PROVE Alcance(p)
  BY <1>1, <1>2, PedirHace, AlcanceVacio DEF tablas
<1>3. ASSUME UsaPaginas(p)  PROVE Alcance(p)
  <2>1. hilo'[p].frs = <<>> /\ hilo'[p].fr = SinMarco
    BY <1>3, UsaPaginasHace DEF Libre
  <2>. QED
    BY <1>1, <1>3, <2>1, UsaPaginasHace, AlcanceVacio DEF tablas
<1>4. ASSUME Suspender(p)  PROVE Alcance(p)
  <2>1. hilo'[p].frs = <<>> /\ hilo'[p].fr = SinMarco
    BY <1>4, SuspenderHace DEF Libre
  <2>. QED
    BY <1>1, <1>4, <2>1, SuspenderHace, AlcanceVacio DEF tablas
<1>5. ASSUME Dessuspender(p)  PROVE Alcance(p)
  <2>1. hilo'[p].frs = <<>> /\ hilo'[p].fr = SinMarco
    BY <1>5, DessuspenderHace DEF Libre
  <2>. QED
    BY <1>1, <1>5, <2>1, DessuspenderHace, AlcanceVacio DEF tablas
<1>6. ASSUME ReservarMarcos(p)  PROVE Alcance(p)
  <2>1. /\ hilo'[p].pc = "tomar" /\ hilo'[p].fr = hilo[p].fr /\ pag' = pag /\ tlb' = tlb
    BY <1>6, ReservarHace DEF tablas
  <2>. QED
    BY <2>1, RefiereSuyos DEF Alcance
<1>7. ASSUME NegarMarcos(p)  PROVE Alcance(p)
  <2>1. hilo'[p].frs = <<>> /\ hilo'[p].fr = SinMarco /\ pag' = pag /\ tlb' = tlb
    BY <1>7, NegarHace DEF tablas, Libre
  <2>. QED
    BY <1>1, <2>1, AlcanceVacio
<1>8. ASSUME SolicitarFrame(p)  PROVE Alcance(p)
  <2>1. /\ hilo[p].pc = "pedir" /\ hilo'[p].frs = hilo[p].frs /\ pag' = pag /\ tlb' = tlb
        /\ hilo'[p].fr = hilo[p].fr \/ marco[hilo'[p].fr].pid = p
    BY <1>8, SolicitarHace DEF tablas, MarcosLibres
  <2>. QED
    BY <1>1, <2>1, AlcanceIgual
<1>9. ASSUME BuscarMarco(p)  PROVE Alcance(p)
  <2>1. /\ hilo[p].pc = "falta" /\ hilo'[p].frs = hilo[p].frs /\ pag' = pag /\ tlb' = tlb
        /\ hilo'[p].fr = SinMarco \/ marco[hilo'[p].fr].pid = p
    BY <1>9, BuscarMarcoHace DEF tablas, MarcosLibres
  <2>. QED
    BY <1>1, <2>1, AlcanceIgual
<1>10. ASSUME TomarMarcos(p)  PROVE Alcance(p)
  <2>1. /\ hilo'[p].frs = <<>> /\ hilo'[p].fr = hilo[p].fr /\ pag' = pag /\ tlb' = tlb
        /\ hilo[p].pc = "tomar"
    BY <1>10, TomarHace DEF tablas
  <2>2. hilo[p].fr = SinMarco
    BY <2>1, <1>1, Registro DEF Base, HilosOK, TenenciaOK, PcConMarco
  <2>. QED
    BY <1>1, <2>1, <2>2, AlcanceVacio
<1>11. ASSUME CrearPagina(p)  PROVE Alcance(p)
  <2>1. /\ OtroMas(p) /\ hilo[p].faltan > 0 /\ tlb' = tlb /\ hilo[p].frs = <<>>
        /\ Nueva(p) \in Claves
        /\ pag'[Nueva(p)] = [frame |-> hilo[p].fr, presencia |-> TRUE, modificado |-> TRUE,
                             lock |-> FALSE, uso |-> TRUE]
        /\ \A l \in Claves : l # Nueva(p) => pag'[l] = pag[l]
    BY <1>11, CrearHace, Zenon
  <2>2. hilo'[p].frs = <<>> /\ hilo'[p].fr = SinMarco
    BY <1>1, <2>1, OtroMasHace DEF Libre
  <2>3. Nueva(p)[1] = p /\ ToSet(<<>>) = {} /\ pag'[Nueva(p)].frame = hilo[p].fr
    BY <2>1 DEF Nueva, ToSet
  <2>. QED
    BY <1>1, <2>1, <2>2, <2>3, RefiereSuyos DEF Alcance
<1>12. ASSUME OlvidarMarco(p)  PROVE Alcance(p)
  <2>1. OtroMas(p) /\ hilo[p].faltan > 0 /\ tlb' = tlb /\ pag' = pag
        /\ hilo[p].op = "volver" /\ hilo[p].pc = "crear"
    BY <1>12, OlvidarHace DEF tablas
  <2>2. hilo[p].frs = <<>>
    BY <1>1, <2>1 DEF AltaOK, Altas
  <2>3. hilo'[p].frs = <<>> /\ hilo'[p].fr = SinMarco
    BY <1>1, <2>1, <2>2, OtroMasHace DEF Libre
  <2>. QED
    BY <1>1, <2>1, <2>3, AlcanceVacio
<1>13. ASSUME ElegirVictima(p)  PROVE Alcance(p)
  <2>1. /\ hilo[p].pc = "elegir" /\ hilo'[p].frs = hilo[p].frs /\ hilo'[p].fr = hilo[p].fr
        /\ \A k \in Claves : pag'[k].frame = pag[k].frame
        /\ tlb' = tlb
    BY <1>13, ElegirHace, Zenon
  <2>. QED
    BY <1>1, <2>1, AlcanceIgual
<1>14. ASSUME SinVictima(p)  PROVE Alcance(p)
  <2>1. hilo[p].pc = "elegir" /\ hilo' = hilo /\ pag' = pag /\ tlb' = tlb
    BY <1>14 DEF SinVictima, En, tablas
  <2>. QED
    BY <1>1, <2>1, AlcanceIgual
<1>15. ASSUME Expulsar(p)  PROVE Alcance(p)
  <2>1. /\ hilo[p].pc = "expulsar" /\ hilo'[p].frs = hilo[p].frs /\ hilo'[p].fr = hilo[p].fr
        /\ \A k \in Claves : pag'[k].frame = pag[k].frame
    BY <1>15, ExpulsarHace, Zenon
  <2>2. ToSet(tlb') \subseteq ToSet(tlb)
    <3>1. tlb \in Seq(TipoEntrada) /\ tlb' \in Seq(TipoEntrada)
      BY <1>1, <1>15, ExpulsarHace, Tipos, Zenon
    <3>2. tlb' = tlb \/ \E m \in 1 .. Len(tlb) : SinEl(m, tlb, tlb')
      BY <1>15, ExpulsarHace, Zenon
    <3>3. ASSUME NEW m \in 1 .. Len(tlb), SinEl(m, tlb, tlb')
          PROVE  ToSet(tlb) = ToSet(tlb') \union {tlb[m]}
      BY <3>1, <3>3, MiembrosSinEl
    <3>. QED
      BY <3>2, <3>3
  <2>. QED
    BY <1>1, <2>1, <2>2, AlcanceIgual
<1>16. ASSUME SoltarVictima(p)  PROVE Alcance(p)
  <2>. DEFINE k == hilo[p].vic
  <2>1. /\ hilo[p].pc = "soltar" /\ hilo'[p].frs = hilo[p].frs /\ hilo'[p].fr = pag[k].frame
        /\ k \in Claves /\ k[1] = p
        /\ \A l \in Claves : pag'[l].frame = pag[l].frame
        /\ tlb' = tlb
    BY <1>16, SoltarVictimaHace, Zenon
  <2>2. k = <<p, k[2]>> /\ k[2] \in Ids
    BY <2>1 DEF Claves
  <2>. HIDE DEF k
  <2>3. Refiere(p, pag[k].frame)
    BY <2>2, RefiereSuyos
  <2>. QED
    BY <1>1, <2>1, <2>3, AlcanceIgual
<1>17. ASSUME BuscarPagina(p)  PROVE Alcance(p)
  <2>. DEFINE k == Buscada(p)
  <2>1. /\ hilo[p].pc = "buscar" /\ hilo[p].op \in Accesos
        /\ Len(hilo[p].frs) < Len(hilo[p].pags) /\ k \in Claves /\ k[1] = p
        /\ \A l \in Claves : pag'[l].frame = pag[l].frame
        /\ tlb' = tlb
    BY <1>17, BuscarPaginaHace, QuienBusca
  <2>2. k = <<p, k[2]>> /\ k[2] \in Ids
    BY <2>1 DEF Claves
  <2>3. \/ hilo'[p].frs = hilo[p].frs /\ hilo'[p].fr = SinMarco
        \/ \E i \in EntradasTLB(k) : tlb[i].frame \in Marcos /\ Encontrada(p, tlb[i].frame)
        \/ hilo'[p].frs = hilo[p].frs /\ hilo'[p].fr = pag[k].frame
    BY <1>17, BuscarPaginaHace, Zenon
  <2>. HIDE DEF k
  <2>4. CASE \/ hilo'[p].frs = hilo[p].frs /\ hilo'[p].fr = SinMarco
             \/ hilo'[p].frs = hilo[p].frs /\ hilo'[p].fr = pag[k].frame
    <3>1. Refiere(p, pag[k].frame)
      BY <2>2, RefiereSuyos
    <3>. QED
      BY <1>1, <2>1, <2>4, <3>1, AlcanceIgual
  <2>5. ASSUME NEW i \in EntradasTLB(k), tlb[i].frame \in Marcos, Encontrada(p, tlb[i].frame)
        PROVE  Alcance(p)
    <3>1. tlb[i] \in ToSet(tlb) /\ tlb[i].pid = p
      BY <2>1 DEF EntradasTLB, ToSet
    <3>2. Refiere(p, tlb[i].frame)
      BY <3>1, RefiereSuyos
    <3>. QED
      BY <2>1, <2>5, <3>2, AlcanceEncontrada
  <2>. QED
    BY <2>3, <2>4, <2>5
<1>18. ASSUME TraerPagina(p)  PROVE Alcance(p)
  <2>1. /\ hilo[p].pc = "traer" /\ hilo'[p].frs = hilo[p].frs /\ hilo'[p].fr = hilo[p].fr
        /\ \A l \in Claves : l # Buscada(p) => pag'[l] = pag[l]
        /\ pag'[Buscada(p)].frame = hilo[p].fr
        /\ tlb' = tlb
    BY <1>18, TraerHace, Zenon
  <2>2. Buscada(p)[1] = p
    BY <2>1, QuienBusca
  <2>3. \A g \in ToSet(hilo[p].frs) : Refiere(p, g)
    BY <2>1 DEF Refiere
  <2>. QED
    BY <2>1, <2>2, <2>3, RefiereSuyos DEF Alcance
<1>19. ASSUME ActualizarTLB(p) \/ ReemplazarTLB(p)  PROVE Alcance(p)
  <2>1. /\ hilo[p].op \in Accesos /\ Len(hilo[p].frs) < Len(hilo[p].pags)
        /\ hilo[p].pc \in {"actualizar", "reemplazar"}
        /\ Entrada(p) \in TipoEntrada /\ hilo[p].fr \in Marcos
        /\ Entrada(p).pid = p /\ Entrada(p).frame = hilo[p].fr
    <3>1. hilo[p].pc \in {"actualizar", "reemplazar"}
      BY <1>19, ActualizarHace, ReemplazarHace
    <3>. QED
      BY <3>1, QuienBusca, EntradaTipo
  <2>2. pag' = pag
    BY <1>19 DEF ActualizarTLB, ReemplazarTLB, tablas
  <2>3. tlb \in Seq(TipoEntrada)
    BY <1>1, Tipos
  <2>4. \A e \in ToSet(tlb') : e \in ToSet(tlb) \/ e = Entrada(p)
    <3>1. ToSet(Append(tlb, Entrada(p))) = ToSet(tlb) \union {Entrada(p)}
      BY <2>1, <2>3, MiembrosAppend
    <3>2. ASSUME tlb # <<>>
          PROVE  \A e \in ToSet(Append(Quedan, Entrada(p))) : e \in ToSet(tlb) \/ e = Entrada(p)
      <4>1. Quedan \in Seq(TipoEntrada) /\ ToSet(Quedan) \subseteq ToSet(tlb)
        <5>1. Tail(tlb) \in Seq(TipoEntrada) /\ Len(Tail(tlb)) = Len(tlb) - 1 /\ Len(tlb) \in Nat
              /\ \A i \in 1 .. Len(Tail(tlb)) : Tail(tlb)[i] = tlb[i + 1]
          BY <2>3, <3>2, HeadTailProperties, LenProperties
        <5>2. ToSet(Tail(tlb)) \subseteq ToSet(tlb)
          <6>1. DOMAIN Tail(tlb) = 1 .. Len(Tail(tlb)) /\ DOMAIN tlb = 1 .. Len(tlb)
            BY <2>3, <5>1, LenProperties
          <6>2. \A i \in 1 .. Len(Tail(tlb)) : i + 1 \in 1 .. Len(tlb)
            BY <5>1
          <6>. QED
            BY <5>1, <6>1, <6>2 DEF ToSet
        <5>. QED
          BY <2>3, <5>1, <5>2 DEF Quedan
      <4>2. ToSet(Append(Quedan, Entrada(p))) = ToSet(Quedan) \union {Entrada(p)}
        BY <2>1, <4>1, MiembrosAppend
      <4>. QED
        BY <4>1, <4>2
    <3>3. \/ tlb' = tlb \/ tlb' = Append(tlb, Entrada(p))
          \/ tlb # <<>> /\ tlb' = Append(Quedan, Entrada(p))
      BY <1>19, ActualizarHace, ReemplazarHace
    <3>. QED
      BY <3>1, <3>2, <3>3
  <2>5. \A e \in ToSet(tlb') : e \in ToSet(tlb) \/ (e.pid = p /\ Refiere(p, e.frame))
    BY <2>1, <2>4, RefiereSuyos
  <2>6. \/ Encontrada(p, hilo[p].fr)
        \/ hilo'[p].fr = hilo[p].fr /\ hilo'[p].frs = hilo[p].frs
    BY <1>19, ActualizarHace, ReemplazarHace
  <2>7. CASE Encontrada(p, hilo[p].fr)
    BY <2>1, <2>2, <2>5, <2>7, AlcanceEncontrada, RefiereSuyos
  <2>8. CASE hilo'[p].fr = hilo[p].fr /\ hilo'[p].frs = hilo[p].frs
    <3>1. \A g \in ToSet(hilo[p].frs) : Refiere(p, g)
      BY <2>1 DEF Refiere
    <3>. QED
      BY <2>2, <2>5, <2>8, <3>1, RefiereSuyos DEF Alcance
  <2>. QED
    BY <2>6, <2>7, <2>8
<1>20. ASSUME Copiar(p)  PROVE Alcance(p)
  <2>1. hilo'[p] = Libre /\ tlb' = tlb /\ \A k \in Claves : pag'[k].frame = pag[k].frame
    BY <1>20, CopiarHace, Zenon
  <2>. QED
    BY <1>1, <2>1, AlcanceVacio DEF Libre
<1>21. ASSUME QuitarPagina(p)  PROVE Alcance(p)
  <2>1. hilo'[p] = Libre /\ tlb' = tlb /\ \A k \in Claves : pag'[k].frame = pag[k].frame
    BY <1>21, QuitarHace, Zenon
  <2>. QED
    BY <1>1, <2>1, AlcanceVacio DEF Libre
<1>22. ASSUME SoltarMarco(p)  PROVE Alcance(p)
  <2>1. /\ hilo[p].pc = "suspender" /\ hilo'[p].frs = hilo[p].frs /\ hilo'[p].fr = hilo[p].fr
        /\ pag' = pag /\ tlb' = tlb
    BY <1>22, SoltarMarcoHace DEF tablas
  <2>. QED
    BY <1>1, <2>1, AlcanceIgual
<1>23. ASSUME TirarSuspendida(p)  PROVE Alcance(p)
  <2>1. /\ hilo[p].pc = "tirar" /\ hilo'[p].frs = hilo[p].frs /\ hilo'[p].fr = hilo[p].fr
        /\ pag' = pag /\ tlb' = tlb
    BY <1>23, TirarHace DEF tablas
  <2>. QED
    BY <1>1, <2>1, AlcanceIgual
<1>24. ASSUME SoltarElResto(p)  PROVE Alcance(p)
  <2>1. hilo'[p] = Libre /\ tlb' = tlb /\ pag' = pag
    BY <1>24, SoltarRestoHace DEF tablas
  <2>. QED
    BY <1>1, <2>1, AlcanceVacio DEF Libre
<1>. QED
  BY <1>2, <1>3, <1>4, <1>5, <1>6, <1>7, <1>8, <1>9, <1>10, <1>11, <1>12, <1>13, <1>14,
     <1>15, <1>16, <1>17, <1>18, <1>19, <1>20, <1>21, <1>22, <1>23, <1>24, Zenon DEF PasoDe

-----------------------------------------------------------------------------
\* What a step does to the frames.

\* The actions that write FRAMES_MEMORIA or what is remembered of it.
LEMMA QuienToca ==
  ASSUME NEW p \in Procesos, PasoDe(p)
  PROVE  \/ marco' = marco /\ manchados' = manchados /\ robados' = robados
         \/ SolicitarFrame(p) \/ BuscarMarco(p) \/ QuitarPagina(p)
         \/ TomarMarcos(p) \/ SoltarMarco(p) \/ SoltarElResto(p)
<1>. USE DEF Resto, historia
<1>1. ASSUME NEW n, MemallocNuevo(p, n) \/ MemallocCrecer(p, n)
      PROVE  marco' = marco /\ manchados' = manchados /\ robados' = robados
  BY <1>1 DEF MemallocNuevo, MemallocCrecer
<1>2. ASSUME UsaPaginas(p)
      PROVE  marco' = marco /\ manchados' = manchados /\ robados' = robados
  BY <1>2 DEF UsaPaginas, Leer, EscribirPagina, GuardarHeader, DesserializarHeader,
     LiberarPagina, Acceder
<1>3. ASSUME \/ Suspender(p) \/ Dessuspender(p) \/ ReservarMarcos(p) \/ NegarMarcos(p)
             \/ CrearPagina(p) \/ OlvidarMarco(p) \/ ElegirVictima(p) \/ SinVictima(p)
             \/ Expulsar(p) \/ SoltarVictima(p)
      PROVE  marco' = marco /\ manchados' = manchados /\ robados' = robados
  BY <1>3 DEF Suspender, Dessuspender, ReservarMarcos, NegarMarcos, CrearPagina, OlvidarMarco,
     ElegirVictima, SinVictima, Expulsar, SoltarVictima
<1>4. ASSUME \/ BuscarPagina(p) \/ TraerPagina(p) \/ ActualizarTLB(p) \/ ReemplazarTLB(p)
             \/ Copiar(p) \/ TirarSuspendida(p)
      PROVE  marco' = marco /\ manchados' = manchados /\ robados' = robados
  BY <1>4 DEF BuscarPagina, TraerPagina, ActualizarTLB, ReemplazarTLB, Copiar, TirarSuspendida
<1>. QED
  BY <1>1, <1>2, <1>3, <1>4 DEF PasoDe

\* What is remembered only grows, and nobody is robbed before a frame is released.
LEMMA Recuerdos ==
  ASSUME Base, NEW p \in Procesos, PasoDe(p)
  PROVE  /\ manchados \subseteq manchados' /\ robados \subseteq robados'
         /\ robados' # robados => manchados' # {}
<1>1. CASE SolicitarFrame(p) \/ BuscarMarco(p)
  BY <1>1, SolicitarHace, BuscarMarcoHace DEF Resto, historia
<1>2. CASE QuitarPagina(p)
  BY <1>2 DEF QuitarPagina
<1>3. CASE TomarMarcos(p)
  BY <1>3, TomarHace
<1>4. CASE SoltarMarco(p)
  BY <1>4, SoltarMarcoHace
<1>5. CASE SoltarElResto(p)
  <2>1. ASSUME Fija  PROVE manchados \subseteq manchados'
    <3>1. manchados \subseteq Marcos /\ \A f \in Marcos : f \in manchados => f \in manchados'
      BY <1>5, <2>1, SoltarRestoHace DEF Base, TypeOK
    <3>. QED
      BY <3>1
  <2>. QED
    BY <1>5, <2>1, SoltarRestoHace
<1>. QED
  BY <1>1, <1>2, <1>3, <1>4, <1>5, QuienToca

\* With fixed assignment a frame only changes hands from nobody, or when it is released by a
\* suspension or taken twice; who had it then, and who gets it, are robbed.
LEMMA Traspasos ==
  ASSUME Base, Fija, NEW p \in Procesos, PasoDe(p), NEW f \in Marcos
  PROVE  /\ marco'[f].pid = marco[f].pid \/ marco[f].pid = Nadie \/ f \in manchados'
         /\ marco'[f].pid # marco[f].pid =>
               \/ marco'[f].pid = Nadie
               \/ marco'[f].pid = p /\ (f \in manchados' => p \in robados')
         /\ f \in manchados' \ manchados =>
               /\ marco[f].pid \in robados' \union {Nadie}
               /\ marco'[f].pid \in robados' \union {Nadie}
         /\ marco'[f].pid = Nadie /\ marco'[f].ocupado => marco[f].pid = Nadie /\ marco[f].ocupado
<1>0. TypeOK /\ Nadie \notin Procesos /\ marco \in [Marcos -> TipoMarco]
  BY Tipos, NadieAssumption DEF Base
<1>1. ASSUME NEW g \in MarcosLibres(p), NEW b \in BOOLEAN, marco' = [marco EXCEPT ![g].ocupado = b],
             manchados' = manchados
      PROVE  /\ marco'[f].pid = marco[f].pid /\ manchados' = manchados
             /\ marco[f].pid = Nadie => marco'[f] = marco[f]
  <2>1. g \in Marcos /\ marco[g].pid = p
    BY <1>1 DEF MarcosLibres
  <2>. QED
    BY <1>0, <1>1, <2>1, MarcarTipo
<1>2. CASE SolicitarFrame(p) \/ BuscarMarco(p)
  <2>1. /\ manchados' = manchados
        /\ \/ marco' = marco
           \/ \E g \in MarcosLibres(p), b \in BOOLEAN : marco' = [marco EXCEPT ![g].ocupado = b]
    BY <1>2, SolicitarHace, BuscarMarcoHace DEF Resto, historia
  <2>. QED
    BY <1>1, <2>1
<1>3. CASE QuitarPagina(p)
  <2>1. /\ hilo[p].frs[1] \in Marcos /\ marco' = [marco EXCEPT ![hilo[p].frs[1]].ocupado = FALSE]
        /\ manchados' = manchados
    BY <1>3, QuitarHace
  <2>2. marco'[f].pid = marco[f].pid /\ (marco'[f] = marco[f] \/ ~marco'[f].ocupado)
    BY <1>0, <2>1, MarcarTipo
  <2>. QED
    BY <2>1, <2>2
<1>4. CASE TomarMarcos(p)
  <2>1. /\ marco'[f].ocupado = marco[f].ocupado
        /\ marco'[f].pid = IF f \in ToSet(hilo[p].frs) THEN p ELSE marco[f].pid
        /\ manchados' = manchados \union {g \in ToSet(hilo[p].frs) : marco[g].pid # Nadie}
        /\ f \in ToSet(hilo[p].frs) =>
              /\ marco[f].pid # Nadie => marco[f].pid \in robados'
              /\ f \in manchados' => p \in robados'
    BY <1>4, TomarHace
  <2>. QED
    BY <1>0, <2>1
<1>5. CASE SoltarMarco(p)
  <2>. DEFINE g == pag[Suspendida(p)].frame
  <2>1. \/ marco' = marco /\ manchados' = manchados
        \/ /\ g \in Marcos /\ marco' = [marco EXCEPT ![g] = [ocupado |-> FALSE, pid |-> Nadie]]
           /\ manchados' = manchados \union {g}
           /\ robados' = robados \union ({p, marco[g].pid} \ {Nadie})
    BY <1>5, SoltarMarcoHace
  <2>. HIDE DEF g
  <2>. QED
    BY <1>0, <2>1
<1>6. CASE SoltarElResto(p)
  <2>1. /\ marco[f].pid # p => marco'[f] = marco[f] /\ (f \in manchados' <=> f \in manchados)
        /\ marco[f].pid = p => marco'[f].pid = Nadie /\ f \in manchados' /\ p \in robados'
    BY <1>6, SoltarRestoHace
  <2>2. marco[f].pid = p => ~marco'[f].ocupado
    BY <1>6 DEF SoltarElResto
  <2>. QED
    BY <1>0, <2>1, <2>2
<1>7. CASE marco' = marco /\ manchados' = manchados /\ robados' = robados
  BY <1>7
<1>. QED
  BY <1>2, <1>3, <1>4, <1>5, <1>6, <1>7, QuienToca

\* A process only refers to its own frames, but for those released or taken twice.
LEMMA PropiedadSigue ==
  ASSUME Base, PropiedadOK, Next, NEW p \in Procesos, PasoDe(p)
  PROVE  PropiedadOK'
<1>1. conf' = conf /\ (Fija' <=> Fija) /\ Marcos' = Marcos
  BY ConfQuieta DEF Fija, Marcos
<1>2. manchados' = {} => robados' = {}
  BY Recuerdos DEF PropiedadOK
<1>3. CASE ~Fija
  BY <1>1, <1>2, <1>3, Zenon DEF PropiedadOK
<1>4. CASE Fija
  <2>1. Alcance(p) /\ Nadie \notin Procesos
    BY <1>4, AlcanceDelPaso, NadieAssumption
  <2>2. \A q \in Procesos \ {p} : hilo'[q] = hilo[q]
    BY SoloElSuyo
  <2>3. ASSUME NEW q \in Procesos, NEW f \in Marcos, Refiere(q, f)'
        PROVE  Refiere(q, f) \/ (q = p /\ marco[f].pid = p)
    BY <2>1, <2>2, <2>3, RefiereTras
  <2>4. manchados \subseteq manchados' /\ robados \subseteq robados'
    BY Recuerdos
  <2>5. \A q \in Procesos, f \in Marcos : Refiere(q, f) /\ f \notin manchados => marco[f].pid = q
    BY <1>4 DEF PropiedadOK
  <2>6. \A q \in Procesos \ robados, f \in Marcos :
            marco[f].pid = q \/ Refiere(q, f) => f \notin manchados
    BY <1>4 DEF PropiedadOK
  <2>7. ASSUME NEW q \in Procesos, NEW f \in Marcos, Refiere(q, f)', f \notin manchados'
        PROVE  marco'[f].pid = q
    <3>1. marco[f].pid = q
      BY <2>3, <2>4, <2>5, <2>7
    <3>. QED
      BY <1>4, <2>1, <2>7, <3>1, Traspasos
  <2>8. ASSUME NEW q \in Procesos, q \notin robados', NEW f \in Marcos,
               marco'[f].pid = q \/ Refiere(q, f)', f \in manchados'
        PROVE  FALSE
    <3>1. /\ marco'[f].pid # marco[f].pid =>
                \/ marco'[f].pid = Nadie
                \/ marco'[f].pid = p /\ p \in robados'
          /\ f \notin manchados => /\ marco[f].pid \in robados' \union {Nadie}
                                   /\ marco'[f].pid \in robados' \union {Nadie}
      BY <1>4, <2>8, Traspasos
    <3>2. q # Nadie /\ q \notin robados
      BY <2>1, <2>4, <2>8
    <3>3. CASE marco'[f].pid = q
      BY <2>6, <2>8, <3>1, <3>2, <3>3
    <3>4. CASE Refiere(q, f)'
      <4>1. Refiere(q, f) \/ marco[f].pid = q
        BY <2>3, <3>4
      <4>2. f \notin manchados
        BY <2>6, <3>2, <4>1
      <4>3. marco[f].pid = q
        BY <2>5, <4>1, <4>2
      <4>. QED
        BY <2>8, <3>1, <3>2, <4>2, <4>3
    <3>. QED
      BY <2>8, <3>3, <3>4
  <2>9. ASSUME NEW f \in Marcos, marco'[f].pid = Nadie  PROVE ~marco'[f].ocupado
    <3>1. marco[f].pid = Nadie => ~marco[f].ocupado
      BY <1>4 DEF PropiedadOK
    <3>. QED
      BY <1>4, <2>9, <3>1, Traspasos
  <2>. QED
    BY <1>1, <1>2, <2>7, <2>8, <2>9, Zenon DEF PropiedadOK
<1>. QED
  BY <1>3, <1>4

\* A step of a process that is suspended after it.
LEMMA QuienSuspende ==
  ASSUME Base, NEW p \in Procesos, PasoDe(p)
  PROVE  /\ \A q \in Procesos \ {p} : q \in suspendidos' <=> q \in suspendidos
         /\ p \in suspendidos' =>
               Suspender(p) \/ SoltarMarco(p) \/ TirarSuspendida(p) \/ SoltarElResto(p)
<1>. USE DEF Resto, En
<1>0. hilo[p].op = "nada" <=> hilo[p].pc \in PcReposo
  BY DEF Base, HilosOK, ReposoOK
<1>1. p \in suspendidos => hilo[p].pc \in PcReposo
  BY <1>0 DEF Base, HilosOK, ReposoOK
<1>2. ASSUME NEW n, MemallocNuevo(p, n) \/ MemallocCrecer(p, n)
      PROVE  suspendidos' = suspendidos /\ p \notin suspendidos
  BY <1>2, PedirHace
<1>3. ASSUME UsaPaginas(p)
      PROVE  suspendidos' = suspendidos /\ p \notin suspendidos
  BY <1>3, UsaPaginasHace
<1>4. ASSUME Dessuspender(p)
      PROVE  suspendidos' = suspendidos \ {p}
  BY <1>4, DessuspenderHace
<1>5. ASSUME \/ ReservarMarcos(p) \/ NegarMarcos(p) \/ TomarMarcos(p)
             \/ CrearPagina(p) \/ OlvidarMarco(p) \/ ElegirVictima(p) \/ SinVictima(p)
             \/ Expulsar(p) \/ SoltarVictima(p)
      PROVE  suspendidos' = suspendidos /\ hilo[p].pc \notin PcReposo
  BY <1>5, Zenon DEF ReservarMarcos, NegarMarcos, TomarMarcos, CrearPagina, OlvidarMarco,
     ElegirVictima, SinVictima, Expulsar, SoltarVictima, PcReposo
<1>6. ASSUME \/ SolicitarFrame(p) \/ BuscarMarco(p) \/ QuitarPagina(p)
             \/ BuscarPagina(p) \/ TraerPagina(p) \/ ActualizarTLB(p) \/ ReemplazarTLB(p)
             \/ Copiar(p)
      PROVE  suspendidos' = suspendidos /\ hilo[p].pc \notin PcReposo
  BY <1>6, Zenon DEF SolicitarFrame, BuscarMarco, QuitarPagina, BuscarPagina, TraerPagina,
     ActualizarTLB, ReemplazarTLB, Copiar, PcReposo
<1>7. CASE Suspender(p) \/ SoltarMarco(p) \/ TirarSuspendida(p) \/ SoltarElResto(p)
  BY <1>7, SuspenderHace, SoltarMarcoHace, TirarHace, SoltarRestoHace
<1>. QED
  BY <1>1, <1>2, <1>3, <1>4, <1>5, <1>6, <1>7 DEF PasoDe

\* Where a thread goes: what it serves, when it is about to throw a suspended page, and when
\* it is about to replace an entry of the TLB.
LEMMA AdondeVa ==
  ASSUME Base, NEW p \in Procesos, PasoDe(p)
  PROVE  /\ \/ hilo'[p].op = hilo[p].op \/ hilo'[p].op = "nada"
            \/ Dessuspender(p) /\ hilo'[p].op = "volver" /\ Fija /\ tabla[p] # <<>>
            \/ \E op \in Llamadas : PuedePedir(p, op) /\ hilo'[p].op = op
         /\ hilo'[p].pc = "tirar" => SoltarMarco(p) /\ pag[Suspendida(p)].presencia
         /\ hilo'[p].pc = "reemplazar" =>
               \/ ActualizarTLB(p) /\ tlb' = tlb /\ conf.entradas > 0 /\ Len(tlb) >= conf.entradas
               \/ ReemplazarTLB(p) /\ tlb = <<>> /\ hilo[p].pc = "reemplazar"
<1>. DEFINE Va == /\ \/ hilo'[p].op = hilo[p].op \/ hilo'[p].op = "nada"
                  /\ hilo'[p].pc \notin {"tirar", "reemplazar"}
<1>. USE DEF Queda, Libre
<1>1. ASSUME NEW n, MemallocNuevo(p, n) \/ MemallocCrecer(p, n)
      PROVE  /\ PuedePedir(p, "memalloc") /\ hilo'[p].op = "memalloc" /\ "memalloc" \in Llamadas
             /\ hilo'[p].pc \notin {"tirar", "reemplazar"}
  BY <1>1, PedirHace DEF Llamadas
<1>2. ASSUME UsaPaginas(p)
      PROVE  /\ \/ hilo'[p].op = "nada"
                \/ \E op \in Llamadas : PuedePedir(p, op) /\ hilo'[p].op = op
             /\ hilo'[p].pc \notin {"tirar", "reemplazar"}
  BY <1>2, UsaPaginasHace DEF Accesos, Llamadas
<1>3. CASE Suspender(p)
  BY <1>3, SuspenderHace
<1>4. CASE Dessuspender(p)
  BY <1>4, DessuspenderHace
<1>5. ASSUME ReservarMarcos(p) \/ NegarMarcos(p) \/ TomarMarcos(p)  PROVE Va
  BY <1>5, ReservarHace, NegarHace, TomarHace
<1>6. ASSUME SolicitarFrame(p) \/ BuscarMarco(p)  PROVE Va
  BY <1>6, SolicitarHace, BuscarMarcoHace
<1>7. ASSUME CrearPagina(p) \/ OlvidarMarco(p)  PROVE Va
  <2>1. OtroMas(p) /\ hilo[p].faltan > 0 /\ TypeOK
    BY <1>7, CrearHace, OlvidarHace DEF Base
  <2>. QED
    BY <2>1, OtroMasHace
<1>8. ASSUME ElegirVictima(p)  PROVE Va
  BY <1>8, ElegirHace
<1>9. ASSUME SinVictima(p)  PROVE Va
  BY <1>9 DEF SinVictima, En
<1>10. ASSUME Expulsar(p)  PROVE Va
  BY <1>10, ExpulsarHace
<1>11. ASSUME SoltarVictima(p)  PROVE Va
  BY <1>11, SoltarVictimaHace
<1>12. ASSUME NEW fr \in Marcos, Encontrada(p, fr), hilo[p].op \in Accesos,
              Len(hilo[p].frs) < Len(hilo[p].pags)
       PROVE  Va
  BY <1>12, EncontradaHace
<1>13. ASSUME BuscarPagina(p)  PROVE Va
  <2>1. hilo[p].op \in Accesos /\ Len(hilo[p].frs) < Len(hilo[p].pags)
    BY <1>13, BuscarPaginaHace, QuienBusca
  <2>. QED
    BY <1>12, <1>13, <2>1, BuscarPaginaHace
<1>14. ASSUME TraerPagina(p)  PROVE Va
  BY <1>14, TraerHace
<1>15. CASE ActualizarTLB(p)
  <2>1. hilo[p].op \in Accesos /\ Len(hilo[p].frs) < Len(hilo[p].pags) /\ hilo[p].fr \in Marcos
    BY <1>15, ActualizarHace, QuienBusca
  <2>. QED
    BY <1>12, <1>15, <2>1, ActualizarHace
<1>16. CASE ReemplazarTLB(p)
  <2>1. hilo[p].op \in Accesos /\ Len(hilo[p].frs) < Len(hilo[p].pags) /\ hilo[p].fr \in Marcos
        /\ hilo[p].pc = "reemplazar"
    BY <1>16, ReemplazarHace, QuienBusca
  <2>. QED
    BY <1>12, <1>16, <2>1, ReemplazarHace
<1>17. ASSUME Copiar(p) \/ QuitarPagina(p) \/ SoltarElResto(p)  PROVE Va
  <2>1. hilo'[p] = Libre
    BY <1>17, CopiarHace, QuitarHace, SoltarRestoHace, Zenon
  <2>. QED
    BY <2>1
<1>18. CASE SoltarMarco(p)
  BY <1>18, SoltarMarcoHace
<1>19. ASSUME TirarSuspendida(p)  PROVE Va
  BY <1>19, TirarHace
<1>. QED
  BY <1>1, <1>2, <1>3, <1>4, <1>5, <1>6, <1>7, <1>8, <1>9, <1>10, <1>11, <1>13, <1>14, <1>15,
     <1>16, <1>17, <1>18, <1>19 DEF PasoDe

\* A page of a process that was not robbed is in a frame that has its PID.
LEMMA MarcoDePagina ==
  ASSUME Base, PropiedadOK, Fija, NEW p \in Procesos \ robados, NEW k \in Claves, k[1] = p,
         pag[k].frame \in Marcos
  PROVE  marco[pag[k].frame].pid = p /\ pag[k].frame \notin manchados
<1>1. k = <<p, k[2]>> /\ k[2] \in Ids
  BY DEF Claves
<1>2. Refiere(p, pag[k].frame)
  BY <1>1, RefiereSuyos
<1>. QED
  BY <1>2 DEF PropiedadOK

\* A process that ends its suspension with pages has lost frames.
LEMMA SuspensionRoba ==
  ASSUME Base, PropiedadOK, Fija, NEW p \in Procesos, SoltarElResto(p)
  PROVE  p \in robados'
<1>1. CASE p \in robados
  BY <1>1, SoltarRestoHace
<1>2. CASE p \notin robados
  <2>1. tabla[p] # <<>> /\ tabla[p] \in Seq(Ids) /\ Len(tabla[p]) \in Nat
        /\ DOMAIN tabla[p] = 1 .. Len(tabla[p])
    BY SoltarRestoHace, TablaTipo DEF Base, HilosOK, ReposoOK
  <2>2. 1 \in DOMAIN tabla[p] /\ tabla[p][1] \in Ids
    BY <2>1
  <2>. DEFINE k == <<p, tabla[p][1]>>
  <2>3. k \in Claves /\ k[1] = p /\ EnTabla(k)
    BY <2>2 DEF Claves, EnTabla, ToSet
  <2>. HIDE DEF k
  <2>4. pag[k].frame \in Marcos
    BY <2>3 DEF Base, TablasOK
  <2>5. marco[pag[k].frame].pid = p
    BY <1>2, <2>3, <2>4, MarcoDePagina
  <2>. QED
    BY <2>4, <2>5, SoltarRestoHace
<1>. QED
  BY <1>1, <1>2

\* Who comes back from a suspension with pages, or throws one, has been robbed.
LEMMA VolverSigue ==
  ASSUME Base, PropiedadOK, VolverOK, Next, NEW p \in Procesos, PasoDe(p)
  PROVE  VolverOK'
<1>1. conf' = conf /\ (Fija' <=> Fija)
  BY ConfQuieta DEF Fija
<1>2. manchados \subseteq manchados' /\ robados \subseteq robados'
  BY Recuerdos
<1>3. \A q \in Procesos \ {p} : /\ hilo'[q] = hilo[q] /\ tabla'[q] = tabla[q]
                                /\ q \in suspendidos' <=> q \in suspendidos
  BY SoloElSuyo, QuienSuspende
<1>4. hilo'[p].pc = "tirar" => manchados' # {} /\ p \in robados'
  <2>1. SUFFICES ASSUME hilo'[p].pc = "tirar"  PROVE manchados' # {} /\ p \in robados'
    OBVIOUS
  <2>2. SoltarMarco(p) /\ pag[Suspendida(p)].presencia
    BY <2>1, AdondeVa
  <2>3. p # Nadie
    BY NadieAssumption
  <2>. QED
    BY <2>2, <2>3, SoltarMarcoHace
<1>5. ASSUME manchados' = {}, NEW q \in Procesos  PROVE hilo'[q].pc # "tirar"
  BY <1>2, <1>3, <1>4, <1>5 DEF VolverOK
<1>6. ASSUME Fija, NEW q \in Procesos, q \notin robados'
      PROVE  /\ hilo'[q].op # "volver" /\ hilo'[q].pc # "tirar"
             /\ q \in suspendidos' /\ hilo'[q].pc = "libre" => tabla'[q] = <<>>
  <2>0. q \notin robados
    BY <1>2, <1>6
  <2>1. /\ hilo[q].op # "volver" /\ hilo[q].pc # "tirar"
        /\ q \in suspendidos /\ hilo[q].pc = "libre" => tabla[q] = <<>>
    BY <1>6, <2>0 DEF VolverOK
  <2>2. CASE q # p
    BY <1>3, <2>1, <2>2
  <2>3. CASE q = p
    <3>1. hilo'[p].op # "volver"
      <4>1. Dessuspender(p) => hilo[p].pc = "libre" /\ p \in suspendidos
        BY DessuspenderHace DEF Libre
      <4>2. "volver" \notin Llamadas /\ "volver" # "nada"
        BY DEF Llamadas
      <4>. QED
        BY <2>1, <2>3, <4>1, <4>2, AdondeVa
    <3>2. ASSUME p \in suspendidos', hilo'[p].pc = "libre"  PROVE tabla'[p] = <<>>
      <4>1. CASE Suspender(p)
        BY <3>2, <4>1, SuspenderHace DEF Queda, tablas
      <4>2. CASE SoltarMarco(p) \/ TirarSuspendida(p)
        BY <3>2, <4>2, SoltarMarcoHace, TirarHace DEF Queda
      <4>3. CASE SoltarElResto(p)
        BY <1>6, <2>3, <4>3, SuspensionRoba
      <4>. QED
        BY <3>2, <4>1, <4>2, <4>3, QuienSuspende
    <3>. QED
      BY <1>4, <1>6, <2>3, <3>1, <3>2
  <2>. QED
    BY <2>2, <2>3
<1>. QED
  BY <1>1, <1>5, <1>6, Zenon DEF VolverOK

\* The kernel never has more requests in flight than processors.
LEMMA CupoSigue ==
  ASSUME Base, CupoOK, Next, NEW p \in Procesos, PasoDe(p)
  PROVE  CupoOK'
<1>1. conf' = conf /\ conf.hilos \in Nat /\ IsFiniteSet(Procesos)
  BY ConfQuieta, ConfTipo, PaginasAssumption DEF Base
<1>2. \A q \in Procesos \ {p} : hilo'[q] = hilo[q]
  BY SoloElSuyo
<1>3. IsFiniteSet(Pidiendo) /\ Cardinality(Pidiendo) \in Nat
  <2>1. Pidiendo \subseteq Procesos
    BY DEF Pidiendo
  <2>. QED
    BY <1>1, <2>1, FS_Subset, FS_CardinalityType
<1>4. CASE hilo'[p].op \in Llamadas => hilo[p].op \in Llamadas
  <2>1. Pidiendo' \subseteq Pidiendo
    BY <1>2, <1>4 DEF Pidiendo
  <2>2. Cardinality(Pidiendo') <= Cardinality(Pidiendo) /\ Cardinality(Pidiendo') \in Nat
    BY <1>3, <2>1, FS_Subset, FS_CardinalityType
  <2>. QED
    BY <1>1, <1>3, <2>2 DEF CupoOK
<1>5. CASE hilo'[p].op \in Llamadas /\ hilo[p].op \notin Llamadas
  <2>1. Cardinality(Pidiendo) < conf.hilos
    <3>1. \E op \in Llamadas : PuedePedir(p, op)
      BY <1>5, AdondeVa DEF Llamadas
    <3>. QED
      BY <3>1 DEF PuedePedir, Pidiendo
  <2>2. Pidiendo' = Pidiendo \union {p} /\ p \notin Pidiendo
    BY <1>2, <1>5 DEF Pidiendo
  <2>3. Cardinality(Pidiendo') = Cardinality(Pidiendo) + 1
    BY <1>3, <2>2, FS_AddElement
  <2>. QED
    BY <1>1, <1>3, <2>1, <2>3 DEF CupoOK
<1>. QED
  BY <1>4, <1>5

\* With one request at a time nobody else has one.
LEMMA UnoSolo ==
  ASSUME TypeOK, CupoOK, conf.hilos <= 1, NEW p \in Pidiendo, NEW q \in Pidiendo
  PROVE  p = q
<1>1. SUFFICES ASSUME p # q  PROVE FALSE
  OBVIOUS
<1>2. IsFiniteSet(Pidiendo) /\ Cardinality(Pidiendo) \in Nat /\ conf.hilos \in Nat
  <2>1. Pidiendo \subseteq Procesos /\ IsFiniteSet(Procesos)
    BY PaginasAssumption DEF Pidiendo
  <2>. QED
    BY <2>1, ConfTipo, FS_Subset, FS_CardinalityType
<1>3. IsFiniteSet({p}) /\ Cardinality({p}) = 1
  BY FS_Singleton
<1>4. Cardinality({p} \union {q}) = 2
  BY <1>1, <1>3, FS_AddElement
<1>5. {p} \union {q} \subseteq Pidiendo
  OBVIOUS
<1>6. 2 <= Cardinality(Pidiendo)
  BY <1>2, <1>4, <1>5, FS_Subset
<1>. QED
  BY <1>2, <1>6 DEF CupoOK

\* An entry of the TLB that must be replaced is still there.
LEMMA TLBHaySigue ==
  ASSUME Base, PropiedadOK, VolverOK, CupoOK, TLBHay, Next, NEW p \in Procesos, PasoDe(p)
  PROVE  TLBHay'
<1>1. conf' = conf /\ conf.entradas \in Nat /\ TypeOK /\ tlb \in Seq(TipoEntrada)
      /\ Len(tlb) \in Nat
  BY ConfQuieta, ConfTipo, Tipos, LenProperties DEF Base
<1>2. \A q \in Procesos \ {p} : hilo'[q] = hilo[q]
  BY SoloElSuyo
<1>3. ASSUME ActualizarTLB(p) \/ ReemplazarTLB(p)
      PROVE  /\ tlb' = tlb \/ tlb' # <<>>
             /\ conf.entradas = 0 => tlb' = tlb
  <2>1. Entrada(p) \in TipoEntrada
    BY <1>3, ActualizarHace, ReemplazarHace, EntradaTipo
  <2>2. Append(tlb, Entrada(p)) # <<>>
    BY <1>1, <2>1, AppendProperties
  <2>3. tlb # <<>> => Append(Quedan, Entrada(p)) # <<>>
    <3>1. SUFFICES ASSUME tlb # <<>>  PROVE Append(Quedan, Entrada(p)) # <<>>
      OBVIOUS
    <3>2. Quedan \in Seq(TipoEntrada)
      BY <1>1, <3>1, HeadTailProperties DEF Quedan
    <3>. QED
      BY <2>1, <3>2, AppendProperties
  <2>4. ReemplazarTLB(p) => conf.entradas # 0
    BY ReemplazarHace DEF TLBHay
  <2>. QED
    BY <1>1, <1>3, <2>2, <2>3, <2>4, ActualizarHace, ReemplazarHace
<1>4. ASSUME Expulsar(p), tlb = <<>>  PROVE tlb' = tlb
  <2>1. Len(tlb) = 0
    BY <1>4
  <2>2. tlb' = tlb \/ \E m \in 1 .. Len(tlb) : SinEl(m, tlb, tlb')
    BY <1>4, ExpulsarHace, Zenon
  <2>. QED
    BY <2>1, <2>2
<1>5. ASSUME conf.entradas = 0, NEW q \in Procesos  PROVE tlb' = <<>> /\ hilo'[q].pc # "reemplazar"
  <2>1. tlb = <<>> /\ \A r \in Procesos : hilo[r].pc # "reemplazar"
    BY <1>5 DEF TLBHay
  <2>2. tlb' = <<>>
    BY <1>3, <1>4, <1>5, <2>1, QuienEscribeTLB
  <2>3. hilo'[p].pc # "reemplazar"
    BY <1>5, <2>1, AdondeVa
  <2>. QED
    BY <1>2, <2>1, <2>2, <2>3
<1>6. ASSUME conf.hilos <= 1, manchados' = {}, NEW q \in Procesos, hilo'[q].pc = "reemplazar"
      PROVE  tlb' # <<>>
  <2>1. manchados = {} /\ robados = {}
    BY <1>6, Recuerdos DEF PropiedadOK
  <2>2. \A r \in Procesos : hilo[r].pc = "reemplazar" => tlb # <<>>
    BY <1>6, <2>1 DEF TLBHay
  <2>3. CASE q = p
    BY <1>1, <1>6, <2>2, <2>3, AdondeVa
  <2>4. CASE q # p
    <3>1. hilo[q].pc = "reemplazar" /\ tlb # <<>>
      BY <1>2, <1>6, <2>2, <2>4
    <3>2. ~Expulsar(p)
      <4>1. SUFFICES ASSUME Expulsar(p)  PROVE FALSE
        OBVIOUS
      <4>2. hilo[q].op \in Accesos
        BY <3>1, QuienBusca
      <4>3. hilo[p].op \in Altas \union Accesos
        BY <4>1, ExpulsarHace, QuienReemplaza
      <4>4. hilo[p].op # "volver"
        <5>1. hilo[p].op = "volver" => Fija
          BY DEF Base, HilosOK, AltaOK, Altas
        <5>. QED
          BY <2>1, <5>1 DEF VolverOK
      <4>5. p \in Pidiendo /\ q \in Pidiendo
        BY <4>2, <4>3, <4>4 DEF Pidiendo, Altas, Accesos, Llamadas
      <4>. QED
        BY <1>1, <1>6, <2>4, <4>5, UnoSolo
    <3>. QED
      BY <1>3, <3>1, <3>2, QuienEscribeTLB
  <2>. QED
    BY <2>3, <2>4
<1>. QED
  BY <1>1, <1>5, <1>6, Zenon DEF TLBHay

-----------------------------------------------------------------------------
\* What a step does not disturb.

\* The pages of p and the frames they may be in are the same.
MiasQuietas(p) ==
    /\ conf' = conf
    /\ \A k \in Claves : /\ (Mia(p, k)' <=> Mia(p, k))
                         /\ pag'[k].frame = pag[k].frame
                         /\ pag'[k].presencia = pag[k].presencia

\* They are when no page enters or leaves a table or moves.
LEMMA MiasQuietasSi ==
  ASSUME NEW p, conf' = conf, tabla' = tabla,
         \A k \in Claves : /\ pag'[k].frame = pag[k].frame
                           /\ pag'[k].presencia = pag[k].presencia
  PROVE  MiasQuietas(p)
BY DEF MiasQuietas, Mia, EnTabla, Fija

\* The pages stay where they are if only bits of use, locks and threads change.
LEMMA EnSitioQuieto ==
  ASSUME Base, NEW p, EnSitio(p), conf' = conf, tabla' = tabla, marco' = marco, ram' = ram,
         enSwap' = enSwap, tlb' = tlb,
         \A k \in Claves : /\ pag'[k].frame = pag[k].frame
                           /\ pag'[k].presencia = pag[k].presencia
                           /\ pag'[k].modificado = pag[k].modificado
  PROVE  EnSitio(p)'
<1>1. MiasQuietas(p) /\ Marcos' = Marcos /\ (Fija' <=> Fija) /\ (Fiel' <=> Fiel)
  BY MiasQuietasSi DEF Marcos, Fija, Fiel
<1>2. MarcosOK(p)'
  BY <1>1 DEF EnSitio, MarcosOK, MiasQuietas, De, EnMarco
<1>3. AusentesOK(p)'
  BY <1>1 DEF EnSitio, AusentesOK, MiasQuietas, Lleno, De
<1>4. RamOK(p) => RamOK(p)'
  BY <1>1 DEF RamOK, MiasQuietas
<1>5. TLBOK(p) => TLBOK(p)'
  <2>1. SUFFICES ASSUME Fija, TLBOK(p)  PROVE TLBOK(p)'
    BY <1>1 DEF TLBOK
  <2>2. ASSUME NEW e \in ToSet(tlb), e.pid = p
        PROVE  EnTabla(<<p, e.pag>>)' /\ EnMarco(<<p, e.pag>>, e.frame)'
    <3>1. <<p, e.pag>> \in Claves
      <4>1. e \in TipoEntrada
        BY <2>2, Tipos DEF Base, ToSet
      <4>. QED
        BY <2>2, <4>1 DEF TipoEntrada, Claves
    <3>2. EnTabla(<<p, e.pag>>) /\ EnMarco(<<p, e.pag>>, e.frame)
      BY <2>1, <2>2 DEF TLBOK
    <3>. QED
      BY <3>1, <3>2 DEF EnTabla, EnMarco
  <2>. QED
    BY <1>1, <2>1, <2>2 DEF TLBOK, Unicas
<1>. QED
  BY <1>1, <1>2, <1>3, <1>4, <1>5 DEF EnSitio

\* A thread that neither replaces nor looks for a page has nothing to keep.
LEMMA EnReposo ==
  ASSUME NEW p, hilo'[p].op \notin Accesos,
         hilo'[p].pc \notin {"crear", "traer", "elegir", "expulsar", "soltar", "actualizar",
                             "reemplazar"}
  PROVE  EnCurso(p)'
BY DEF EnCurso, ViajeOK, LlenoOK, BuscadaOK, VictimaOK, HalladasOK, LimpiaOK, EntradasOK

\* The marked frames still have a page if the thread did not let go of one.
LEMMA CubiertosQuieto ==
  ASSUME Base, NEW p, CubiertosOK(p), MiasQuietas(p), marco' = marco,
         \A f \in Marcos : Ocupa(p, f) => Ocupa(p, f)'
  PROVE  CubiertosOK(p)'
<1>1. Marcos' = Marcos /\ (Fija' <=> Fija)
  BY DEF MiasQuietas, Marcos, Fija
<1>. QED
  BY <1>1 DEF CubiertosOK, De, EnMarco, MiasQuietas

\* The locked pages are still locked by the thread.
LEMMA TrabasQuieto ==
  ASSUME NEW p, TrabasOK(p), MiasQuietas(p), \A k \in Claves : pag'[k].lock = pag[k].lock,
         \A k \in Claves : Traba(p, k) => Traba(p, k)'
  PROVE  TrabasOK(p)'
BY DEF TrabasOK, MiasQuietas

\* The process has the frames it had.
LEMMA CuotaQuieta ==
  ASSUME NEW p, CuotaOK(p), conf' = conf, \A f \in Marcos : marco'[f].pid = marco[f].pid,
         Tiene(p)' <=> Tiene(p)
  PROVE  CuotaOK(p)'
<1>1. Marcos' = Marcos /\ (Fija' <=> Fija)
  BY DEF Marcos, Fija
<1>2. Propios(p)' = Propios(p)
  BY <1>1 DEF Propios
<1>. QED
  BY <1>1, <1>2 DEF CuotaOK

\* A step that changes neither the pages nor the frames, of a thread that neither has pages
\* nor a frame, and gets none.
LEMMA SuyoQuieto ==
  ASSUME Base, NEW p \in Procesos, Suyo(p), conf' = conf, tabla' = tabla, marco' = marco,
         pag' = pag, ram' = ram, enSwap' = enSwap, tlb' = tlb,
         hilo[p].op \notin Accesos, hilo[p].pc \notin {"crear", "traer", "soltar"},
         Tiene(p)' <=> Tiene(p), EnCurso(p)'
  PROVE  Suyo(p)'
<1>1. MiasQuietas(p)
  BY MiasQuietasSi
<1>2. EnSitio(p)'
  BY EnSitioQuieto DEF Suyo
<1>3. CubiertosOK(p)'
  BY <1>1, CubiertosQuieto DEF Suyo, Ocupa
<1>4. TrabasOK(p)'
  BY <1>1, TrabasQuieto DEF Suyo, Traba
<1>5. CuotaOK(p)'
  BY CuotaQuieta DEF Suyo
<1>. QED
  BY <1>2, <1>3, <1>4, <1>5 DEF Suyo

\* Nothing changes for p when nothing it depends on does.
LEMMA SuyoIgual ==
  ASSUME Base, NEW p \in Procesos, Suyo(p), conf' = conf, tabla' = tabla, marco' = marco,
         pag' = pag, ram' = ram, enSwap' = enSwap, tlb' = tlb, hilo'[p] = hilo[p]
  PROVE  Suyo(p)'
<1>1. MiasQuietas(p) /\ Marcos' = Marcos /\ (Fija' <=> Fija) /\ (Fiel' <=> Fiel)
  BY MiasQuietasSi DEF Marcos, Fija, Fiel
<1>2. EnSitio(p)'
  BY EnSitioQuieto DEF Suyo
<1>3. Halladas(p)' = Halladas(p) /\ Buscada(p)' = Buscada(p)
  BY DEF Halladas, Buscada
<1>4. CubiertosOK(p)'
  BY <1>1, CubiertosQuieto DEF Suyo, Ocupa
<1>5. TrabasOK(p)'
  BY <1>1, <1>3, TrabasQuieto DEF Suyo, Traba
<1>6. CuotaOK(p)'
  BY CuotaQuieta DEF Suyo, Tiene
<1>7. \A k : Mia(p, k)' <=> Mia(p, k)
  BY DEF Mia, EnTabla, Fija
<1>8. EnCurso(p)'
  <2>1. ViajeOK(p) => ViajeOK(p)'
    BY <1>1, <1>7 DEF ViajeOK, De, EnMarco
  <2>2. LlenoOK(p) => LlenoOK(p)'
    BY <1>1 DEF LlenoOK, Lleno, De
  <2>3. BuscadaOK(p) => BuscadaOK(p)'
    BY <1>3 DEF BuscadaOK
  <2>4. VictimaOK(p) => VictimaOK(p)'
    BY <1>3, <1>7 DEF VictimaOK
  <2>5. HalladasOK(p) => HalladasOK(p)'
    BY <1>3 DEF HalladasOK
  <2>6. LimpiaOK(p) => LimpiaOK(p)'
    BY DEF LimpiaOK
  <2>7. EntradasOK(p) => EntradasOK(p)'
    BY <1>1, <1>3 DEF EntradasOK
  <2>. QED
    BY <1>1, <2>1, <2>2, <2>3, <2>4, <2>5, <2>6, <2>7 DEF Suyo, EnCurso
<1>. QED
  BY <1>2, <1>4, <1>5, <1>6, <1>8 DEF Suyo

-----------------------------------------------------------------------------
\* A step of p: what is p's stays in order.

\* Before a step that leaves p among the processes considered.
Sigue(p) ==
    /\ Base /\ Duenios /\ conf' = conf
    /\ Suyo(p) /\ Vale(p) /\ Vale(p)'

\* What the request of a thread that is at rest, or asks for pages, is.
LEMMA PcYOp ==
  ASSUME Base, NEW p \in Procesos
  PROVE  /\ hilo[p].op = "nada" <=> hilo[p].pc \in PcReposo
         /\ hilo[p].pc = "libre" => hilo[p] = Libre
         /\ hilo[p].pc \in {"reservar", "tomar"} =>
               hilo[p].op = "memalloc" /\ tabla[p] = <<>> /\ Fija
         /\ hilo[p].pc \in {"pedir", "crear"} => hilo[p].op \in Altas
         /\ hilo[p].op \in Altas => hilo[p].op \notin Accesos
<1>1. ReposoOK(p) /\ AltaOK(p) /\ AccesoOK(p)
  BY DEF Base, HilosOK
<1>2. \A op \in Altas : op \notin Accesos /\ op # "nada"
  BY DEF Altas, Accesos
<1>3. hilo[p].op \in Altas \union Accesos \union {"nada"}
  BY <1>1 DEF ReposoOK
<1>4. hilo[p].op \in Accesos => hilo[p].pc \in PcAcceso
  BY <1>1 DEF AccesoOK
<1>5. hilo[p].pc \in {"reservar", "tomar", "pedir", "crear"} => hilo[p].op \in Altas
  BY <1>1, <1>3, <1>4 DEF ReposoOK, PcReposo, PcAcceso
<1>6. hilo[p].pc \in {"reservar", "tomar"} => tabla[p] = <<>> /\ Fija
  BY <1>1, <1>5 DEF AltaOK
<1>7. hilo[p].op = "volver" => tabla[p] # <<>>
  BY <1>1 DEF AltaOK, Altas
<1>. QED
  BY <1>1, <1>2, <1>5, <1>6, <1>7 DEF ReposoOK, Altas

\* A request for pages has nothing in hand yet.
LEMMA PedirSuyo ==
  ASSUME NEW p \in Procesos, Sigue(p), NEW n, MemallocNuevo(p, n) \/ MemallocCrecer(p, n)
  PROVE  Suyo(p)'
<1>1. /\ hilo[p] = Libre
      /\ hilo'[p].pc = (IF tabla[p] = <<>> /\ Fija THEN "reservar" ELSE "pedir")
      /\ hilo'[p].op = "memalloc"
      /\ marco' = marco /\ tabla' = tabla /\ pag' = pag /\ ram' = ram /\ enSwap' = enSwap
      /\ tlb' = tlb
  BY PedirHace DEF Sigue, Queda, tablas, datos
<1>2. EnCurso(p)'
  BY <1>1, EnReposo DEF Accesos
<1>3. CASE Fija \/ tabla[p] # <<>>
  <2>1. Tiene(p)' <=> Tiene(p)
    BY <1>1, <1>3 DEF Tiene, Libre
  <2>. QED
    BY <1>1, <1>2, <2>1, SuyoQuieto DEF Sigue, Libre, Accesos
<1>4. CASE ~Fija
  <2>1. Base /\ Suyo(p) /\ conf' = conf /\ (Fija' <=> Fija)
    BY DEF Sigue, Fija
  <2>2. hilo[p].op \notin Accesos /\ hilo[p].pc \notin {"crear", "traer", "soltar"}
    BY <1>1 DEF Libre, Accesos
  <2>3. MiasQuietas(p)
    BY <1>1, <2>1, MiasQuietasSi
  <2>4. EnSitio(p)' /\ CubiertosOK(p)' /\ TrabasOK(p)'
    BY <1>1, <2>1, <2>2, <2>3, EnSitioQuieto, CubiertosQuieto, TrabasQuieto
       DEF Suyo, Ocupa, Traba
  <2>. QED
    BY <1>2, <1>4, <2>1, <2>4 DEF Suyo, CuotaOK
<1>. QED
  BY <1>3, <1>4

\* Nor has one that looks for pages: it has found none.
LEMMA UsaPaginasSuyo ==
  ASSUME NEW p \in Procesos, Sigue(p), UsaPaginas(p)
  PROVE  Suyo(p)'
<1>1. /\ hilo[p] = Libre /\ Base /\ Suyo(p) /\ conf' = conf
      /\ marco' = marco /\ tabla' = tabla /\ pag' = pag /\ ram' = ram /\ enSwap' = enSwap
      /\ tlb' = tlb
  BY UsaPaginasHace DEF Sigue, tablas, datos
<1>2. CASE hilo' = hilo
  BY <1>1, <1>2, SuyoIgual
<1>3. ASSUME NEW op \in Accesos, NEW pags \in Seq(Ids),
             Queda(p, "buscar", op, pags, <<>>, 0, SinMarco, Nadie),
             Len(pags) \in 1 .. 2, DOMAIN pags = 1 .. Len(pags),
             \A i \in DOMAIN pags : EnTabla(<<p, pags[i]>>)
      PROVE  Suyo(p)'
  <2>1. tabla[p] # <<>>
    <3>1. 1 \in DOMAIN pags
      BY <1>3
    <3>2. EnTabla(<<p, pags[1]>>)
      BY <1>3, <3>1
    <3>. QED
      BY <3>2 DEF EnTabla, ToSet
  <2>2. Tiene(p)' <=> Tiene(p)
    BY <1>1, <2>1 DEF Tiene
  <2>3. EnCurso(p)'
    <3>1. hilo'[p].pc = "buscar" /\ hilo'[p].frs = <<>> /\ DOMAIN hilo'[p].frs = {}
      BY <1>3 DEF Queda
    <3>2. Halladas(p)' = {}
      BY <3>1 DEF Halladas
    <3>. QED
      BY <3>1, <3>2 DEF EnCurso, ViajeOK, LlenoOK, BuscadaOK, VictimaOK, HalladasOK, LimpiaOK,
         EntradasOK
  <2>. QED
    BY <1>1, <2>2, <2>3, SuyoQuieto DEF Libre, Accesos
<1>. QED
  BY <1>2, <1>3, UsaPaginasHace DEF Sigue

\* A suspension starts from rest and touches no page.
LEMMA SuspenderSuyo ==
  ASSUME NEW p \in Procesos, Sigue(p), Suspender(p)
  PROVE  Suyo(p)'
<1>1. /\ hilo[p] = Libre /\ Base /\ Suyo(p) /\ conf' = conf
      /\ marco' = marco /\ tabla' = tabla /\ pag' = pag /\ ram' = ram /\ enSwap' = enSwap
      /\ tlb' = tlb
  BY SuspenderHace DEF Sigue, tablas, datos
<1>2. CASE hilo' = hilo
  BY <1>1, <1>2, SuyoIgual
<1>3. CASE /\ tabla[p] # <<>>
           /\ Queda(p, "suspender", "nada", <<>>, <<>>, Len(tabla[p]), SinMarco, Nadie)
  <2>1. Tiene(p)' <=> Tiene(p)
    BY <1>1, <1>3 DEF Tiene
  <2>2. EnCurso(p)'
    BY <1>3, EnReposo DEF Queda, Accesos
  <2>. QED
    BY <1>1, <2>1, <2>2, SuyoQuieto DEF Libre, Accesos
<1>. QED
  BY <1>2, <1>3, SuspenderHace DEF Sigue

\* With fixed assignment only a process that was robbed comes back with pages.
LEMMA DessuspenderSuyo ==
  ASSUME NEW p \in Procesos, Sigue(p), Dessuspender(p)
  PROVE  Suyo(p)'
<1>1. /\ hilo[p] = Libre /\ Base /\ Suyo(p) /\ conf' = conf /\ p \in suspendidos
      /\ marco' = marco /\ tabla' = tabla /\ pag' = pag /\ ram' = ram /\ enSwap' = enSwap
      /\ tlb' = tlb
  BY DessuspenderHace DEF Sigue, tablas, datos
<1>2. hilo' = hilo
  <2>1. Fija => tabla[p] = <<>>
    BY <1>1 DEF Sigue, Vale, Duenios, VolverOK, Libre
  <2>. QED
    BY <1>1, <2>1, DessuspenderHace
<1>. QED
  BY <1>1, <1>2, SuyoIgual

\* Frames that are only looked for are nobody's still.
LEMMA ReservarSuyo ==
  ASSUME NEW p \in Procesos, Sigue(p), ReservarMarcos(p) \/ NegarMarcos(p)
  PROVE  Suyo(p)'
<1>1. /\ hilo[p].pc = "reservar" /\ Base /\ Suyo(p) /\ conf' = conf
      /\ \/ hilo'[p].pc = "tomar" /\ hilo'[p].op = "memalloc"
         \/ hilo'[p] = Libre
      /\ marco' = marco /\ tabla' = tabla /\ pag' = pag /\ ram' = ram /\ enSwap' = enSwap
      /\ tlb' = tlb
  BY ReservarHace, NegarHace DEF Sigue, tablas, datos
<1>2. hilo[p].op = "memalloc" /\ tabla[p] = <<>>
  BY <1>1, PcYOp
<1>3. EnCurso(p)'
  BY <1>1, EnReposo DEF Libre, Accesos
<1>4. Tiene(p)' <=> Tiene(p)
  BY <1>1, <1>2 DEF Tiene, Libre
<1>. QED
  BY <1>1, <1>2, <1>3, <1>4, SuyoQuieto DEF Accesos

\* A process that was not robbed does not come back with pages.
LEMMA OlvidarSuyo ==
  ASSUME NEW p \in Procesos, Sigue(p), OlvidarMarco(p)
  PROVE  Suyo(p)'
<1>1. hilo[p].op = "volver" /\ Base
  BY OlvidarHace DEF Sigue
<1>2. Fija
  BY <1>1 DEF Base, HilosOK, AltaOK, Altas
<1>3. p \notin robados
  BY <1>2 DEF Sigue, Vale
<1>. QED
  BY <1>1, <1>2, <1>3 DEF Sigue, Duenios, VolverOK

\* Without a victim memoria dies, with all as it was.
LEMMA SinVictimaSuyo ==
  ASSUME NEW p \in Procesos, Sigue(p), SinVictima(p)
  PROVE  Suyo(p)'
<1>1. /\ Base /\ Suyo(p) /\ conf' = conf /\ hilo' = hilo
      /\ marco' = marco /\ tabla' = tabla /\ pag' = pag /\ ram' = ram /\ enSwap' = enSwap
      /\ tlb' = tlb
  BY DEF Sigue, SinVictima, tablas, datos
<1>. QED
  BY <1>1, SuyoIgual

\* The suspension of a page in memory, or of a process with frames, robs it.
LEMMA SuspensionSuyo ==
  ASSUME NEW p \in Procesos, Sigue(p), SoltarMarco(p) \/ TirarSuspendida(p) \/ SoltarElResto(p)
  PROVE  Suyo(p)'
<1>1. Base /\ Suyo(p) /\ conf' = conf /\ (Fija' <=> Fija) /\ p # Nadie /\ PropiedadOK
  BY NadieAssumption DEF Sigue, Fija, Duenios
<1>2. IF Fija THEN p \notin robados' /\ p \notin robados ELSE manchados' = {} /\ manchados = {}
  BY <1>1 DEF Sigue, Vale
<1>3. hilo[p].pc # "tirar"
  BY <1>2 DEF Sigue, Duenios, VolverOK
<1>4. /\ hilo[p].pc = "suspender" /\ hilo[p].op = "nada" /\ tabla[p] # <<>>
      /\ hilo'[p].op = "nada" /\ hilo'[p].pc \in {"suspender", "libre"}
      /\ marco' = marco /\ tabla' = tabla /\ pag' = pag /\ ram' = ram /\ enSwap' = enSwap
      /\ tlb' = tlb
  <2>1. ASSUME TirarSuspendida(p)  PROVE FALSE
    BY <1>1, <1>3, <2>1, TirarHace
  <2>2. hilo[p].pc = "suspender" /\ hilo[p].op = "nada" /\ tabla[p] # <<>>
    <3>1. hilo[p].pc = "suspender"
      BY <1>1, <2>1, SoltarMarcoHace, SoltarRestoHace
    <3>. QED
      BY <1>1, <3>1 DEF Base, HilosOK, ReposoOK, PcReposo
  <2>3. ASSUME SoltarMarco(p)
        PROVE  /\ marco' = marco /\ tabla' = tabla /\ pag' = pag /\ ram' = ram
               /\ enSwap' = enSwap /\ tlb' = tlb /\ hilo'[p].op = "nada"
               /\ hilo'[p].pc = "suspender"
    <3>1. ~pag[Suspendida(p)].presencia
      BY <1>1, <1>2, <2>3, SoltarMarcoHace
    <3>. QED
      BY <1>1, <2>2, <2>3, <3>1, SoltarMarcoHace DEF Queda, tablas, datos
  <2>4. ASSUME SoltarElResto(p)
        PROVE  /\ marco' = marco /\ tabla' = tabla /\ pag' = pag /\ ram' = ram
               /\ enSwap' = enSwap /\ tlb' = tlb /\ hilo'[p].op = "nada"
               /\ hilo'[p].pc = "libre"
    <3>1. ~Fija
      BY <1>1, <1>2, <2>4, SuspensionRoba
    <3>. QED
      BY <1>1, <2>4, <3>1, SoltarRestoHace DEF tablas, datos, Libre
  <2>. QED
    BY <2>1, <2>2, <2>3, <2>4
<1>5. Tiene(p)' <=> Tiene(p)
  BY <1>4 DEF Tiene
<1>6. EnCurso(p)'
  BY <1>4, EnReposo DEF Accesos
<1>. QED
  BY <1>1, <1>4, <1>5, <1>6, SuyoQuieto DEF Accesos

-----------------------------------------------------------------------------
\* The requests that get frames.

\* A step that keeps the configuration keeps the frames there are.
LEMMA ConfIgual ==
  ASSUME conf' = conf
  PROVE  Marcos' = Marcos /\ (Fija' <=> Fija) /\ (Fiel' <=> Fiel)
BY DEF Marcos, Fija, Fiel

\* A process without a table has no pages.
LEMMA SinPaginas ==
  ASSUME NEW p, tabla[p] = <<>>, NEW k, k[1] = p
  PROVE  ~EnTabla(k)
BY DEF EnTabla, ToSet

\* A replacement of p starts when all its frames are marked: with fixed assignment, when each
\* has a page.
LEMMA PaginasCaben ==
  ASSUME Base, NEW p \in Procesos, MarcosOK(p), AusentesOK(p), CuotaOK(p), Fija, Tiene(p),
         NEW f0 \in Marcos, marco[f0].pid = p, ~marco[f0].ocupado
  PROVE  Len(tabla[p]) < conf.marcos
<1>. DEFINE t == tabla[p]
            S == 1 .. Len(t)
            T == Propios(p) \ {f0}
            g == [i \in S |-> pag[<<p, t[i]>>].frame]
<1>1. /\ t \in Seq(Ids) /\ Len(t) \in Nat /\ DOMAIN t = S
      /\ \A i \in S : t[i] \in Ids
  BY TablaTipo
<1>2. \A i \in S : <<p, t[i]>> \in Claves /\ EnTabla(<<p, t[i]>>) /\ Mia(p, <<p, t[i]>>)
  <2>1. \A i \in S : t[i] \in ToSet(t)
    BY <1>1 DEF ToSet
  <2>. QED
    BY <1>1, <2>1 DEF Claves, EnTabla, Mia
<1>3. \A i \in S : pag[<<p, t[i]>>].presencia
  BY <1>2 DEF AusentesOK, Lleno, De
<1>4. \A i \in S : g[i] \in T
  <2>1. ASSUME NEW i \in S  PROVE g[i] \in T
    <3>1. marco[pag[<<p, t[i]>>].frame].pid = p /\ marco[pag[<<p, t[i]>>].frame].ocupado
      BY <1>2, <1>3 DEF MarcosOK, De
    <3>2. pag[<<p, t[i]>>].frame \in Marcos
      BY <1>2 DEF Base, TablasOK
    <3>. QED
      BY <3>1, <3>2 DEF Propios
  <2>. QED
    BY <2>1
<1>5. \A i, j \in S : g[i] = g[j] => i = j
  <2>1. ASSUME NEW i \in S, NEW j \in S, i # j  PROVE g[i] # g[j]
    <3>1. t[i] # t[j]
      <4>1. \A a, b \in DOMAIN t : a < b => t[a] < t[b]
        BY DEF Base, TablasOK
      <4>2. t[i] \in Nat /\ t[j] \in Nat
        BY <1>1, TablaTipo
      <4>3. i < j => t[i] < t[j]
        BY <1>1, <4>1
      <4>4. j < i => t[j] < t[i]
        BY <1>1, <4>1
      <4>. QED
        BY <1>1, <2>1, <4>2, <4>3, <4>4
    <3>2. <<p, t[i]>> # <<p, t[j]>>
      BY <3>1
    <3>. QED
      BY <1>2, <1>3, <3>2 DEF MarcosOK, EnMarco
  <2>. HIDE DEF g, S
  <2>. QED
    BY <2>1
<1>6. g \in Injection(S, T)
  <2>1. g \in [S -> T] /\ DOMAIN g = S
    BY <1>4
  <2>. HIDE DEF g, S, T
  <2>. QED
    BY <1>5, <2>1, Zenon DEF Injection, IsInjective
<1>7. IsFiniteSet(Propios(p)) /\ f0 \in Propios(p)
  BY MarcosTipo, FS_Subset DEF Propios, Base
<1>8. IsFiniteSet(T) /\ Cardinality(T) = Cardinality(Propios(p)) - 1
  BY <1>7, FS_RemoveElement
<1>9. Cardinality(S) = Len(t)
  <2>1. \A n \in Nat : Cardinality(1 .. n) = n
    BY FS_Interval
  <2>. QED
    BY <1>1, <2>1, Zenon
<1>10. Cardinality(S) <= Cardinality(T)
  BY <1>6, <1>8, FS_Injection
<1>11. Cardinality(Propios(p)) = conf.marcos /\ conf.marcos \in Nat
  BY ConfTipo DEF CuotaOK, Base
<1>. QED
  BY <1>1, <1>8, <1>9, <1>10, <1>11

\* Without a free frame all are marked.
LEMMA SinLibres ==
  ASSUME NEW p, MarcosLibres(p) = {}
  PROVE  Lleno(p)
BY DEF MarcosLibres, Lleno, De

\* A frame that gets marked is one without a page; the thread has it.
LEMMA MarcarLibre ==
  ASSUME Base, NEW p \in Procesos, EnSitio(p), CubiertosOK(p), \A g \in Marcos : ~Ocupa(p, g),
         NEW f \in MarcosLibres(p), marco' = [marco EXCEPT ![f].ocupado = TRUE],
         hilo'[p].pc \in {"crear", "traer"}, hilo'[p].fr = f,
         conf' = conf, tabla' = tabla, pag' = pag, ram' = ram, enSwap' = enSwap, tlb' = tlb
  PROVE  EnSitio(p)' /\ CubiertosOK(p)' /\ ViajeOK(p)'
<1>1. Marcos' = Marcos /\ (Fija' <=> Fija) /\ (Fiel' <=> Fiel) /\ MiasQuietas(p)
  BY ConfIgual, MiasQuietasSi
<1>2. f \in Marcos /\ ~marco[f].ocupado /\ De(p, f)
  BY DEF MarcosLibres, De
<1>3. /\ \A g \in Marcos : marco'[g].pid = marco[g].pid /\ (g # f => marco'[g] = marco[g])
      /\ marco'[f].ocupado = TRUE
  BY <1>2, MarcarTipo DEF Base
<1>4. \A k \in Claves : EnTabla(k) => pag[k].frame \in Marcos
  BY DEF Base, TablasOK
<1>5. MarcosOK(p)'
  <2>1. ASSUME NEW k \in Claves, Mia(p, k)', pag'[k].presencia
        PROVE  /\ De(p, pag[k].frame)' /\ marco'[pag[k].frame].ocupado
               /\ \A l \in Claves : Mia(p, l)' /\ l # k => ~EnMarco(l, pag[k].frame)'
    <3>1. Mia(p, k) /\ pag[k].presencia /\ pag[k].frame \in Marcos
      BY <1>1, <1>4, <2>1 DEF MiasQuietas, Mia
    <3>2. /\ De(p, pag[k].frame) /\ marco[pag[k].frame].ocupado
          /\ \A l \in Claves : Mia(p, l) /\ l # k => ~EnMarco(l, pag[k].frame)
      BY <3>1 DEF EnSitio, MarcosOK
    <3>. QED
      BY <1>1, <1>3, <3>1, <3>2 DEF De, EnMarco, MiasQuietas
  <2>. QED
    BY <2>1 DEF MarcosOK, De, EnMarco
<1>6. AusentesOK(p)'
  <2>1. ~Lleno(p)
    BY <1>2 DEF Lleno
  <2>. QED
    BY <1>1, <2>1 DEF EnSitio, AusentesOK, MiasQuietas
<1>7. RamOK(p) => RamOK(p)'
  BY <1>1 DEF RamOK, MiasQuietas
<1>8. TLBOK(p) => TLBOK(p)'
  BY <1>1 DEF TLBOK, Unicas, EnTabla, EnMarco
<1>9. CubiertosOK(p)'
  <2>1. ASSUME NEW g \in Marcos, De(p, g)', marco'[g].ocupado
        PROVE  Ocupa(p, g)' \/ \E k \in Claves : Mia(p, k)' /\ EnMarco(k, g)'
    <3>1. CASE g = f
      BY <3>1 DEF Ocupa
    <3>2. CASE g # f
      <4>1. De(p, g) /\ marco[g].ocupado
        BY <1>1, <1>3, <2>1, <3>2 DEF De
      <4>2. PICK k \in Claves : Mia(p, k) /\ EnMarco(k, g)
        BY <4>1 DEF CubiertosOK
      <4>3. Mia(p, k)' /\ EnMarco(k, g)'
        BY <1>1, <4>2 DEF MiasQuietas, EnMarco
      <4>. QED
        BY <4>3
    <3>. QED
      BY <3>1, <3>2
  <2>. QED
    BY <1>1, <2>1 DEF CubiertosOK
<1>10. ViajeOK(p)'
  <2>1. ASSUME NEW l \in Claves, Mia(p, l)'  PROVE ~EnMarco(l, f)'
    <3>1. Mia(p, l)
      BY <1>1, <2>1 DEF MiasQuietas
    <3>. QED
      BY <1>2, <3>1 DEF EnSitio, MarcosOK, EnMarco
  <2>2. De(p, f)'
    BY <1>1, <1>2, <1>3 DEF De
  <2>. QED
    BY <1>3, <2>1, <2>2 DEF ViajeOK
<1>. QED
  BY <1>1, <1>5, <1>6, <1>7, <1>8, <1>9, <1>10 DEF EnSitio

\* The frames that a process which is not robbed takes were nobody's, hence free, and it had no
\* other.
LEMMA TomarSuyo ==
  ASSUME NEW p \in Procesos, Sigue(p), TomarMarcos(p)
  PROVE  Suyo(p)'
<1>. DEFINE frs == hilo[p].frs
<1>1. Base /\ Suyo(p) /\ Fija /\ p \notin robados' /\ PropiedadOK /\ conf' = conf
      /\ Marcos' = Marcos /\ Fija'
  BY TomarHace, ConfIgual DEF Sigue, Vale, Duenios
<1>2. /\ hilo[p].pc = "tomar" /\ tabla[p] = <<>>
      /\ frs \in [1 .. conf.marcos -> Marcos] /\ IsInjective(frs) /\ ToSet(frs) \subseteq Marcos
      /\ hilo'[p].pc = "pedir" /\ hilo'[p].op = "memalloc"
  BY <1>1, TomarHace, Zenon
<1>3. \A f \in Marcos :
         /\ marco'[f].ocupado = marco[f].ocupado
         /\ marco'[f].pid = IF f \in ToSet(frs) THEN p ELSE marco[f].pid
  BY <1>1, TomarHace, Zenon
<1>4. \A f \in ToSet(frs) : f \notin manchados'
  BY <1>1, TomarHace
<1>5. manchados' = manchados \union {f \in ToSet(frs) : marco[f].pid # Nadie}
  BY <1>1, TomarHace, Zenon
<1>6. \A f \in ToSet(frs) : marco[f].pid = Nadie /\ ~marco[f].ocupado
  BY <1>1, <1>2, <1>4, <1>5 DEF PropiedadOK
<1>7. tabla' = tabla /\ tlb' = tlb
  BY <1>1, TomarHace DEF tablas
<1>8. \A k : ~Mia(p, k) /\ ~Mia(p, k)'
  BY <1>1, <1>2, <1>7, SinPaginas DEF Mia, EnTabla
<1>9. Propios(p) = {}
  BY <1>1, <1>2 DEF Suyo, CuotaOK, Tiene
<1>10. Propios(p)' = ToSet(frs)
  BY <1>1, <1>2, <1>3, <1>9 DEF Propios
<1>11. Cardinality(ToSet(frs)) = conf.marcos
  <2>1. conf.marcos \in Nat
    BY <1>1, ConfTipo DEF Base
  <2>2. ToSet(frs) = {frs[i] : i \in 1 .. conf.marcos} /\ frs \in [1 .. conf.marcos -> ToSet(frs)]
    BY <1>2 DEF ToSet
  <2>3. frs \in Bijection(1 .. conf.marcos, ToSet(frs))
    BY <1>2, <2>2 DEF Bijection, Injection, Surjection, IsInjective
  <2>4. IsFiniteSet(1 .. conf.marcos) /\ Cardinality(1 .. conf.marcos) = conf.marcos
    BY <2>1, FS_Interval
  <2>. QED
    BY <2>3, <2>4, FS_Bijection DEF ExistsBijection
<1>12. CuotaOK(p)'
  BY <1>1, <1>2, <1>10, <1>11 DEF CuotaOK, Tiene
<1>13. EnCurso(p)'
  BY <1>2, EnReposo DEF Accesos
<1>14. MarcosOK(p)' /\ AusentesOK(p)' /\ RamOK(p)' /\ TrabasOK(p)'
  BY <1>8 DEF MarcosOK, AusentesOK, RamOK, TrabasOK
<1>15. TLBOK(p)'
  <2>1. TLBOK(p)
    BY <1>1 DEF Suyo, EnSitio, Fiel
  <2>2. \A e \in ToSet(tlb) : e.pid # p
    <3>1. ASSUME NEW e \in ToSet(tlb), e.pid = p  PROVE FALSE
      BY <1>1, <1>2, <2>1, <3>1, SinPaginas DEF TLBOK
    <3>. QED
      BY <3>1
  <2>. QED
    BY <1>1, <1>7, <2>1, <2>2 DEF TLBOK, Unicas
<1>16. CubiertosOK(p)'
  BY <1>1, <1>3, <1>6, <1>9 DEF CubiertosOK, De, Propios
<1>. QED
  BY <1>12, <1>13, <1>14, <1>15, <1>16 DEF Suyo, EnSitio

\* A free frame is marked for a page, or all are and one is to be replaced.
LEMMA SolicitarSuyo ==
  ASSUME NEW p \in Procesos, Sigue(p), SolicitarFrame(p)
  PROVE  Suyo(p)'
<1>1. /\ Base /\ Suyo(p) /\ conf' = conf /\ hilo[p].pc = "pedir" /\ hilo[p].op \notin Accesos
      /\ tabla' = tabla /\ pag' = pag /\ ram' = ram /\ enSwap' = enSwap /\ tlb' = tlb
  BY SolicitarHace, PcYOp DEF Sigue, tablas, datos
<1>2. Marcos' = Marcos /\ (Fija' <=> Fija) /\ MiasQuietas(p) /\ Tiene(p)
  BY <1>1, ConfIgual, MiasQuietasSi DEF Tiene
<1>3. CASE /\ Queda(p, "elegir", hilo[p].op, hilo[p].pags, hilo[p].frs, hilo[p].faltan,
                    hilo[p].fr, hilo[p].vic)
           /\ MarcosLibres(p) = {} \/ (Fija /\ Len(tabla[p]) >= conf.marcos)
           /\ marco' = marco
  <2>1. hilo'[p].pc = "elegir" /\ hilo'[p].op = hilo[p].op
    BY <1>3 DEF Queda
  <2>2. Lleno(p)
    <3>1. ASSUME ~Lleno(p)  PROVE FALSE
      <4>1. Fija /\ Len(tabla[p]) >= conf.marcos
        BY <1>3, <3>1, SinLibres
      <4>2. PICK f0 \in Marcos : marco[f0].pid = p /\ ~marco[f0].ocupado
        BY <3>1, <4>1 DEF Lleno, De
      <4>3. Len(tabla[p]) < conf.marcos
        BY <1>1, <1>2, <4>1, <4>2, PaginasCaben DEF Suyo, EnSitio
      <4>. QED
        BY <1>1, <4>1, <4>3, TablaTipo, ConfTipo DEF Base
    <3>. QED
      BY <3>1
  <2>3. Lleno(p)'
    BY <1>2, <1>3, <2>2 DEF Lleno, De
  <2>4. EnCurso(p)'
    BY <1>1, <2>1, <2>3 DEF EnCurso, ViajeOK, LlenoOK, BuscadaOK, VictimaOK, HalladasOK, LimpiaOK,
       EntradasOK
  <2>5. Tiene(p)' <=> Tiene(p)
    BY <1>2, <2>1 DEF Tiene
  <2>. QED
    BY <1>1, <1>3, <2>4, <2>5, SuyoQuieto
<1>4. ASSUME NEW f \in MarcosLibres(p),
             Queda(p, "crear", hilo[p].op, hilo[p].pags, hilo[p].frs, hilo[p].faltan,
                   f, hilo[p].vic),
             marco' = [marco EXCEPT ![f].ocupado = TRUE]
      PROVE  Suyo(p)'
  <2>1. hilo'[p].pc = "crear" /\ hilo'[p].op = hilo[p].op /\ hilo'[p].fr = f /\ f \in Marcos
    BY <1>4 DEF Queda, MarcosLibres
  <2>2. \A g \in Marcos : ~Ocupa(p, g)
    BY <1>1 DEF Ocupa
  <2>3. EnSitio(p)' /\ CubiertosOK(p)' /\ ViajeOK(p)'
    BY <1>1, <1>4, <2>1, <2>2, MarcarLibre DEF Suyo
  <2>4. EnCurso(p)'
    BY <1>1, <2>1, <2>3 DEF EnCurso, LlenoOK, BuscadaOK, VictimaOK, HalladasOK, LimpiaOK,
       EntradasOK
  <2>5. TrabasOK(p)'
    BY <1>1, <1>2, TrabasQuieto DEF Suyo, Traba
  <2>6. Tiene(p)' /\ \A g \in Marcos : marco'[g].pid = marco[g].pid
    BY <1>1, <1>4, <2>1, MarcarTipo DEF Tiene, Base
  <2>7. CuotaOK(p)'
    BY <1>1, <1>2, <2>6, CuotaQuieta DEF Suyo
  <2>. QED
    BY <2>3, <2>4, <2>5, <2>7 DEF Suyo
<1>. QED
  BY <1>1, <1>3, <1>4, SolicitarHace

\* The new page is in the frame that the thread had, its content is its own, and no other page
\* was in that frame.
LEMMA CrearSuyo ==
  ASSUME NEW p \in Procesos, Sigue(p), CrearPagina(p)
  PROVE  Suyo(p)'
<1>. DEFINE k == Nueva(p)
            f == hilo[p].fr
<1>1. Base /\ Suyo(p) /\ conf' = conf /\ Marcos' = Marcos /\ (Fija' <=> Fija) /\ (Fiel' <=> Fiel)
  BY ConfIgual DEF Sigue
<1>2. /\ hilo[p].pc = "crear" /\ hilo[p].op = "memalloc" /\ f \in Marcos
      /\ hilo[p].faltan > 0 /\ k \in Claves /\ ~EnTabla(k) /\ OtroMas(p)
  BY <1>1, CrearHace, Zenon
<1>3. /\ tabla'[p] = Append(tabla[p], k[2])
      /\ \A l \in Claves : EnTabla(l)' <=> EnTabla(l) \/ l = k
  BY <1>1, CrearHace, Zenon
<1>4. /\ pag'[k] = [frame |-> f, presencia |-> TRUE, modificado |-> TRUE, lock |-> FALSE,
                    uso |-> TRUE]
      /\ \A l \in Claves : l # k => pag'[l] = pag[l]
  BY <1>1, CrearHace, Zenon
<1>5. /\ pag'[k].frame = f /\ pag'[k].presencia = TRUE /\ pag'[k].modificado = TRUE
      /\ pag'[k].lock = FALSE
  BY <1>4
<1>6. /\ \A g \in Marcos : ram'[g] = IF g = f THEN k ELSE IF ram[g] = k THEN Nadie ELSE ram[g]
      /\ \A l \in Claves : enSwap'[l] <=> enSwap[l] /\ l # k
  BY <1>1, CrearHace, Zenon
<1>7. marco' = marco /\ tlb' = tlb
  BY <1>1, CrearHace
<1>8. /\ hilo'[p].op = "nada" \/ (hilo'[p].op = hilo[p].op)
      /\ hilo'[p].pc \in {"libre", "pedir"}
  BY <1>1, <1>2, OtroMasHace DEF Base, Libre, Queda
<1>9. EnCurso(p)'
  BY <1>2, <1>8, EnReposo DEF Accesos
<1>10. \A l \in Claves : Mia(p, l)' <=> Mia(p, l) \/ l = k
  BY <1>1, <1>3 DEF Mia, Nueva
<1>11. /\ \A l \in Claves : EnTabla(l) => pag[l].frame \in Marcos
       /\ ~Mia(p, k)
  BY <1>1, <1>2 DEF Base, TablasOK, Mia
<1>12. De(p, f) /\ marco[f].ocupado /\ \A l \in Claves : Mia(p, l) => ~EnMarco(l, f)
  BY <1>1, <1>2 DEF Suyo, EnCurso, ViajeOK
<1>13. \A g : De(p, g)' <=> De(p, g)
  BY <1>1, <1>7 DEF De
<1>14. MarcosOK(p)'
  <2>1. ASSUME NEW l \in Claves, Mia(p, l)', pag'[l].presencia
        PROVE  /\ De(p, pag'[l].frame) /\ marco[pag'[l].frame].ocupado
               /\ \A m \in Claves : Mia(p, m)' /\ m # l =>
                     ~(pag'[m].presencia /\ pag'[m].frame = pag'[l].frame)
    <3>1. CASE l = k
      <4>1. \A m \in Claves : Mia(p, m)' /\ m # k => ~(pag'[m].presencia /\ pag'[m].frame = f)
        BY <1>4, <1>10, <1>12 DEF EnMarco
      <4>. QED
        BY <1>5, <1>12, <3>1, <4>1
    <3>2. CASE l # k
      <4>1. Mia(p, l) /\ pag[l].presencia /\ pag'[l] = pag[l]
        BY <1>4, <1>10, <2>1, <3>2
      <4>2. /\ De(p, pag[l].frame) /\ marco[pag[l].frame].ocupado /\ pag[l].frame # f
            /\ \A m \in Claves : Mia(p, m) /\ m # l =>
                  ~(pag[m].presencia /\ pag[m].frame = pag[l].frame)
        BY <1>1, <1>12, <4>1 DEF Suyo, EnSitio, MarcosOK, EnMarco
      <4>. QED
        BY <1>4, <1>5, <1>10, <4>1, <4>2
    <3>. QED
      BY <3>1, <3>2
  <2>. QED
    BY <1>1, <1>7, <2>1 DEF MarcosOK, De, EnMarco
<1>15. AusentesOK(p)'
  <2>1. Lleno(p)' <=> Lleno(p)
    BY <1>1, <1>7, <1>13 DEF Lleno
  <2>. QED
    BY <1>1, <1>4, <1>5, <1>10, <2>1 DEF Suyo, EnSitio, AusentesOK
<1>16. RamOK(p) => RamOK(p)'
  <2>1. ASSUME RamOK(p), NEW l \in Claves, Mia(p, l)'
        PROVE  /\ pag'[l].presencia => ram'[pag'[l].frame] = l
               /\ ~pag'[l].presencia \/ ~pag'[l].modificado => enSwap'[l]
    <3>1. CASE l = k
      BY <1>2, <1>5, <1>6, <3>1
    <3>2. CASE l # k
      <4>1. Mia(p, l) /\ pag'[l] = pag[l] /\ pag[l].frame \in Marcos
        BY <1>4, <1>10, <1>11, <2>1, <3>2 DEF Mia
      <4>2. pag[l].presencia => ram[pag[l].frame] = l /\ pag[l].frame # f
        BY <1>12, <2>1, <4>1 DEF RamOK, EnMarco
      <4>3. ~pag[l].presencia \/ ~pag[l].modificado => enSwap[l]
        BY <2>1, <4>1 DEF RamOK
      <4>. QED
        BY <1>6, <3>2, <4>1, <4>2, <4>3
    <3>. QED
      BY <3>1, <3>2
  <2>. QED
    BY <2>1 DEF RamOK
<1>17. TLBOK(p) => TLBOK(p)'
  <2>1. SUFFICES ASSUME Fija, TLBOK(p)  PROVE TLBOK(p)'
    BY <1>1 DEF TLBOK
  <2>2. ASSUME NEW e \in ToSet(tlb), e.pid = p
        PROVE  EnTabla(<<p, e.pag>>)' /\ EnMarco(<<p, e.pag>>, e.frame)'
    <3>1. <<p, e.pag>> \in Claves
      <4>1. e \in TipoEntrada
        BY <1>1, <2>2, Tipos DEF Base, ToSet
      <4>. QED
        BY <2>2, <4>1 DEF TipoEntrada, Claves
    <3>2. EnTabla(<<p, e.pag>>) /\ EnMarco(<<p, e.pag>>, e.frame)
      BY <2>1, <2>2 DEF TLBOK
    <3>3. <<p, e.pag>> # k
      BY <1>2, <3>2
    <3>. QED
      BY <1>3, <1>4, <3>1, <3>2, <3>3 DEF EnMarco
  <2>. QED
    BY <1>1, <1>7, <2>1, <2>2 DEF TLBOK, Unicas
<1>18. CubiertosOK(p)'
  <2>1. ASSUME NEW g \in Marcos, De(p, g), marco[g].ocupado
        PROVE  \E l \in Claves : Mia(p, l)' /\ EnMarco(l, g)'
    <3>1. CASE g = f
      BY <1>2, <1>5, <1>10, <3>1 DEF EnMarco
    <3>2. CASE g # f
      <4>1. PICK l \in Claves : Mia(p, l) /\ EnMarco(l, g)
        BY <1>1, <2>1, <3>2 DEF Suyo, CubiertosOK, Ocupa
      <4>2. l # k
        BY <1>11, <4>1
      <4>. QED
        BY <1>4, <1>10, <4>1, <4>2 DEF EnMarco
    <3>. QED
      BY <3>1, <3>2
  <2>. QED
    BY <1>1, <1>7, <1>13, <2>1 DEF CubiertosOK
<1>19. TrabasOK(p)'
  BY <1>1, <1>2, <1>4, <1>5, <1>10 DEF Suyo, TrabasOK, Traba, Accesos
<1>20. CuotaOK(p)'
  <2>1. Tiene(p)
    BY <1>2 DEF Tiene
  <2>2. tabla'[p] # <<>>
    <3>1. tabla[p] \in Seq(Ids) /\ k[2] \in Ids
      BY <1>1, <1>2, TablaTipo DEF Claves
    <3>. QED
      BY <1>3, <3>1, AppendProperties
  <2>. QED
    BY <1>1, <1>7, <2>1, <2>2, CuotaQuieta DEF Suyo, Tiene
<1>. QED
  BY <1>1, <1>9, <1>14, <1>15, <1>16, <1>17, <1>18, <1>19, <1>20 DEF Suyo, EnSitio

-----------------------------------------------------------------------------
\* Replacement.

\* The pages that a request looks for are keys; one that gives back a page has found none yet.
LEMMA HalladasTipo ==
  ASSUME Base, NEW p \in Procesos, hilo[p].op \in Accesos, hilo[p].pc \notin {"copiar", "quitar"}
  PROVE  /\ Halladas(p) \union {Buscada(p)} \subseteq Claves
         /\ hilo[p].op = "liberar" => Halladas(p) = {}
<1>1. /\ Len(hilo[p].frs) < Len(hilo[p].pags)
      /\ hilo[p].pags \in Seq(Ids) /\ hilo[p].frs \in Seq(Marcos)
      /\ hilo[p].op = "liberar" => Len(hilo[p].pags) = 1
  BY Registro DEF Base, HilosOK, AccesoOK
<1>2. /\ DOMAIN hilo[p].frs = 1 .. Len(hilo[p].frs) /\ Len(hilo[p].frs) \in Nat
      /\ DOMAIN hilo[p].pags = 1 .. Len(hilo[p].pags) /\ Len(hilo[p].pags) \in Nat
  BY <1>1, LenProperties
<1>3. \A i \in 1 .. Len(hilo[p].frs) + 1 : hilo[p].pags[i] \in Ids
  BY <1>1, <1>2
<1>4. \A i \in 1 .. Len(hilo[p].frs) + 1 : <<p, hilo[p].pags[i]>> \in Claves
  BY <1>3 DEF Claves
<1>5. Buscada(p) \in Claves
  <2>1. \A n \in Nat : n + 1 \in 1 .. n + 1
    OBVIOUS
  <2>. QED
    BY <1>2, <1>4, <2>1, Zenon DEF Buscada
<1>6. Halladas(p) \subseteq Claves
  <2>1. \A n \in Nat : 1 .. n \subseteq 1 .. n + 1
    OBVIOUS
  <2>2. \A i \in DOMAIN hilo[p].frs : i \in 1 .. Len(hilo[p].frs) + 1
    BY <1>2, <2>1, Zenon
  <2>. QED
    BY <1>4, <2>2 DEF Halladas
<1>7. hilo[p].op = "liberar" => Halladas(p) = {}
  <2>1. \A n \in Nat : n < 1 => 1 .. n = {}
    OBVIOUS
  <2>2. hilo[p].op = "liberar" => 1 .. Len(hilo[p].frs) = {}
    BY <1>1, <1>2, <2>1
  <2>. QED
    BY <1>2, <2>2 DEF Halladas
<1>. QED
  BY <1>5, <1>6, <1>7

\* What a request looks for stays as it was, while what it has found is not touched.
LEMMA BusquedaSigue ==
  ASSUME NEW p \in Procesos, BuscadaOK(p),
         hilo'[p].op = hilo[p].op, hilo'[p].pags = hilo[p].pags, hilo'[p].frs = hilo[p].frs,
         hilo[p].pc \in {"falta", "elegir", "expulsar", "soltar"},
         hilo'[p].pc \in {"falta", "elegir", "expulsar", "soltar", "traer"},
         hilo[p].op \in Accesos =>
            \A k \in Halladas(p) \union {Buscada(p)} :
                /\ pag'[k].frame = pag[k].frame /\ pag'[k].presencia = pag[k].presencia
                /\ pag[k].lock => pag'[k].lock
  PROVE  /\ Halladas(p)' = Halladas(p) /\ Buscada(p)' = Buscada(p)
         /\ BuscadaOK(p)' /\ (HalladasOK(p) => HalladasOK(p)')
<1>1. Halladas(p)' = Halladas(p) /\ Buscada(p)' = Buscada(p)
  BY DEF Halladas, Buscada
<1>2. BuscadaOK(p)'
  BY <1>1 DEF BuscadaOK
<1>3. HalladasOK(p) => HalladasOK(p)'
  <2>1. SUFFICES ASSUME HalladasOK(p), hilo[p].op \in Accesos, NEW i \in DOMAIN hilo[p].frs
                 PROVE  pag'[<<p, hilo[p].pags[i]>>].frame = hilo[p].frs[i]
    BY DEF HalladasOK
  <2>2. <<p, hilo[p].pags[i]>> \in Halladas(p)
    BY <2>1 DEF Halladas
  <2>. QED
    BY <2>1, <2>2 DEF HalladasOK
<1>. QED
  BY <1>1, <1>2, <1>3

\* The victim of a request that looks for a page is not one of those it has found, which are
\* locked, nor the one it looks for, which is out.
LEMMA ElegirSuyo ==
  ASSUME NEW p \in Procesos, Sigue(p), ElegirVictima(p)
  PROVE  Suyo(p)'
<1>1. Base /\ Suyo(p) /\ conf' = conf /\ Marcos' = Marcos /\ (Fija' <=> Fija) /\ (Fiel' <=> Fiel)
  BY ConfIgual DEF Sigue
<1>2. PICK k \in Candidatas(p) :
         Queda(p, "expulsar", hilo[p].op, hilo[p].pags, hilo[p].frs, hilo[p].faltan,
               hilo[p].fr, k)
  BY <1>1, ElegirHace, Zenon
<1>3. \A l \in Claves :
         /\ pag'[l].frame = pag[l].frame /\ pag'[l].presencia = pag[l].presencia
         /\ pag'[l].modificado = pag[l].modificado /\ pag'[l].lock = pag[l].lock
  BY <1>1, ElegirHace, Zenon
<1>4. /\ hilo[p].pc = "elegir" /\ marco' = marco /\ tabla' = tabla /\ ram' = ram
      /\ enSwap' = enSwap /\ tlb' = tlb
  BY <1>1, ElegirHace DEF datos
<1>5. /\ hilo'[p].pc = "expulsar" /\ hilo'[p].vic = k /\ hilo'[p].op = hilo[p].op
      /\ hilo'[p].pags = hilo[p].pags /\ hilo'[p].frs = hilo[p].frs
  BY <1>2 DEF Queda
<1>6. MiasQuietas(p)
  BY <1>1, <1>3, <1>4, MiasQuietasSi
<1>7. /\ k \in Claves /\ Mia(p, k) /\ pag[k].presencia /\ ~pag[k].lock
  BY <1>1, <1>2, CandidatasTipo DEF Mia
<1>8. EnSitio(p)'
  BY <1>1, <1>3, <1>4, EnSitioQuieto DEF Suyo
<1>9. CubiertosOK(p)'
  BY <1>1, <1>4, <1>6, CubiertosQuieto DEF Suyo, Ocupa
<1>10. hilo[p].op \in Accesos =>
          Halladas(p) \union {Buscada(p)} \subseteq Claves /\ k \notin Halladas(p)
  BY <1>1, <1>4, <1>7, HalladasTipo DEF Suyo, EnCurso, BuscadaOK
<1>11. /\ Halladas(p)' = Halladas(p) /\ Buscada(p)' = Buscada(p)
       /\ BuscadaOK(p)' /\ (HalladasOK(p) => HalladasOK(p)')
  BY <1>1, <1>3, <1>4, <1>5, <1>10, BusquedaSigue DEF Suyo, EnCurso
<1>12. TrabasOK(p)'
  <2>1. \A l \in Claves : Traba(p, l) => Traba(p, l)'
    BY <1>4, <1>5, <1>11 DEF Traba
  <2>. QED
    BY <1>1, <1>3, <1>6, <2>1, TrabasQuieto DEF Suyo
<1>13. CuotaOK(p)'
  BY <1>1, <1>4, <1>5, CuotaQuieta DEF Suyo, Tiene
<1>14. EnCurso(p)'
  <2>1. LlenoOK(p)'
    BY <1>1, <1>4 DEF Suyo, EnCurso, LlenoOK, Lleno, De
  <2>2. VictimaOK(p)'
    BY <1>3, <1>5, <1>6, <1>7, <1>10, <1>11 DEF VictimaOK, MiasQuietas
  <2>. QED
    BY <1>1, <1>5, <1>11, <2>1, <2>2 DEF Suyo, EnCurso, ViajeOK, LimpiaOK, EntradasOK
<1>. QED
  BY <1>8, <1>9, <1>12, <1>13, <1>14 DEF Suyo

\* Without one of its entries the TLB still has each page of p once, and no other entry of the
\* page that leaves.
LEMMA UnicasSinEl ==
  ASSUME NEW p, NEW S, NEW l \in Seq(S), NEW r \in Seq(S), NEW m \in 1 .. Len(l),
         SinEl(m, l, r), Unicas(l, p)
  PROVE  /\ Unicas(r, p) /\ ToSet(r) \subseteq ToSet(l)
         /\ l[m].pid = p => \A e \in ToSet(r) : e.pid = p => e.pag # l[m].pag
<1>1. /\ Len(l) \in Nat /\ Len(r) \in Nat /\ Len(r) = Len(l) - 1
      /\ DOMAIN l = 1 .. Len(l) /\ DOMAIN r = 1 .. Len(r)
  BY LenProperties DEF SinEl
<1>2. \A i \in DOMAIN r : Corrida(i, m) \in DOMAIN l /\ r[i] = l[Corrida(i, m)] /\ Corrida(i, m) # m
  <2>1. ASSUME NEW i \in DOMAIN r
        PROVE  Corrida(i, m) \in DOMAIN l /\ r[i] = l[Corrida(i, m)] /\ Corrida(i, m) # m
    <3>1. i \in 1 .. Len(l) - 1
      BY <1>1, <2>1
    <3>2. Corrida(i, m) \in 1 .. Len(l) /\ (Corrida(i, m) < m \/ m < Corrida(i, m))
      BY <1>1, <3>1, CorridaEs
    <3>3. r[i] = l[Corrida(i, m)]
      BY <1>1, <2>1 DEF SinEl, Corrida
    <3>. QED
      BY <1>1, <3>2, <3>3
  <2>. QED
    BY <2>1
<1>3. \A i, j \in DOMAIN r : Corrida(i, m) = Corrida(j, m) => i = j
  BY <1>1 DEF Corrida
<1>4. Unicas(r, p)
  <2>1. ASSUME NEW i \in DOMAIN r, NEW j \in DOMAIN r, r[i].pid = p, r[j].pid = p,
               r[i].pag = r[j].pag
        PROVE  i = j
    <3>1. Corrida(i, m) = Corrida(j, m)
      BY <1>2, <2>1 DEF Unicas
    <3>. QED
      BY <1>3, <3>1
  <2>. QED
    BY <2>1 DEF Unicas
<1>5. ToSet(r) \subseteq ToSet(l)
  BY <1>2 DEF ToSet
<1>6. ASSUME l[m].pid = p, NEW e \in ToSet(r), e.pid = p  PROVE e.pag # l[m].pag
  <2>1. PICK i \in DOMAIN r : r[i] = e
    BY <1>6 DEF ToSet
  <2>. QED
    BY <1>1, <1>2, <1>6, <2>1 DEF Unicas
<1>. QED
  BY <1>4, <1>5, <1>6

\* What the first removal of an element of the TLB leaves.
LEMMA DesreferenciarDeja ==
  ASSUME Base, NEW p, NEW e, TLBOK(p), Fija, tlb' \in Seq(TipoEntrada),
         \/ e \notin ToSet(tlb) /\ tlb' = tlb
         \/ \E m \in 1 .. Len(tlb) : tlb[m] = e /\ SinEl(m, tlb, tlb')
  PROVE  /\ Unicas(tlb', p) /\ ToSet(tlb') \subseteq ToSet(tlb)
         /\ e \in ToSet(tlb) /\ e.pid = p => \A x \in ToSet(tlb') : x.pid = p => x.pag # e.pag
<1>1. tlb \in Seq(TipoEntrada) /\ Unicas(tlb, p)
  BY Tipos DEF Base, TLBOK
<1>2. CASE e \notin ToSet(tlb) /\ tlb' = tlb
  BY <1>1, <1>2
<1>3. ASSUME NEW m \in 1 .. Len(tlb), tlb[m] = e, SinEl(m, tlb, tlb')
      PROVE  /\ Unicas(tlb', p) /\ ToSet(tlb') \subseteq ToSet(tlb)
             /\ e.pid = p => \A x \in ToSet(tlb') : x.pid = p => x.pag # e.pag
  BY <1>1, <1>3, UnicasSinEl
<1>. QED
  BY <1>2, <1>3

\* The victim is saved before it is cleaned, and leaves the TLB.
LEMMA ExpulsarSuyo ==
  ASSUME NEW p \in Procesos, Sigue(p), Expulsar(p)
  PROVE  Suyo(p)'
<1>. DEFINE k == hilo[p].vic
            e == [pid |-> p, pag |-> k[2], frame |-> pag[k].frame]
<1>1. Base /\ Suyo(p) /\ conf' = conf /\ Marcos' = Marcos /\ (Fija' <=> Fija) /\ (Fiel' <=> Fiel)
  BY ConfIgual DEF Sigue
<1>2. /\ hilo[p].pc = "expulsar" /\ k \in Claves /\ pag[k].frame \in Marcos
      /\ Queda(p, "soltar", hilo[p].op, hilo[p].pags, hilo[p].frs, hilo[p].faltan, hilo[p].fr, k)
  BY <1>1, ExpulsarHace, Zenon
<1>3. /\ \A l \in Claves : l # k => pag'[l] = pag[l]
      /\ pag'[k].frame = pag[k].frame /\ pag'[k].presencia = pag[k].presencia
      /\ pag'[k].modificado = FALSE /\ pag'[k].lock = TRUE
  BY <1>1, ExpulsarHace, Zenon
<1>4. /\ \A l \in Claves : l # k => enSwap'[l] = enSwap[l]
      /\ enSwap'[k] = IF pag[k].modificado THEN ram[pag[k].frame] = k ELSE enSwap[k]
  BY <1>1, ExpulsarHace, Zenon
<1>5. /\ tlb' \in Seq(TipoEntrada)
      /\ \/ e \notin ToSet(tlb) /\ tlb' = tlb
         \/ \E m \in 1 .. Len(tlb) : tlb[m] = e /\ SinEl(m, tlb, tlb')
  BY <1>1, ExpulsarHace, Zenon
<1>6. marco' = marco /\ tabla' = tabla /\ ram' = ram
  BY <1>1, ExpulsarHace
<1>7. /\ hilo'[p].pc = "soltar" /\ hilo'[p].vic = k /\ hilo'[p].op = hilo[p].op
      /\ hilo'[p].pags = hilo[p].pags /\ hilo'[p].frs = hilo[p].frs
  BY <1>2 DEF Queda
<1>8. /\ \A l \in Claves : /\ pag'[l].frame = pag[l].frame
                           /\ pag'[l].presencia = pag[l].presencia
                           /\ pag[l].lock => pag'[l].lock
      /\ MiasQuietas(p)
  BY <1>1, <1>3, <1>6, MiasQuietasSi
<1>9. Mia(p, k) /\ pag[k].presencia /\ (hilo[p].op \in Accesos => k \notin Halladas(p))
  BY <1>1, <1>2 DEF Suyo, EnCurso, VictimaOK
<1>10. MarcosOK(p)' /\ AusentesOK(p)'
  BY <1>1, <1>6, <1>8 DEF Suyo, EnSitio, MarcosOK, AusentesOK, MiasQuietas, De, EnMarco, Lleno
<1>11. RamOK(p) => RamOK(p)'
  <2>1. ASSUME RamOK(p), NEW l \in Claves, Mia(p, l)
        PROVE  /\ pag'[l].presencia => ram[pag'[l].frame] = l
               /\ ~pag'[l].presencia \/ ~pag'[l].modificado => enSwap'[l]
    <3>1. /\ pag[l].presencia => ram[pag[l].frame] = l
          /\ ~pag[l].presencia \/ ~pag[l].modificado => enSwap[l]
      BY <2>1 DEF RamOK
    <3>2. CASE l = k
      BY <1>3, <1>4, <1>9, <3>1, <3>2
    <3>3. CASE l # k
      BY <1>3, <1>4, <2>1, <3>1, <3>3
    <3>. QED
      BY <3>2, <3>3
  <2>. QED
    BY <1>6, <1>8, <2>1 DEF RamOK, MiasQuietas
<1>12. ASSUME Fija, TLBOK(p)
       PROVE  /\ TLBOK(p)'
              /\ \A x \in ToSet(tlb') : x.pid = p => x.pag # k[2]
  <2>1. /\ Unicas(tlb', p) /\ ToSet(tlb') \subseteq ToSet(tlb)
        /\ e \in ToSet(tlb) /\ e.pid = p => \A x \in ToSet(tlb') : x.pid = p => x.pag # e.pag
    BY <1>1, <1>5, <1>12, DesreferenciarDeja
  <2>2. \A x \in ToSet(tlb) : x.pid = p =>
           <<p, x.pag>> \in Claves /\ EnTabla(<<p, x.pag>>) /\ EnMarco(<<p, x.pag>>, x.frame)
    <3>1. ASSUME NEW x \in ToSet(tlb), x.pid = p
          PROVE  <<p, x.pag>> \in Claves
      <4>1. x \in TipoEntrada
        BY <1>1, <3>1, Tipos DEF Base, ToSet
      <4>. QED
        BY <3>1, <4>1 DEF TipoEntrada, Claves
    <3>. QED
      BY <1>12, <3>1 DEF TLBOK
  <2>3. TLBOK(p)'
    BY <1>6, <1>8, <2>1, <2>2 DEF TLBOK, EnTabla, EnMarco
  <2>4. ASSUME NEW x \in ToSet(tlb), x.pid = p, x.pag = k[2]  PROVE x = e
    <3>1. x \in TipoEntrada
      BY <1>1, <2>4, Tipos DEF Base, ToSet
    <3>2. x = [pid |-> x.pid, pag |-> x.pag, frame |-> x.frame]
      BY <3>1 DEF TipoEntrada
    <3>3. k = <<p, k[2]>>
      BY <1>2, <1>9, <1>12 DEF Mia, Claves
    <3>4. x.frame = pag[k].frame
      BY <2>2, <2>4, <3>3 DEF EnMarco
    <3>. QED
      BY <2>4, <3>2, <3>4
  <2>5. e.pid = p /\ e.pag = k[2]
    OBVIOUS
  <2>6. ASSUME NEW x \in ToSet(tlb'), x.pid = p, x.pag = k[2]  PROVE FALSE
    <3>1. x \in ToSet(tlb)
      BY <2>1, <2>6
    <3>2. x = e
      BY <2>4, <2>6, <3>1
    <3>. QED
      BY <2>1, <2>5, <2>6, <3>1, <3>2
  <2>. QED
    BY <2>3, <2>6
<1>13. TLBOK(p) => TLBOK(p)'
  BY <1>1, <1>12 DEF TLBOK
<1>14. CubiertosOK(p)'
  BY <1>1, <1>2, <1>6, <1>8, CubiertosQuieto DEF Suyo, Ocupa
<1>15. hilo[p].op \in Accesos => Halladas(p) \union {Buscada(p)} \subseteq Claves
  BY <1>1, <1>2, HalladasTipo
<1>16. /\ Halladas(p)' = Halladas(p) /\ Buscada(p)' = Buscada(p)
       /\ BuscadaOK(p)' /\ (HalladasOK(p) => HalladasOK(p)')
  BY <1>1, <1>2, <1>7, <1>8, <1>15, BusquedaSigue DEF Suyo, EnCurso
<1>17. TrabasOK(p)'
  <2>1. ASSUME NEW l \in Claves, Mia(p, l), pag'[l].lock  PROVE Traba(p, l)'
    <3>1. CASE l = k
      BY <1>7, <3>1 DEF Traba
    <3>2. CASE l # k
      <4>1. Traba(p, l)
        BY <1>1, <1>3, <2>1, <3>2 DEF Suyo, TrabasOK
      <4>. QED
        BY <1>2, <1>7, <1>16, <4>1 DEF Traba
    <3>. QED
      BY <3>1, <3>2
  <2>. QED
    BY <1>8, <2>1 DEF TrabasOK, MiasQuietas
<1>18. CuotaOK(p)'
  BY <1>1, <1>2, <1>6, <1>7, CuotaQuieta DEF Suyo, Tiene
<1>19. EnCurso(p)'
  <2>1. LlenoOK(p)'
    BY <1>1, <1>2, <1>6 DEF Suyo, EnCurso, LlenoOK, Lleno, De
  <2>2. VictimaOK(p)'
    BY <1>2, <1>3, <1>7, <1>8, <1>9, <1>16 DEF VictimaOK, MiasQuietas
  <2>3. LimpiaOK(p)'
    BY <1>3, <1>7 DEF LimpiaOK
  <2>4. Fiel => EntradasOK(p)'
    BY <1>1, <1>7, <1>12 DEF Suyo, EnSitio, EntradasOK
  <2>. QED
    BY <1>1, <1>7, <1>16, <2>1, <2>2, <2>3, <2>4 DEF Suyo, EnCurso, ViajeOK
<1>. QED
  BY <1>1, <1>10, <1>11, <1>13, <1>14, <1>17, <1>18, <1>19 DEF Suyo, EnSitio

\* The victim is in swamp, and its frame, which is no other page's, is the thread's.
LEMMA SoltarSuyo ==
  ASSUME NEW p \in Procesos, Sigue(p), SoltarVictima(p)
  PROVE  Suyo(p)'
<1>. DEFINE k == hilo[p].vic
            f == pag[k].frame
            pc == IF Creando(p) THEN "crear" ELSE "traer"
<1>1. Base /\ Suyo(p) /\ conf' = conf /\ Marcos' = Marcos /\ (Fija' <=> Fija) /\ (Fiel' <=> Fiel)
  BY ConfIgual DEF Sigue
<1>2. /\ hilo[p].pc = "soltar" /\ k \in Claves /\ f \in Marcos
      /\ Queda(p, pc, hilo[p].op, hilo[p].pags, hilo[p].frs, hilo[p].faltan, f, Nadie)
  BY <1>1, SoltarVictimaHace, Zenon
<1>3. /\ \A l \in Claves : l # k => pag'[l] = pag[l]
      /\ pag'[k].frame = f /\ pag'[k].presencia = FALSE /\ pag'[k].lock = FALSE
      /\ pag'[k].modificado = pag[k].modificado
  BY <1>1, SoltarVictimaHace, Zenon
<1>4. marco' = marco /\ tabla' = tabla /\ ram' = ram /\ enSwap' = enSwap /\ tlb' = tlb
  BY <1>1, SoltarVictimaHace DEF datos
<1>5. /\ hilo'[p].pc \in {"crear", "traer"} /\ hilo'[p].fr = f /\ hilo'[p].op = hilo[p].op
      /\ hilo'[p].pags = hilo[p].pags /\ hilo'[p].frs = hilo[p].frs
      /\ hilo[p].op \in Accesos => hilo'[p].pc = "traer"
  BY <1>2 DEF Queda, Creando, Accesos
<1>6. Mia(p, k) /\ pag[k].presencia /\ (hilo[p].op \in Accesos => k \notin Halladas(p))
  BY <1>1, <1>2 DEF Suyo, EnCurso, VictimaOK
<1>7. /\ De(p, f) /\ marco[f].ocupado
      /\ \A l \in Claves : Mia(p, l) /\ l # k => ~EnMarco(l, f)
  BY <1>1, <1>2, <1>6 DEF Suyo, EnSitio, MarcosOK
<1>8. (\A l : Mia(p, l)' <=> Mia(p, l)) /\ (\A g : De(p, g)' <=> De(p, g))
  BY <1>1, <1>4 DEF Mia, De, EnTabla
<1>9. Lleno(p)
  BY <1>1, <1>2 DEF Suyo, EnCurso, LlenoOK
<1>10. MarcosOK(p)'
  <2>1. ASSUME NEW l \in Claves, Mia(p, l), pag'[l].presencia
        PROVE  /\ De(p, pag'[l].frame) /\ marco[pag'[l].frame].ocupado
               /\ \A m \in Claves : Mia(p, m) /\ m # l =>
                     ~(pag'[m].presencia /\ pag'[m].frame = pag'[l].frame)
    <3>1. l # k /\ pag'[l] = pag[l]
      BY <1>3, <2>1
    <3>2. /\ De(p, pag[l].frame) /\ marco[pag[l].frame].ocupado
          /\ \A m \in Claves : Mia(p, m) /\ m # l =>
                ~(pag[m].presencia /\ pag[m].frame = pag[l].frame)
      BY <1>1, <2>1, <3>1 DEF Suyo, EnSitio, MarcosOK, EnMarco
    <3>. QED
      BY <1>3, <3>1, <3>2
  <2>. QED
    BY <1>4, <1>8, <2>1 DEF MarcosOK, EnMarco
<1>11. AusentesOK(p)'
  BY <1>1, <1>4, <1>8, <1>9 DEF AusentesOK, Lleno
<1>12. ASSUME Fiel  PROVE RamOK(p)'
  <2>1. RamOK(p) /\ LimpiaOK(p)
    BY <1>1, <1>12 DEF Suyo, EnSitio, EnCurso
  <2>2. ~pag[k].modificado /\ enSwap[k]
    BY <1>2, <1>6, <2>1 DEF LimpiaOK, RamOK
  <2>3. ASSUME NEW l \in Claves, Mia(p, l)
        PROVE  /\ pag'[l].presencia => ram[pag'[l].frame] = l
               /\ ~pag'[l].presencia \/ ~pag'[l].modificado => enSwap[l]
    BY <1>3, <2>1, <2>2, <2>3 DEF RamOK
  <2>. QED
    BY <1>4, <1>8, <2>3 DEF RamOK
<1>13. ASSUME Fiel  PROVE TLBOK(p)'
  <2>1. SUFFICES ASSUME Fija  PROVE TLBOK(p)'
    BY <1>1 DEF TLBOK
  <2>2. TLBOK(p) /\ \A e \in ToSet(tlb) : e.pid = p => e.pag # k[2]
    BY <1>1, <1>2, <1>13, <2>1 DEF Suyo, EnSitio, EnCurso, EntradasOK
  <2>3. ASSUME NEW e \in ToSet(tlb), e.pid = p
        PROVE  EnTabla(<<p, e.pag>>)' /\ EnMarco(<<p, e.pag>>, e.frame)'
    <3>1. <<p, e.pag>> \in Claves
      <4>1. e \in TipoEntrada
        BY <1>1, <2>3, Tipos DEF Base, ToSet
      <4>. QED
        BY <2>3, <4>1 DEF TipoEntrada, Claves
    <3>2. <<p, e.pag>> # k
      BY <2>2, <2>3
    <3>3. EnTabla(<<p, e.pag>>) /\ EnMarco(<<p, e.pag>>, e.frame)
      BY <2>2, <2>1, <2>3 DEF TLBOK
    <3>. QED
      BY <1>3, <1>4, <3>1, <3>2, <3>3 DEF EnTabla, EnMarco
  <2>. QED
    BY <1>1, <1>4, <2>1, <2>2, <2>3 DEF TLBOK, Unicas
<1>14. CubiertosOK(p)'
  <2>1. ASSUME NEW g \in Marcos, De(p, g), marco[g].ocupado, g # f
        PROVE  \E l \in Claves : Mia(p, l)' /\ EnMarco(l, g)'
    <3>1. PICK l \in Claves : Mia(p, l) /\ EnMarco(l, g)
      BY <1>1, <1>2, <2>1 DEF Suyo, CubiertosOK, Ocupa
    <3>2. l # k
      BY <2>1, <3>1 DEF EnMarco
    <3>. QED
      BY <1>3, <1>8, <3>1, <3>2 DEF EnMarco
  <2>2. ASSUME NEW g \in Marcos, g = f  PROVE Ocupa(p, g)'
    BY <1>5, <2>2 DEF Ocupa
  <2>. QED
    BY <1>1, <1>4, <1>8, <2>1, <2>2 DEF CubiertosOK
<1>15. hilo[p].op \in Accesos =>
          /\ Halladas(p) \union {Buscada(p)} \subseteq Claves
          /\ k \notin Halladas(p) \union {Buscada(p)}
  BY <1>1, <1>2, <1>6, HalladasTipo DEF Suyo, EnCurso, BuscadaOK
<1>16. /\ Halladas(p)' = Halladas(p) /\ Buscada(p)' = Buscada(p)
       /\ BuscadaOK(p)' /\ (HalladasOK(p) => HalladasOK(p)')
  <2>1. hilo'[p].pc \in {"falta", "elegir", "expulsar", "soltar", "traer"} \/ hilo[p].op \notin Accesos
    BY <1>5
  <2>2. hilo[p].op \in Accesos =>
            \A l \in Halladas(p) \union {Buscada(p)} :
                /\ pag'[l].frame = pag[l].frame /\ pag'[l].presencia = pag[l].presencia
                /\ pag[l].lock => pag'[l].lock
    BY <1>3, <1>15
  <2>3. CASE hilo[p].op \in Accesos
    BY <1>1, <1>2, <1>5, <2>1, <2>2, <2>3, BusquedaSigue DEF Suyo, EnCurso
  <2>4. CASE hilo[p].op \notin Accesos
    BY <1>5, <2>4 DEF Halladas, Buscada, BuscadaOK, HalladasOK
  <2>. QED
    BY <2>3, <2>4
<1>17. TrabasOK(p)'
  <2>1. ASSUME NEW l \in Claves, Mia(p, l), pag'[l].lock  PROVE Traba(p, l)'
    <3>1. l # k /\ pag[l].lock
      BY <1>3, <2>1
    <3>2. Traba(p, l)
      BY <1>1, <2>1, <3>1 DEF Suyo, TrabasOK
    <3>. QED
      BY <1>2, <1>5, <1>16, <3>1, <3>2 DEF Traba
  <2>. QED
    BY <1>8, <2>1 DEF TrabasOK
<1>18. CuotaOK(p)'
  <2>1. Tiene(p)' <=> Tiene(p)
    BY <1>2, <1>4, <1>5 DEF Tiene
  <2>. QED
    BY <1>1, <1>4, <2>1, CuotaQuieta DEF Suyo
<1>19. EnCurso(p)'
  <2>1. ViajeOK(p)'
    <3>1. ASSUME NEW l \in Claves, Mia(p, l)  PROVE ~(pag'[l].presencia /\ pag'[l].frame = f)
      BY <1>3, <1>7, <3>1 DEF EnMarco
    <3>. QED
      BY <1>4, <1>5, <1>7, <1>8, <3>1 DEF ViajeOK, EnMarco
  <2>. QED
    BY <1>1, <1>5, <1>16, <2>1
       DEF Suyo, EnCurso, LlenoOK, VictimaOK, LimpiaOK, EntradasOK
<1>. QED
  BY <1>1, <1>10, <1>11, <1>12, <1>13, <1>14, <1>17, <1>18, <1>19 DEF Suyo, EnSitio

-----------------------------------------------------------------------------
\* The search of a page.

\* The page that is found joins the others, in the frame that it is in.
LEMMA EncontradaSuya ==
  ASSUME Base, NEW p \in Procesos, BuscadaOK(p), Fiel' <=> Fiel,
         hilo[p].pc \in {"buscar", "actualizar", "reemplazar"}, hilo[p].op \in Accesos,
         NEW fr \in Marcos, Encontrada(p, fr), pag[Buscada(p)].presencia,
         \A k \in Claves : pag'[k].frame = pag[k].frame /\ pag'[k].presencia = pag[k].presencia,
         hilo[p].op \notin {"liberar", "cabecera"} =>
            \A k \in Halladas(p) \union {Buscada(p)} : pag'[k].lock,
         Fiel => HalladasOK(p) /\ fr = pag[Buscada(p)].frame
  PROVE  /\ Halladas(p)' = Halladas(p) \union {Buscada(p)}
         /\ hilo'[p].pc \in {"buscar", "copiar", "quitar"} /\ hilo'[p].op = hilo[p].op
         /\ hilo'[p].pc = "quitar" => hilo[p].op = "liberar"
         /\ EnCurso(p)'
<1>. DEFINE frs == hilo[p].frs
            n == Len(frs)
<1>1. Len(frs) < Len(hilo[p].pags) /\ Buscada(p) \in Claves /\ Halladas(p) \subseteq Claves
  BY HalladasTipo, QuienBusca
<1>2. /\ hilo'[p].pc = PcTras(p) /\ hilo'[p].op = hilo[p].op /\ hilo'[p].pags = hilo[p].pags
      /\ hilo'[p].frs = Append(frs, fr)
      /\ PcTras(p) \in {"buscar", "copiar", "quitar"}
      /\ PcTras(p) = "quitar" => hilo[p].op = "liberar"
  BY <1>1, EncontradaHace DEF Queda
<1>3. /\ n \in Nat /\ DOMAIN frs = 1 .. n
      /\ DOMAIN Append(frs, fr) = 1 .. n + 1
      /\ Append(frs, fr)[n + 1] = fr /\ \A i \in 1 .. n : Append(frs, fr)[i] = frs[i]
  <2>1. frs \in Seq(Marcos)
    BY Registro DEF Base
  <2>. QED
    BY <2>1, AppendProperties, LenProperties
<1>4. Halladas(p)' = Halladas(p) \union {Buscada(p)}
  BY <1>2, <1>3 DEF Halladas, Buscada
<1>5. BuscadaOK(p)'
  <2>1. \A k \in Halladas(p) \union {Buscada(p)} : pag'[k].presencia
    BY <1>1 DEF BuscadaOK
  <2>2. ASSUME hilo[p].op # "liberar", hilo[p].op # "cabecera"
        PROVE  \A k \in Halladas(p)' : pag'[k].lock
    BY <1>4, <2>2
  <2>3. hilo[p].op # "liberar" => hilo'[p].pc \in {"buscar", "copiar"}
    BY <1>2
  <2>4. hilo'[p].pc \notin {"falta", "elegir", "expulsar", "soltar", "traer", "actualizar",
                            "reemplazar"}
    BY <1>2
  <2>. QED
    BY <1>2, <1>4, <2>1, <2>2, <2>3, <2>4 DEF BuscadaOK
<1>6. Fiel => HalladasOK(p)'
  <2>1. SUFFICES ASSUME Fiel  PROVE HalladasOK(p)'
    OBVIOUS
  <2>2. ASSUME NEW i \in 1 .. n + 1
        PROVE  pag'[<<p, hilo[p].pags[i]>>].frame = Append(frs, fr)[i]
    <3>1. CASE i = n + 1
      <4>1. <<p, hilo[p].pags[i]>> = Buscada(p)
        BY <3>1 DEF Buscada
      <4>. QED
        BY <1>1, <1>3, <2>1, <3>1, <4>1
    <3>2. CASE i # n + 1
      <4>1. i \in 1 .. n
        BY <1>3, <3>2
      <4>2. <<p, hilo[p].pags[i]>> \in Halladas(p)
        BY <1>3, <4>1 DEF Halladas
      <4>3. pag[<<p, hilo[p].pags[i]>>].frame = frs[i]
        BY <1>3, <2>1, <4>1 DEF HalladasOK
      <4>. QED
        BY <1>1, <1>3, <4>1, <4>2, <4>3
    <3>. QED
      BY <3>1, <3>2
  <2>. QED
    BY <1>2, <1>3, <2>2 DEF HalladasOK
<1>7. ViajeOK(p)' /\ LlenoOK(p)' /\ VictimaOK(p)' /\ LimpiaOK(p)' /\ EntradasOK(p)'
  BY <1>2 DEF ViajeOK, LlenoOK, VictimaOK, LimpiaOK, EntradasOK
<1>. QED
  BY <1>2, <1>4, <1>5, <1>6, <1>7 DEF EnCurso

\* What is locked for a search: the page, those found before it, or none.
LEMMA QuienBloquea ==
  ASSUME Base, NEW p \in Procesos, hilo[p].op \in Accesos
  PROVE  /\ hilo[p].op = "liberar" => Bloqueadas(p) = {}
         /\ hilo[p].op = "cabecera" => Bloqueadas(p) = Halladas(p)
         /\ hilo[p].op \notin {"liberar", "cabecera"} => Bloqueadas(p) = {Buscada(p)}
BY DEF Bloqueadas, Halladas

\* A page that is present is found where its entry of the TLB says, or, without one, where its
\* table says; one that is not is to be brought.
LEMMA BuscarPaginaSuyo ==
  ASSUME NEW p \in Procesos, Sigue(p), BuscarPagina(p)
  PROVE  Suyo(p)'
<1>. DEFINE k == Buscada(p)
            B == Bloqueadas(p)
<1>1. Base /\ Suyo(p) /\ conf' = conf /\ Marcos' = Marcos /\ (Fija' <=> Fija) /\ (Fiel' <=> Fiel)
  BY ConfIgual DEF Sigue
<1>2. hilo[p].pc = "buscar"
  BY <1>1, BuscarPaginaHace, Zenon
<1>3. \A l \in Claves :
         /\ pag'[l].frame = pag[l].frame /\ pag'[l].presencia = pag[l].presencia
         /\ pag'[l].modificado = pag[l].modificado
         /\ pag'[l].lock <=> pag[l].lock \/ l \in B
  BY <1>1, BuscarPaginaHace, Zenon
<1>4. marco' = marco /\ tabla' = tabla /\ ram' = ram /\ enSwap' = enSwap /\ tlb' = tlb
  BY <1>1, BuscarPaginaHace DEF datos
<1>5. /\ hilo[p].op \in Accesos /\ k \in Claves /\ EnTabla(k) /\ k[1] = p /\ pag[k].frame \in Marcos
      /\ Len(hilo[p].frs) < Len(hilo[p].pags)
      /\ Halladas(p) \subseteq Claves
  BY <1>1, <1>2, QuienBusca, HalladasTipo
<1>6. /\ hilo[p].op = "liberar" => B = {}
      /\ hilo[p].op = "cabecera" => B = Halladas(p)
      /\ hilo[p].op \notin {"liberar", "cabecera"} => B = {k}
  BY <1>1, <1>5, QuienBloquea
<1>7. EnSitio(p)'
  BY <1>1, <1>3, <1>4, EnSitioQuieto DEF Suyo
<1>8. MiasQuietas(p)
  BY <1>1, <1>3, <1>4, MiasQuietasSi
<1>9. CubiertosOK(p)'
  BY <1>1, <1>2, <1>4, <1>8, CubiertosQuieto DEF Suyo, Ocupa
<1>10. ASSUME hilo'[p].op = hilo[p].op, Halladas(p) \subseteq Halladas(p)',
              k \in Halladas(p)' \/ (hilo'[p].pc \notin {"buscar", "copiar"} /\ Buscada(p)' = k)
       PROVE  TrabasOK(p)'
  <2>1. ASSUME NEW l \in Claves, Mia(p, l), pag'[l].lock  PROVE Traba(p, l)'
    <3>1. hilo[p].op # "liberar" /\ l \in Halladas(p) \union {k}
      <4>1. CASE pag[l].lock
        BY <1>1, <1>2, <2>1, <4>1 DEF Suyo, TrabasOK, Traba
      <4>2. CASE l \in B
        BY <1>6, <4>2, <1>5 DEF Accesos
      <4>. QED
        BY <1>3, <2>1, <4>1, <4>2
    <3>. QED
      BY <1>5, <1>10, <3>1 DEF Traba
  <2>. QED
    BY <1>8, <2>1 DEF TrabasOK, MiasQuietas
<1>11. ASSUME hilo'[p].pc \notin {"libre", "reservar", "tomar"}  PROVE CuotaOK(p)'
  BY <1>1, <1>2, <1>4, <1>11, CuotaQuieta DEF Suyo, Tiene
<1>12. BuscadaOK(p) /\ (Fiel => HalladasOK(p))
  BY <1>1 DEF Suyo, EnCurso
<1>13. hilo[p].op \notin {"liberar", "cabecera"} =>
          \A l \in Halladas(p) \union {k} : pag'[l].lock
  BY <1>3, <1>5, <1>6, <1>12 DEF BuscadaOK
<1>14. hilo[p].op = "cabecera" => \A l \in Halladas(p) : pag'[l].lock
  BY <1>3, <1>5, <1>6
<1>15. ASSUME NEW pc \in {"falta", "actualizar"}, NEW fr,
              Queda(p, pc, hilo[p].op, hilo[p].pags, hilo[p].frs, hilo[p].faltan, fr, hilo[p].vic),
              pc = "falta" => ~pag[k].presencia,
              pc = "actualizar" => pag[k].presencia /\ EntradasTLB(k) = {} /\ fr = pag[k].frame
       PROVE  Suyo(p)'
  <2>1. /\ hilo'[p].pc = pc /\ hilo'[p].op = hilo[p].op /\ hilo'[p].pags = hilo[p].pags
        /\ hilo'[p].frs = hilo[p].frs /\ hilo'[p].fr = fr
    BY <1>15 DEF Queda
  <2>2. Halladas(p)' = Halladas(p) /\ Buscada(p)' = k
    BY <2>1 DEF Halladas, Buscada
  <2>3. BuscadaOK(p)'
    <3>1. \A l \in Halladas(p) : pag'[l].presencia
      BY <1>3, <1>5, <1>12 DEF BuscadaOK
    <3>2. pc = "falta" => ~pag'[k].presencia
      BY <1>3, <1>5, <1>15
    <3>3. pc = "actualizar" => pag'[k].presencia
      BY <1>3, <1>5, <1>15
    <3>4. hilo[p].op # "liberar" => \A l \in Halladas(p) : pag'[l].lock
      BY <1>13, <1>14
    <3>5. hilo[p].op \notin {"liberar", "cabecera"} => pag'[k].lock
      BY <1>13
    <3>. QED
      BY <2>1, <2>2, <3>1, <3>2, <3>3, <3>4, <3>5 DEF BuscadaOK
  <2>4. Fiel => HalladasOK(p)'
    <3>1. ASSUME Fiel, NEW i \in DOMAIN hilo[p].frs
          PROVE  pag'[<<p, hilo[p].pags[i]>>].frame = hilo[p].frs[i]
      <4>1. <<p, hilo[p].pags[i]>> \in Halladas(p)
        BY <3>1 DEF Halladas
      <4>. QED
        BY <1>3, <1>5, <1>12, <3>1, <4>1 DEF HalladasOK
    <3>2. pc = "actualizar" => pag'[k].frame = fr
      BY <1>3, <1>5, <1>15
    <3>. QED
      BY <2>1, <2>2, <3>1, <3>2 DEF HalladasOK
  <2>5. EntradasOK(p)'
    <3>1. ASSUME pc = "actualizar", NEW e \in ToSet(tlb), e.pid = p  PROVE e.pag # k[2]
      BY <1>5, <1>15, <3>1 DEF EntradasTLB, ToSet
    <3>. QED
      BY <1>4, <2>1, <2>2, <3>1 DEF EntradasOK
  <2>6. EnCurso(p)'
    BY <2>1, <2>3, <2>4, <2>5, <1>1 DEF EnCurso, ViajeOK, LlenoOK, VictimaOK, LimpiaOK
  <2>7. TrabasOK(p)' /\ CuotaOK(p)'
    BY <1>10, <1>11, <2>1, <2>2
  <2>. QED
    BY <1>7, <1>9, <2>6, <2>7 DEF Suyo
<1>16. ASSUME pag[k].presencia, NEW i \in EntradasTLB(k), tlb[i].frame \in Marcos,
              Encontrada(p, tlb[i].frame)
       PROVE  Suyo(p)'
  <2>1. i \in DOMAIN tlb /\ tlb[i].pid = p /\ tlb[i].pag = k[2] /\ tlb[i] \in ToSet(tlb)
    BY <1>5, <1>16 DEF EntradasTLB, ToSet
  <2>2. Fiel => tlb[i].frame = pag[k].frame
    <3>1. conf.entradas # 0
      BY <2>1 DEF Sigue, Duenios, TLBHay
    <3>2. ASSUME Fija  PROVE tlb[i].frame = pag[k].frame
      <4>1. TLBOK(p)
        BY <1>1, <3>2 DEF Suyo, EnSitio, Fiel
      <4>2. EnMarco(<<p, tlb[i].pag>>, tlb[i].frame)
        BY <2>1, <3>2, <4>1 DEF TLBOK
      <4>3. <<p, tlb[i].pag>> = k
        BY <1>5, <2>1 DEF Claves
      <4>. QED
        BY <4>2, <4>3 DEF EnMarco
    <3>. QED
      BY <3>1, <3>2 DEF Fiel
  <2>3. /\ Halladas(p)' = Halladas(p) \union {k}
        /\ hilo'[p].pc \in {"buscar", "copiar", "quitar"} /\ hilo'[p].op = hilo[p].op
        /\ EnCurso(p)'
    BY <1>1, <1>2, <1>3, <1>5, <1>12, <1>13, <1>16, <2>2, EncontradaSuya
  <2>4. TrabasOK(p)' /\ CuotaOK(p)'
    BY <1>10, <1>11, <2>3
  <2>. QED
    BY <1>7, <1>9, <2>3, <2>4 DEF Suyo
<1>17. \/ /\ ~pag[k].presencia
          /\ Queda(p, "falta", hilo[p].op, hilo[p].pags, hilo[p].frs, hilo[p].faltan,
                   SinMarco, hilo[p].vic)
       \/ /\ pag[k].presencia
          /\ \E i \in EntradasTLB(k) :
                /\ tlb[i].frame \in Marcos
                /\ Encontrada(p, tlb[i].frame)
       \/ /\ pag[k].presencia /\ EntradasTLB(k) = {}
          /\ Queda(p, "actualizar", hilo[p].op, hilo[p].pags, hilo[p].frs, hilo[p].faltan,
                   pag[k].frame, hilo[p].vic)
  BY <1>1, BuscarPaginaHace, Zenon
<1>. HIDE DEF k
<1>18. CASE ~pag[k].presencia /\ Queda(p, "falta", hilo[p].op, hilo[p].pags, hilo[p].frs,
                                       hilo[p].faltan, SinMarco, hilo[p].vic)
  BY <1>15, <1>18
<1>19. CASE /\ pag[k].presencia /\ EntradasTLB(k) = {}
            /\ Queda(p, "actualizar", hilo[p].op, hilo[p].pags, hilo[p].frs, hilo[p].faltan,
                     pag[k].frame, hilo[p].vic)
  BY <1>15, <1>19
<1>. QED
  BY <1>16, <1>17, <1>18, <1>19

\* With fixed assignment no frame of the process is free while one of its pages is out: the
\* unmarked frame of traer_pagina_a_mp is never taken.
LEMMA BuscarMarcoSuyo ==
  ASSUME NEW p \in Procesos, Sigue(p), BuscarMarco(p)
  PROVE  Suyo(p)'
<1>. DEFINE k == Buscada(p)
<1>1. Base /\ Suyo(p) /\ conf' = conf /\ Marcos' = Marcos /\ (Fija' <=> Fija) /\ (Fiel' <=> Fiel)
  BY ConfIgual DEF Sigue
<1>2. /\ hilo[p].pc = "falta" /\ tabla' = tabla /\ pag' = pag /\ ram' = ram /\ enSwap' = enSwap
      /\ tlb' = tlb
  BY <1>1, BuscarMarcoHace DEF tablas, datos
<1>3. /\ hilo[p].op \in Accesos /\ k \in Claves /\ EnTabla(k) /\ k[1] = p /\ Mia(p, k)
      /\ ~pag[k].presencia
  BY <1>1, <1>2, QuienBusca DEF Suyo, EnCurso, BuscadaOK, Mia
<1>4. Fija => Lleno(p)
  BY <1>1, <1>3 DEF Suyo, EnSitio, AusentesOK
<1>5. MiasQuietas(p)
  BY <1>1, <1>2, MiasQuietasSi
<1>6. ASSUME NEW pc \in {"elegir", "traer"}, NEW fr,
             Queda(p, pc, hilo[p].op, hilo[p].pags, hilo[p].frs, hilo[p].faltan, fr, hilo[p].vic),
             EnSitio(p)', CubiertosOK(p)', ViajeOK(p)',
             pc = "elegir" => Lleno(p)', \A f \in Marcos : marco'[f].pid = marco[f].pid
      PROVE  Suyo(p)'
  <2>1. /\ hilo'[p].pc = pc /\ hilo'[p].op = hilo[p].op /\ hilo'[p].pags = hilo[p].pags
        /\ hilo'[p].frs = hilo[p].frs
    BY <1>6 DEF Queda
  <2>2. /\ Halladas(p)' = Halladas(p) /\ Buscada(p)' = Buscada(p)
        /\ BuscadaOK(p)' /\ (HalladasOK(p) => HalladasOK(p)')
    BY <1>1, <1>2, <2>1, BusquedaSigue DEF Suyo, EnCurso
  <2>3. TrabasOK(p)'
    <3>1. \A l \in Claves : Traba(p, l) => Traba(p, l)'
      BY <1>2, <2>1, <2>2 DEF Traba
    <3>. QED
      BY <1>1, <1>2, <1>5, <3>1, TrabasQuieto DEF Suyo
  <2>4. CuotaOK(p)'
    BY <1>1, <1>2, <1>6, <2>1, CuotaQuieta DEF Suyo, Tiene
  <2>5. EnCurso(p)'
    BY <1>1, <1>6, <2>1, <2>2 DEF Suyo, EnCurso, LlenoOK, VictimaOK, LimpiaOK, EntradasOK
  <2>. QED
    BY <1>6, <2>3, <2>4, <2>5 DEF Suyo
<1>7. CASE /\ MarcosLibres(p) = {}
           /\ Queda(p, "elegir", hilo[p].op, hilo[p].pags, hilo[p].frs, hilo[p].faltan,
                    SinMarco, hilo[p].vic)
           /\ marco' = marco
  <2>1. EnSitio(p)'
    BY <1>1, <1>2, <1>7, EnSitioQuieto DEF Suyo
  <2>2. CubiertosOK(p)'
    BY <1>1, <1>2, <1>5, <1>7, CubiertosQuieto DEF Suyo, Ocupa
  <2>3. ViajeOK(p)'
    BY <1>7 DEF ViajeOK, Queda
  <2>4. Lleno(p)'
    <3>1. Lleno(p)
      BY <1>7, SinLibres
    <3>. QED
      BY <1>1, <1>7, <3>1 DEF Lleno, De
  <2>. QED
    BY <1>6, <1>7, <2>1, <2>2, <2>3, <2>4
<1>8. ASSUME NEW f \in MarcosLibres(p),
             Queda(p, "traer", hilo[p].op, hilo[p].pags, hilo[p].frs, hilo[p].faltan,
                   f, hilo[p].vic),
             marco' = [marco EXCEPT ![f].ocupado = ~Fija]
      PROVE  Suyo(p)'
  <2>1. ~Fija
    BY <1>4, <1>8 DEF MarcosLibres, Lleno, De
  <2>2. marco' = [marco EXCEPT ![f].ocupado = TRUE] /\ f \in Marcos
    BY <1>8, <2>1 DEF MarcosLibres
  <2>3. hilo'[p].pc = "traer" /\ hilo'[p].fr = f
    BY <1>8 DEF Queda
  <2>4. EnSitio(p)' /\ CubiertosOK(p)' /\ ViajeOK(p)'
    <3>1. \A g \in Marcos : ~Ocupa(p, g)
      BY <1>2 DEF Ocupa
    <3>. QED
      BY <1>1, <1>2, <1>8, <2>2, <2>3, <3>1, MarcarLibre DEF Suyo
  <2>5. \A g \in Marcos : marco'[g].pid = marco[g].pid
    BY <1>1, <2>2, MarcarTipo DEF Base
  <2>. QED
    BY <1>6, <1>8, <2>4, <2>5
<1>. QED
  BY <1>1, <1>7, <1>8, BuscarMarcoHace

\* The pages of the entries of the TLB are keys of its table.
LEMMA EntradasTipo ==
  ASSUME Base, NEW p, NEW e \in ToSet(tlb), e.pid = p
  PROVE  <<p, e.pag>> \in Claves /\ p \in Procesos
<1>1. e \in TipoEntrada
  BY Tipos DEF Base, ToSet
<1>. QED
  BY <1>1 DEF TipoEntrada, Claves

\* The page comes from swamp, where its content is, to a frame in which there is no other.
LEMMA TraerSuyo ==
  ASSUME NEW p \in Procesos, Sigue(p), TraerPagina(p)
  PROVE  Suyo(p)'
<1>. DEFINE k == Buscada(p)
            f == hilo[p].fr
<1>1. Base /\ Suyo(p) /\ conf' = conf /\ Marcos' = Marcos /\ (Fija' <=> Fija) /\ (Fiel' <=> Fiel)
  BY ConfIgual DEF Sigue
<1>2. /\ hilo[p].pc = "traer" /\ f \in Marcos /\ k \in Claves
      /\ Queda(p, "actualizar", hilo[p].op, hilo[p].pags, hilo[p].frs, hilo[p].faltan,
               f, hilo[p].vic)
  BY <1>1, TraerHace, Zenon
<1>3. /\ \A l \in Claves : l # k => pag'[l] = pag[l]
      /\ pag'[k].frame = f /\ pag'[k].presencia = TRUE /\ pag'[k].modificado = FALSE
      /\ pag'[k].lock = pag[k].lock
  BY <1>1, TraerHace, Zenon
<1>4. /\ ram'[f] = IF enSwap[k] THEN k ELSE Nadie
      /\ \A g \in Marcos : g # f => ram'[g] = ram[g]
  BY <1>1, TraerHace, Zenon
<1>5. marco' = marco /\ tabla' = tabla /\ enSwap' = enSwap /\ tlb' = tlb
  BY <1>1, TraerHace
<1>6. /\ hilo'[p].pc = "actualizar" /\ hilo'[p].fr = f /\ hilo'[p].op = hilo[p].op
      /\ hilo'[p].pags = hilo[p].pags /\ hilo'[p].frs = hilo[p].frs
  BY <1>2 DEF Queda
<1>7. /\ hilo[p].op \in Accesos /\ EnTabla(k) /\ k[1] = p /\ Mia(p, k)
      /\ ~pag[k].presencia /\ BuscadaOK(p) /\ Halladas(p) \subseteq Claves /\ k \notin Halladas(p)
  BY <1>1, <1>2, QuienBusca, HalladasTipo DEF Suyo, EnCurso, BuscadaOK, Mia
<1>8. De(p, f) /\ marco[f].ocupado /\ \A l \in Claves : Mia(p, l) => ~EnMarco(l, f)
  BY <1>1, <1>2 DEF Suyo, EnCurso, ViajeOK
<1>9. (\A l : Mia(p, l)' <=> Mia(p, l)) /\ (\A g : De(p, g)' <=> De(p, g))
  BY <1>1, <1>5 DEF Mia, De, EnTabla
<1>10. MarcosOK(p)'
  <2>1. ASSUME NEW l \in Claves, Mia(p, l), pag'[l].presencia
        PROVE  /\ De(p, pag'[l].frame) /\ marco[pag'[l].frame].ocupado
               /\ \A m \in Claves : Mia(p, m) /\ m # l =>
                     ~(pag'[m].presencia /\ pag'[m].frame = pag'[l].frame)
    <3>1. CASE l = k
      <4>1. \A m \in Claves : Mia(p, m) /\ m # k => ~(pag'[m].presencia /\ pag'[m].frame = f)
        BY <1>3, <1>8 DEF EnMarco
      <4>. QED
        BY <1>3, <1>8, <3>1, <4>1
    <3>2. CASE l # k
      <4>1. pag[l].presencia /\ pag'[l] = pag[l]
        BY <1>3, <2>1, <3>2
      <4>2. /\ De(p, pag[l].frame) /\ marco[pag[l].frame].ocupado /\ pag[l].frame # f
            /\ \A m \in Claves : Mia(p, m) /\ m # l =>
                  ~(pag[m].presencia /\ pag[m].frame = pag[l].frame)
        BY <1>1, <1>8, <2>1, <4>1 DEF Suyo, EnSitio, MarcosOK, EnMarco
      <4>. QED
        BY <1>3, <4>1, <4>2
    <3>. QED
      BY <3>1, <3>2
  <2>. QED
    BY <1>5, <1>9, <2>1 DEF MarcosOK, EnMarco
<1>11. AusentesOK(p)'
  <2>1. Lleno(p)' <=> Lleno(p)
    BY <1>1, <1>5, <1>9 DEF Lleno
  <2>. QED
    BY <1>1, <1>3, <1>9, <2>1 DEF Suyo, EnSitio, AusentesOK
<1>12. RamOK(p) => RamOK(p)'
  <2>1. ASSUME RamOK(p), NEW l \in Claves, Mia(p, l)
        PROVE  /\ pag'[l].presencia => ram'[pag'[l].frame] = l
               /\ ~pag'[l].presencia \/ ~pag'[l].modificado => enSwap[l]
    <3>1. CASE l = k
      BY <1>3, <1>4, <1>7, <2>1, <3>1 DEF RamOK
    <3>2. CASE l # k
      <4>1. pag'[l] = pag[l] /\ pag[l].frame \in Marcos
        BY <1>1, <1>3, <2>1, <3>2 DEF Mia, Base, TablasOK
      <4>2. pag[l].presencia => ram[pag[l].frame] = l /\ pag[l].frame # f
        BY <1>8, <2>1 DEF RamOK, EnMarco
      <4>3. ~pag[l].presencia \/ ~pag[l].modificado => enSwap[l]
        BY <2>1 DEF RamOK
      <4>. QED
        BY <1>4, <4>1, <4>2, <4>3
    <3>. QED
      BY <3>1, <3>2
  <2>. QED
    BY <1>5, <1>9, <2>1 DEF RamOK
<1>13. ASSUME Fija, TLBOK(p)
       PROVE  TLBOK(p)' /\ \A e \in ToSet(tlb) : e.pid = p => e.pag # k[2]
  <2>1. ASSUME NEW e \in ToSet(tlb), e.pid = p
        PROVE  /\ EnTabla(<<p, e.pag>>)' /\ EnMarco(<<p, e.pag>>, e.frame)'
               /\ e.pag # k[2]
    <3>1. <<p, e.pag>> \in Claves
      BY <1>1, <2>1, EntradasTipo
    <3>2. EnTabla(<<p, e.pag>>) /\ EnMarco(<<p, e.pag>>, e.frame)
      BY <1>13, <2>1 DEF TLBOK
    <3>3. <<p, e.pag>> # k
      BY <1>7, <3>2 DEF EnMarco
    <3>4. e.pag # k[2]
      BY <1>2, <1>7, <3>3 DEF Claves
    <3>. QED
      BY <1>3, <1>5, <3>1, <3>2, <3>3, <3>4 DEF EnTabla, EnMarco
  <2>. QED
    BY <1>1, <1>5, <1>13, <2>1 DEF TLBOK, Unicas
<1>14. TLBOK(p) => TLBOK(p)'
  BY <1>1, <1>13 DEF TLBOK
<1>15. CubiertosOK(p)'
  <2>1. ASSUME NEW g \in Marcos, De(p, g), marco[g].ocupado
        PROVE  \E l \in Claves : Mia(p, l) /\ pag'[l].presencia /\ pag'[l].frame = g
    <3>1. CASE g = f
      BY <1>2, <1>3, <1>7, <3>1
    <3>2. CASE g # f
      <4>1. PICK l \in Claves : Mia(p, l) /\ EnMarco(l, g)
        BY <1>1, <2>1, <3>2 DEF Suyo, CubiertosOK, Ocupa
      <4>. QED
        BY <1>3, <1>7, <4>1 DEF EnMarco
    <3>. QED
      BY <3>1, <3>2
  <2>. QED
    BY <1>1, <1>5, <1>9, <2>1 DEF CubiertosOK, EnMarco
<1>16. Halladas(p)' = Halladas(p) /\ Buscada(p)' = k
  BY <1>6 DEF Halladas, Buscada
<1>17. TrabasOK(p)'
  <2>1. \A l \in Claves : Traba(p, l) => Traba(p, l)'
    BY <1>2, <1>6, <1>16 DEF Traba
  <2>2. \A l \in Claves : pag'[l].lock = pag[l].lock
    BY <1>3
  <2>. QED
    BY <1>1, <1>9, <2>1, <2>2 DEF Suyo, TrabasOK
<1>18. CuotaOK(p)'
  BY <1>1, <1>2, <1>5, <1>6, CuotaQuieta DEF Suyo, Tiene
<1>19. EnCurso(p)'
  <2>1. BuscadaOK(p)'
    BY <1>2, <1>3, <1>6, <1>7, <1>16 DEF BuscadaOK
  <2>2. Fiel => HalladasOK(p)'
    <3>1. ASSUME Fiel, NEW i \in DOMAIN hilo[p].frs
          PROVE  pag'[<<p, hilo[p].pags[i]>>].frame = hilo[p].frs[i]
      <4>1. <<p, hilo[p].pags[i]>> \in Halladas(p)
        BY <3>1 DEF Halladas
      <4>2. HalladasOK(p)
        BY <1>1, <3>1 DEF Suyo, EnCurso
      <4>. QED
        BY <1>3, <1>7, <3>1, <4>1, <4>2 DEF HalladasOK
    <3>. QED
      BY <1>3, <1>6, <1>16, <3>1 DEF HalladasOK
  <2>3. Fiel => EntradasOK(p)'
    <3>1. ASSUME Fiel, Fija  PROVE TLBOK(p)
      BY <1>1, <3>1 DEF Suyo, EnSitio
    <3>. QED
      BY <1>1, <1>5, <1>6, <1>13, <1>16, <3>1 DEF EntradasOK
  <2>. QED
    BY <1>1, <1>6, <2>1, <2>2, <2>3 DEF EnCurso, ViajeOK, LlenoOK, VictimaOK, LimpiaOK
<1>. QED
  BY <1>1, <1>10, <1>11, <1>12, <1>14, <1>15, <1>17, <1>18, <1>19 DEF Suyo, EnSitio

\* The new entry is of the page that was brought, in its frame, and there was no other of it.
LEMMA EntradaNueva ==
  ASSUME Base, NEW p \in Procesos, Suyo(p), Fija, hilo[p].pc \in {"actualizar", "reemplazar"},
         conf' = conf, tabla' = tabla, pag' = pag,
         NEW t \in Seq(TipoEntrada), ToSet(t) \subseteq ToSet(tlb), Unicas(t, p),
         tlb' = Append(t, Entrada(p))
  PROVE  TLBOK(p)'
<1>. DEFINE k == Buscada(p)
            x == Entrada(p)
<1>1. /\ x \in TipoEntrada /\ x.pid = p /\ x.pag = k[2] /\ x.frame = hilo[p].fr
      /\ hilo[p].op \in Accesos /\ k \in Claves /\ EnTabla(k) /\ k[1] = p /\ k = <<p, k[2]>>
  BY EntradaTipo, QuienBusca DEF Claves
<1>2. pag[k].presencia /\ pag[k].frame = hilo[p].fr
  BY <1>1 DEF Suyo, EnCurso, BuscadaOK, HalladasOK, Fiel
<1>3. TLBOK(p) /\ \A e \in ToSet(tlb) : e.pid = p => e.pag # k[2]
  BY DEF Suyo, EnSitio, EnCurso, EntradasOK, Fiel
<1>4. /\ Len(t) \in Nat /\ DOMAIN t = 1 .. Len(t) /\ DOMAIN Append(t, x) = 1 .. Len(t) + 1
      /\ Append(t, x)[Len(t) + 1] = x /\ \A i \in 1 .. Len(t) : Append(t, x)[i] = t[i]
      /\ ToSet(Append(t, x)) = ToSet(t) \union {x}
  BY <1>1, AppendProperties, LenProperties, MiembrosAppend
<1>5. ASSUME NEW e \in ToSet(t) \union {x}, e.pid = p
      PROVE  EnTabla(<<p, e.pag>>)' /\ EnMarco(<<p, e.pag>>, e.frame)'
  <2>1. EnTabla(<<p, e.pag>>) /\ EnMarco(<<p, e.pag>>, e.frame)
    <3>1. CASE e \in ToSet(t)
      BY <1>3, <1>5, <3>1 DEF TLBOK
    <3>2. CASE e = x
      BY <1>1, <1>2, <3>2 DEF EnMarco
    <3>. QED
      BY <1>5, <3>1, <3>2
  <2>. QED
    BY <2>1 DEF EnTabla, EnMarco
<1>6. Unicas(Append(t, x), p)
  <2>1. \A i \in 1 .. Len(t) : t[i].pid = p => t[i].pag # x.pag
    BY <1>1, <1>3, <1>4 DEF ToSet
  <2>2. ASSUME NEW i \in 1 .. Len(t) + 1, NEW j \in 1 .. Len(t) + 1,
               Append(t, x)[i].pid = p, Append(t, x)[j].pid = p,
               Append(t, x)[i].pag = Append(t, x)[j].pag
        PROVE  i = j
    <3>1. CASE i \in 1 .. Len(t) /\ j \in 1 .. Len(t)
      BY <1>4, <2>2, <3>1 DEF Unicas
    <3>2. CASE i = Len(t) + 1 /\ j \in 1 .. Len(t)
      BY <1>4, <2>1, <2>2, <3>2
    <3>3. CASE j = Len(t) + 1 /\ i \in 1 .. Len(t)
      BY <1>4, <2>1, <2>2, <3>3
    <3>. QED
      BY <1>4, <2>2, <3>1, <3>2, <3>3
  <2>. QED
    BY <1>4, <2>2 DEF Unicas
<1>. QED
  BY <1>4, <1>5, <1>6 DEF TLBOK

\* Without its first entry the TLB still has each page once.
LEMMA UnicasTail ==
  ASSUME NEW p, NEW S, NEW t \in Seq(S), t # <<>>, Unicas(t, p)
  PROVE  Tail(t) \in Seq(S) /\ ToSet(Tail(t)) \subseteq ToSet(t) /\ Unicas(Tail(t), p)
<1>1. /\ Tail(t) \in Seq(S) /\ Len(Tail(t)) = Len(t) - 1 /\ Len(t) \in Nat /\ Len(t) # 0
      /\ DOMAIN Tail(t) = 1 .. Len(t) - 1 /\ DOMAIN t = 1 .. Len(t)
      /\ \A j \in 1 .. Len(t) - 1 : Tail(t)[j] = t[j + 1]
  BY HeadTailProperties, LenProperties, EmptySeq
<1>2. SinEl(1, t, Tail(t)) /\ 1 \in 1 .. Len(t)
  BY <1>1 DEF SinEl
<1>. QED
  BY <1>1, <1>2, UnicasSinEl

\* What a step over the TLB leaves, when the page that is looked for is found.
LEMMA TLBSuya ==
  ASSUME NEW p \in Procesos, Base, Suyo(p), conf' = conf,
         hilo[p].pc \in {"actualizar", "reemplazar"}, Encontrada(p, hilo[p].fr),
         marco' = marco, tabla' = tabla, pag' = pag, ram' = ram, enSwap' = enSwap,
         Fija => TLBOK(p)'
  PROVE  Suyo(p)'
<1>. DEFINE k == Buscada(p)
<1>1. Marcos' = Marcos /\ (Fija' <=> Fija) /\ (Fiel' <=> Fiel) /\ MiasQuietas(p)
  BY ConfIgual, MiasQuietasSi
<1>2. /\ hilo[p].op \in Accesos /\ k \in Claves /\ hilo[p].fr \in Marcos
      /\ Halladas(p) \subseteq Claves
  BY QuienBusca, EntradaTipo, HalladasTipo
<1>3. /\ BuscadaOK(p) /\ pag[k].presencia
      /\ Fiel => HalladasOK(p) /\ hilo[p].fr = pag[k].frame
  BY <1>2 DEF Suyo, EnCurso, BuscadaOK, HalladasOK
<1>4. hilo[p].op \notin {"liberar", "cabecera"} => \A l \in Halladas(p) \union {k} : pag'[l].lock
  BY <1>2, <1>3 DEF BuscadaOK
<1>5. /\ Halladas(p)' = Halladas(p) \union {k}
      /\ hilo'[p].pc \in {"buscar", "copiar", "quitar"} /\ hilo'[p].op = hilo[p].op
      /\ EnCurso(p)'
  BY <1>1, <1>2, <1>3, <1>4, EncontradaSuya
<1>6. MarcosOK(p)' /\ AusentesOK(p)' /\ (RamOK(p) => RamOK(p)')
  BY <1>1 DEF Suyo, EnSitio, MarcosOK, AusentesOK, RamOK, MiasQuietas, De, EnMarco, Lleno
<1>7. TLBOK(p)'
  BY <1>1 DEF TLBOK
<1>8. CubiertosOK(p)'
  BY <1>1, CubiertosQuieto DEF Suyo, Ocupa
<1>9. TrabasOK(p)'
  <2>1. \A l \in Claves : Traba(p, l) => Traba(p, l)'
    BY <1>5 DEF Traba
  <2>. QED
    BY <1>1, <2>1, TrabasQuieto DEF Suyo
<1>10. CuotaOK(p)'
  BY <1>5, CuotaQuieta DEF Suyo, Tiene
<1>. QED
  BY <1>1, <1>5, <1>6, <1>7, <1>8, <1>9, <1>10 DEF Suyo, EnSitio

\* The entry is added, or the TLB was full and one will be replaced.
LEMMA ActualizarSuyo ==
  ASSUME NEW p \in Procesos, Sigue(p), ActualizarTLB(p)
  PROVE  Suyo(p)'
<1>1. Base /\ Suyo(p) /\ conf' = conf /\ Marcos' = Marcos /\ (Fija' <=> Fija) /\ (Fiel' <=> Fiel)
  BY ConfIgual DEF Sigue
<1>2. /\ hilo[p].pc = "actualizar" /\ marco' = marco /\ tabla' = tabla /\ pag' = pag
      /\ ram' = ram /\ enSwap' = enSwap
  BY <1>1, ActualizarHace DEF tablas, datos
<1>3. CASE /\ Queda(p, "reemplazar", hilo[p].op, hilo[p].pags, hilo[p].frs, hilo[p].faltan,
                    hilo[p].fr, hilo[p].vic)
           /\ tlb' = tlb
  <2>1. /\ hilo'[p].pc = "reemplazar" /\ hilo'[p].op = hilo[p].op
        /\ hilo'[p].pags = hilo[p].pags /\ hilo'[p].frs = hilo[p].frs /\ hilo'[p].fr = hilo[p].fr
    BY <1>3 DEF Queda
  <2>2. Halladas(p)' = Halladas(p) /\ Buscada(p)' = Buscada(p) /\ MiasQuietas(p)
    BY <1>1, <1>2, <2>1, MiasQuietasSi DEF Halladas, Buscada
  <2>3. EnSitio(p)' /\ CubiertosOK(p)'
    BY <1>1, <1>2, <1>3, <2>2, EnSitioQuieto, CubiertosQuieto DEF Suyo, Ocupa
  <2>4. TrabasOK(p)'
    <3>1. \A l \in Claves : Traba(p, l) => Traba(p, l)'
      BY <1>2, <2>1, <2>2 DEF Traba
    <3>. QED
      BY <1>1, <1>2, <2>2, <3>1, TrabasQuieto DEF Suyo
  <2>5. CuotaOK(p)'
    BY <1>1, <1>2, <2>1, CuotaQuieta DEF Suyo, Tiene
  <2>6. EnCurso(p)'
    <3>1. BuscadaOK(p)'
      BY <1>1, <1>2, <2>1, <2>2 DEF Suyo, EnCurso, BuscadaOK
    <3>2. HalladasOK(p) => HalladasOK(p)'
      BY <1>2, <2>1, <2>2 DEF HalladasOK
    <3>3. EntradasOK(p) => EntradasOK(p)'
      BY <1>1, <1>2, <1>3, <2>1, <2>2 DEF EntradasOK
    <3>. QED
      BY <1>1, <2>1, <3>1, <3>2, <3>3 DEF Suyo, EnCurso, ViajeOK, LlenoOK, VictimaOK, LimpiaOK
  <2>. QED
    BY <2>3, <2>4, <2>5, <2>6 DEF Suyo
<1>4. CASE /\ Encontrada(p, hilo[p].fr)
           /\ tlb' = IF conf.entradas = 0 THEN tlb ELSE Append(tlb, Entrada(p))
  <2>1. Fija => TLBOK(p)'
    <3>1. SUFFICES ASSUME Fija  PROVE TLBOK(p)'
      OBVIOUS
    <3>2. TLBOK(p)
      BY <1>1, <3>1 DEF Suyo, EnSitio, Fiel
    <3>3. CASE conf.entradas = 0
      BY <1>1, <1>2, <1>4, <3>2, <3>3 DEF TLBOK, EnTabla, EnMarco, Unicas
    <3>4. CASE conf.entradas # 0
      <4>1. tlb \in Seq(TipoEntrada) /\ Unicas(tlb, p)
        BY <1>1, <3>1, <3>2, Tipos DEF Base, TLBOK
      <4>. QED
        BY <1>1, <1>2, <1>4, <3>1, <3>4, <4>1, EntradaNueva
    <3>. QED
      BY <3>3, <3>4
  <2>. QED
    BY <1>1, <1>2, <1>4, <2>1, TLBSuya
<1>. QED
  BY <1>1, <1>3, <1>4, ActualizarHace

\* So after a replacement, whose victim may be an entry of any process.
LEMMA ReemplazarSuyo ==
  ASSUME NEW p \in Procesos, Sigue(p), ReemplazarTLB(p)
  PROVE  Suyo(p)'
<1>1. Base /\ Suyo(p) /\ conf' = conf /\ Marcos' = Marcos /\ (Fija' <=> Fija) /\ (Fiel' <=> Fiel)
  BY ConfIgual DEF Sigue
<1>2. /\ hilo[p].pc = "reemplazar" /\ marco' = marco /\ tabla' = tabla /\ pag' = pag
      /\ ram' = ram /\ enSwap' = enSwap
  BY <1>1, ReemplazarHace DEF tablas, datos
<1>3. CASE hilo' = hilo /\ tlb' = tlb
  BY <1>1, <1>2, <1>3, SuyoIgual
<1>4. CASE tlb # <<>> /\ tlb' = Append(Quedan, Entrada(p)) /\ Encontrada(p, hilo[p].fr)
  <2>1. Fija => TLBOK(p)'
    <3>1. SUFFICES ASSUME Fija  PROVE TLBOK(p)'
      OBVIOUS
    <3>2. tlb \in Seq(TipoEntrada) /\ Unicas(tlb, p)
      BY <1>1, <3>1, Tipos DEF Base, Suyo, EnSitio, Fiel, TLBOK
    <3>3. Quedan \in Seq(TipoEntrada) /\ ToSet(Quedan) \subseteq ToSet(tlb) /\ Unicas(Quedan, p)
      BY <1>4, <3>2, UnicasTail DEF Quedan
    <3>. QED
      BY <1>1, <1>2, <1>4, <3>1, <3>3, EntradaNueva
  <2>. QED
    BY <1>1, <1>2, <1>4, <2>1, TLBSuya
<1>. QED
  BY <1>1, <1>3, <1>4, ReemplazarHace

\* The pages that are written are in the frames that were found, which are of no other.
LEMMA CopiarSuyo ==
  ASSUME NEW p \in Procesos, Sigue(p), Copiar(p)
  PROVE  Suyo(p)'
<1>. DEFINE frs == hilo[p].frs
            pags == hilo[p].pags
            escribe == hilo[p].op \in {"escribir", "guardar"}
            H == Halladas(p)
<1>1. Base /\ Suyo(p) /\ conf' = conf /\ Marcos' = Marcos /\ (Fija' <=> Fija) /\ (Fiel' <=> Fiel)
  BY ConfIgual DEF Sigue
<1>2. hilo[p].pc = "copiar" /\ hilo'[p] = Libre
  BY <1>1, CopiarHace, Zenon
<1>3. \A l \in Claves :
         /\ pag'[l].frame = pag[l].frame /\ pag'[l].presencia = pag[l].presencia
         /\ pag'[l].modificado <=> pag[l].modificado \/ (escribe /\ l \in H)
         /\ pag'[l].lock <=> pag[l].lock /\ l \notin H
  BY <1>1, CopiarHace, Zenon
<1>4. /\ ~escribe => ram' = ram /\ enSwap' = enSwap
      /\ escribe =>
            /\ \A l \in Claves : enSwap'[l] <=> enSwap[l] /\ l \notin H
            /\ \A f \in Marcos :
                  \/ \E i \in DOMAIN frs : frs[i] = f /\ ram'[f] = <<p, pags[i]>>
                  \/ /\ \A i \in DOMAIN frs : frs[i] # f
                     /\ ram'[f] = IF ram[f] \in H THEN Nadie ELSE ram[f]
  BY <1>1, CopiarHace, Zenon
<1>5. marco' = marco /\ tabla' = tabla /\ tlb' = tlb
  BY <1>1, CopiarHace
<1>6. /\ hilo[p].op \in Accesos /\ H \subseteq Claves
      /\ \A i \in DOMAIN frs : <<p, pags[i]>> \in H /\ EnTabla(<<p, pags[i]>>)
      /\ tabla[p] # <<>>
  <2>1. /\ hilo[p].op \in Accesos /\ H \subseteq Claves /\ DOMAIN frs = DOMAIN pags
        /\ \A i \in DOMAIN pags : EnTabla(<<p, pags[i]>>)
        /\ Len(pags) \in 1 .. 2 /\ DOMAIN pags = 1 .. Len(pags)
    BY <1>1, <1>2, QuienTermina
  <2>2. \A i \in DOMAIN frs : <<p, pags[i]>> \in H
    BY DEF Halladas
  <2>3. tabla[p] # <<>>
    <3>1. Len(hilo[p].pags) \in 1 .. 2 /\ DOMAIN hilo[p].pags = 1 .. Len(hilo[p].pags)
      BY <1>1, <1>2, QuienTermina
    <3>2. \A n \in 1 .. 2 : 1 \in 1 .. n
      OBVIOUS
    <3>3. 1 \in DOMAIN hilo[p].pags
      BY <3>1, <3>2, Zenon
    <3>4. EnTabla(<<p, pags[1]>>)
      BY <2>1, <3>3, Zenon
    <3>. QED
      BY <3>4 DEF EnTabla, ToSet
  <2>. QED
    BY <2>1, <2>2, <2>3
<1>7. \A l \in H : Mia(p, l) /\ pag[l].presencia
  <2>1. \A l \in H : EnTabla(l) /\ l[1] = p
    BY <1>6 DEF Halladas
  <2>. QED
    BY <1>1, <1>6, <2>1 DEF Suyo, EnCurso, BuscadaOK, Mia
<1>8. MiasQuietas(p)
  BY <1>1, <1>3, <1>5, MiasQuietasSi
<1>9. MarcosOK(p)' /\ AusentesOK(p)'
  BY <1>1, <1>5, <1>8 DEF Suyo, EnSitio, MarcosOK, AusentesOK, MiasQuietas, De, EnMarco, Lleno
<1>10. TLBOK(p) => TLBOK(p)'
  <2>1. SUFFICES ASSUME Fija, TLBOK(p)  PROVE TLBOK(p)'
    BY <1>1 DEF TLBOK
  <2>2. \A e \in ToSet(tlb) : e.pid = p =>
           EnTabla(<<p, e.pag>>)' /\ EnMarco(<<p, e.pag>>, e.frame)'
    <3>1. \A e \in ToSet(tlb) : e.pid = p => <<p, e.pag>> \in Claves
      BY <1>1, EntradasTipo
    <3>. QED
      BY <1>3, <1>5, <2>1, <3>1 DEF TLBOK, EnTabla, EnMarco
  <2>. QED
    BY <1>5, <2>1, <2>2 DEF TLBOK, Unicas
<1>11. ASSUME Fiel  PROVE RamOK(p)'
  <2>1. RamOK(p) /\ HalladasOK(p)
    BY <1>1, <1>11 DEF Suyo, EnSitio, EnCurso
  <2>2. \A i \in DOMAIN frs : pag[<<p, pags[i]>>].frame = frs[i]
    BY <1>6, <2>1 DEF HalladasOK
  <2>3. ASSUME NEW l \in Claves, Mia(p, l)
        PROVE  /\ pag'[l].presencia => ram'[pag'[l].frame] = l
               /\ ~pag'[l].presencia \/ ~pag'[l].modificado => enSwap'[l]
    <3>1. /\ pag[l].presencia => ram[pag[l].frame] = l
          /\ ~pag[l].presencia \/ ~pag[l].modificado => enSwap[l]
      BY <2>1, <2>3 DEF RamOK
    <3>2. CASE ~escribe
      BY <1>3, <1>4, <2>3, <3>1, <3>2
    <3>3. CASE escribe
      <4>1. l \in H => pag'[l].presencia /\ pag'[l].modificado
        BY <1>3, <1>7, <2>3, <3>3
      <4>2. l \notin H => (enSwap'[l] <=> enSwap[l]) /\ (pag'[l].modificado <=> pag[l].modificado)
        BY <1>3, <1>4, <2>3, <3>3
      <4>3. ASSUME pag[l].presencia  PROVE ram'[pag[l].frame] = l
        <5>1. pag[l].frame \in Marcos
          BY <1>1, <2>3, <4>3 DEF Base, TablasOK
        <5>2. ASSUME NEW m \in H, pag[m].frame = pag[l].frame  PROVE m = l
          BY <1>1, <1>6, <1>7, <2>3, <4>3, <5>2 DEF Suyo, EnSitio, MarcosOK, EnMarco
        <5>3. \/ \E i \in DOMAIN frs : frs[i] = pag[l].frame /\ ram'[pag[l].frame] = <<p, pags[i]>>
              \/ /\ \A i \in DOMAIN frs : frs[i] # pag[l].frame
                 /\ ram'[pag[l].frame] = IF ram[pag[l].frame] \in H THEN Nadie ELSE ram[pag[l].frame]
          BY <1>4, <3>3, <5>1
        <5>4. ASSUME NEW i \in DOMAIN frs, frs[i] = pag[l].frame,
                     ram'[pag[l].frame] = <<p, pags[i]>>
              PROVE  ram'[pag[l].frame] = l
          BY <1>6, <2>2, <5>2, <5>4
        <5>5. ASSUME \A i \in DOMAIN frs : frs[i] # pag[l].frame  PROVE l \notin H
          <6>1. ASSUME l \in H  PROVE FALSE
            <7>1. PICK i \in DOMAIN frs : l = <<p, pags[i]>>
              BY <6>1 DEF Halladas
            <7>. QED
              BY <2>2, <5>5, <7>1
          <6>. QED
            BY <6>1
        <5>. QED
          BY <3>1, <4>3, <5>3, <5>4, <5>5
      <4>. QED
        BY <1>3, <2>3, <3>1, <4>1, <4>2, <4>3
    <3>. QED
      BY <3>2, <3>3
  <2>. QED
    BY <1>8, <2>3 DEF RamOK, MiasQuietas
<1>12. CubiertosOK(p)'
  BY <1>1, <1>2, <1>5, <1>8, CubiertosQuieto DEF Suyo, Ocupa
<1>13. TrabasOK(p)'
  <2>1. ASSUME NEW l \in Claves, Mia(p, l), pag'[l].lock  PROVE FALSE
    BY <1>1, <1>2, <1>3, <2>1 DEF Suyo, TrabasOK, Traba
  <2>. QED
    BY <1>8, <2>1 DEF TrabasOK, MiasQuietas
<1>14. CuotaOK(p)'
  BY <1>1, <1>5, <1>6, CuotaQuieta DEF Suyo, Tiene
<1>15. EnCurso(p)'
  <2>1. hilo'[p].op = "nada" /\ hilo'[p].pc = "libre"
    BY <1>2 DEF Libre
  <2>. QED
    BY <2>1, EnReposo DEF Accesos
<1>. QED
  BY <1>1, <1>9, <1>10, <1>11, <1>12, <1>13, <1>14, <1>15 DEF Suyo, EnSitio

\* A page that is given back lets go of its own frame; with fixed assignment its process is no
\* longer considered.
LEMMA QuitarSuyo ==
  ASSUME NEW p \in Procesos, Sigue(p), QuitarPagina(p)
  PROVE  Suyo(p)'
<1>. DEFINE k == <<p, hilo[p].pags[1]>>
            f == hilo[p].frs[1]
<1>1. Base /\ Suyo(p) /\ conf' = conf /\ Marcos' = Marcos /\ (Fija' <=> Fija) /\ (Fiel' <=> Fiel)
  BY ConfIgual DEF Sigue
<1>2. /\ hilo[p].pc = "quitar" /\ hilo[p].op = "liberar"
      /\ k \in Claves /\ f \in Marcos /\ EnTabla(k) /\ Halladas(p) = {k} /\ hilo'[p] = Libre
      /\ marco' = [marco EXCEPT ![f].ocupado = FALSE]
      /\ enSwap' = [enSwap EXCEPT ![k] = FALSE] /\ achicados' = achicados \union {p}
  BY <1>1, QuitarHace, Zenon
<1>3. \A l \in Claves : EnTabla(l)' <=> EnTabla(l) /\ l # k
  BY <1>1, QuitarHace, Zenon
<1>4. /\ \A l \in Claves : l # k => pag'[l] = pag[l]
      /\ ram' = ram /\ tlb' = tlb
  BY <1>1, QuitarHace, Zenon
<1>5. ~Fija /\ conf.entradas = 0 /\ Fiel
  BY <1>1, <1>2 DEF Sigue, Vale, Fiel
<1>6. pag[k].frame = f /\ pag[k].presencia
  <2>1. 1 \in DOMAIN hilo[p].frs
    BY <1>1, <1>2, QuienTermina
  <2>. QED
    BY <1>1, <1>2, <1>5, <2>1 DEF Suyo, EnCurso, HalladasOK, BuscadaOK, Accesos
<1>7. /\ marco'[f].ocupado = FALSE
      /\ \A g \in Marcos : g # f => marco'[g] = marco[g]
  BY <1>1, <1>2, MarcarTipo DEF Base
<1>8. (\A l \in Claves : Mia(p, l) <=> EnTabla(l)) /\ (\A l \in Claves : Mia(p, l)' <=> EnTabla(l)')
      /\ (\A g : De(p, g) /\ De(p, g)')
  BY <1>1, <1>5 DEF Mia, De
<1>9. \A l \in Claves : EnTabla(l) /\ l # k => ~(pag[l].presencia /\ pag[l].frame = f)
  BY <1>1, <1>2, <1>6, <1>8 DEF Suyo, EnSitio, MarcosOK, EnMarco
<1>10. MarcosOK(p)'
  <2>1. ASSUME NEW l \in Claves, EnTabla(l), l # k, pag[l].presencia
        PROVE  /\ marco'[pag[l].frame].ocupado
               /\ \A m \in Claves : EnTabla(m) /\ m # l =>
                     ~(pag[m].presencia /\ pag[m].frame = pag[l].frame)
    <3>1. pag[l].frame \in Marcos /\ pag[l].frame # f
      BY <1>1, <1>9, <2>1 DEF Base, TablasOK
    <3>2. /\ marco[pag[l].frame].ocupado
          /\ \A m \in Claves : EnTabla(m) /\ m # l =>
                ~(pag[m].presencia /\ pag[m].frame = pag[l].frame)
      BY <1>1, <1>8, <2>1 DEF Suyo, EnSitio, MarcosOK, EnMarco
    <3>. QED
      BY <1>7, <3>1, <3>2
  <2>. QED
    BY <1>3, <1>4, <1>8, <2>1 DEF MarcosOK, EnMarco
<1>11. AusentesOK(p)' /\ TLBOK(p)' /\ CuotaOK(p)'
  BY <1>1, <1>5 DEF AusentesOK, TLBOK, CuotaOK
<1>12. RamOK(p)'
  <2>1. RamOK(p) /\ enSwap \in [Claves -> BOOLEAN]
    BY <1>1, <1>5, Tipos DEF Suyo, EnSitio, Base
  <2>2. \A l \in Claves : l # k => enSwap'[l] = enSwap[l]
    BY <1>2, <2>1
  <2>. QED
    BY <1>3, <1>4, <1>8, <2>1, <2>2 DEF RamOK
<1>13. CubiertosOK(p)'
  <2>1. ASSUME NEW g \in Marcos, marco'[g].ocupado
        PROVE  \E l \in Claves : Mia(p, l)' /\ EnMarco(l, g)'
    <3>1. g # f /\ marco[g].ocupado
      BY <1>7, <2>1
    <3>2. PICK l \in Claves : Mia(p, l) /\ EnMarco(l, g)
      BY <1>1, <1>2, <1>8, <3>1 DEF Suyo, CubiertosOK, Ocupa
    <3>3. l # k
      BY <1>6, <3>1, <3>2 DEF EnMarco
    <3>. QED
      BY <1>3, <1>4, <1>8, <3>2, <3>3 DEF EnMarco
  <2>. QED
    BY <1>1, <2>1 DEF CubiertosOK
<1>14. TrabasOK(p)'
  BY <1>1, <1>2, <1>3, <1>4, <1>8 DEF Suyo, TrabasOK, Traba
<1>15. EnCurso(p)'
  <2>1. hilo'[p].op = "nada" /\ hilo'[p].pc = "libre"
    BY <1>2 DEF Libre
  <2>. QED
    BY <2>1, EnReposo DEF Accesos
<1>. QED
  BY <1>10, <1>11, <1>12, <1>13, <1>14, <1>15 DEF Suyo, EnSitio

\* A step of p keeps what is p's.
LEMMA SuyoSigue ==
  ASSUME NEW p \in Procesos, Sigue(p), PasoDe(p)
  PROVE  Suyo(p)'
BY PedirSuyo, UsaPaginasSuyo, SuspenderSuyo, DessuspenderSuyo, ReservarSuyo, SolicitarSuyo,
   BuscarMarcoSuyo, TomarSuyo, CrearSuyo, OlvidarSuyo, ElegirSuyo, SinVictimaSuyo, ExpulsarSuyo,
   SoltarSuyo, BuscarPaginaSuyo, TraerSuyo, ActualizarSuyo, ReemplazarSuyo, CopiarSuyo,
   QuitarSuyo, SuspensionSuyo DEF PasoDe

-----------------------------------------------------------------------------
\* With fixed assignment, a step of p over what is of another process.

\* What q's is left as it is.
Intacto(q) ==
    /\ conf' = conf /\ hilo'[q] = hilo[q] /\ tabla'[q] = tabla[q]
    /\ \A k \in Claves : k[1] = q =>
          /\ pag'[k].frame = pag[k].frame /\ pag'[k].presencia = pag[k].presencia
          /\ pag'[k].modificado = pag[k].modificado /\ (pag'[k].lock <=> pag[k].lock)
          /\ enSwap'[k] = enSwap[k]
    /\ \A f \in Marcos : marco[f].pid = q => (marco'[f].ocupado <=> marco[f].ocupado)
    /\ \A f \in Marcos : marco'[f].pid = q <=> marco[f].pid = q
    /\ \A f \in Marcos : marco[f].pid = q /\ ram[f] \in Claves /\ ram[f][1] = q =>
          ram'[f] = ram[f]
    /\ \A e \in ToSet(tlb') : e.pid = q => e \in ToSet(tlb)
    /\ Unicas(tlb, q) => Unicas(tlb', q)

\* The pages that a thread has found, looks for or replaces.
LEMMA PaginasDelHilo ==
  ASSUME Base, NEW p \in Procesos
  PROVE  /\ hilo[p].op \in Accesos =>
               /\ \A k \in Halladas(p) : k \in Claves /\ k[1] = p
               /\ Buscada(p)[1] = p
               /\ hilo[p].pc \notin {"copiar", "quitar"} => Buscada(p) \in Claves
               /\ hilo[p].pc = "quitar" => hilo[p].op = "liberar"
         /\ hilo[p].pc \in {"expulsar", "soltar"} => hilo[p].vic \in Claves
<1>1. ASSUME hilo[p].op \in Accesos  PROVE Halladas(p) \subseteq Claves
  BY <1>1, HalladasTipo, QuienTermina
<1>2. ASSUME hilo[p].op \in Accesos, hilo[p].pc \notin {"copiar", "quitar"}
      PROVE  Buscada(p) \in Claves
  BY <1>2, HalladasTipo
<1>3. (\A k \in Halladas(p) : k[1] = p) /\ Buscada(p)[1] = p
  BY DEF Halladas, Buscada
<1>4. /\ hilo[p].op \in Accesos /\ hilo[p].pc = "quitar" => hilo[p].op = "liberar"
      /\ hilo[p].pc \in {"expulsar", "soltar"} => hilo[p].vic \in Claves
  BY DEF Base, HilosOK, AccesoOK, TenenciaOK
<1>. QED
  BY <1>1, <1>2, <1>3, <1>4

\* Then all that holds of it still does.
LEMMA IntactoSuyo ==
  ASSUME Base, Fija, NEW q \in Procesos, Suyo(q), Intacto(q)
  PROVE  Suyo(q)'
<1>1. Marcos' = Marcos /\ Fija' /\ Fiel /\ Fiel' /\ conf' = conf
  BY ConfIgual DEF Intacto, Fiel
<1>2. /\ \A k : Mia(q, k)' <=> Mia(q, k)
      /\ \A k : Mia(q, k) => k[1] = q
      /\ \A f \in Marcos : De(q, f)' <=> De(q, f)
      /\ \A f \in Marcos : De(q, f) <=> marco[f].pid = q
  BY <1>1 DEF Mia, EnTabla, De, Intacto
<1>3. \A k \in Claves : k[1] = q =>
          /\ pag'[k].frame = pag[k].frame /\ pag'[k].presencia = pag[k].presencia
          /\ pag'[k].modificado = pag[k].modificado /\ (pag'[k].lock <=> pag[k].lock)
          /\ enSwap'[k] = enSwap[k]
  BY DEF Intacto
<1>4. \A k \in Claves : Mia(q, k) => pag[k].frame \in Marcos
  BY DEF Base, TablasOK, Mia
<1>5. \A f \in Marcos : De(q, f) => (marco'[f].ocupado <=> marco[f].ocupado)
  BY <1>2 DEF Intacto
<1>6. Lleno(q)' <=> Lleno(q)
  BY <1>1, <1>2, <1>5 DEF Lleno
<1>7. hilo'[q] = hilo[q] /\ Halladas(q)' = Halladas(q) /\ Buscada(q)' = Buscada(q)
  BY DEF Intacto, Halladas, Buscada
<1>8. MarcosOK(q)'
  <2>1. ASSUME NEW k \in Claves, Mia(q, k), pag'[k].presencia
        PROVE  /\ marco'[pag'[k].frame].pid = q /\ marco'[pag'[k].frame].ocupado
               /\ \A l \in Claves : Mia(q, l) /\ l # k =>
                     ~(pag'[l].presencia /\ pag'[l].frame = pag'[k].frame)
    <3>1. /\ De(q, pag[k].frame) /\ marco[pag[k].frame].ocupado
          /\ \A l \in Claves : Mia(q, l) /\ l # k =>
                ~(pag[l].presencia /\ pag[l].frame = pag[k].frame)
      BY <1>2, <1>3, <2>1 DEF Suyo, EnSitio, MarcosOK, EnMarco
    <3>2. pag'[k].frame = pag[k].frame /\ pag[k].frame \in Marcos
      BY <1>2, <1>3, <1>4, <2>1
    <3>3. marco'[pag[k].frame].pid = q
      BY <1>2, <3>1, <3>2 DEF Intacto
    <3>. QED
      BY <1>2, <1>3, <1>5, <3>1, <3>2, <3>3
  <2>. QED
    BY <1>2, <2>1 DEF MarcosOK, EnMarco, De
<1>9. AusentesOK(q)'
  BY <1>2, <1>3, <1>6 DEF Suyo, EnSitio, AusentesOK
<1>10. RamOK(q)'
  <2>1. ASSUME NEW k \in Claves, Mia(q, k)
        PROVE  /\ pag'[k].presencia => ram'[pag'[k].frame] = k
               /\ ~pag'[k].presencia \/ ~pag'[k].modificado => enSwap'[k]
    <3>1. /\ pag[k].presencia => ram[pag[k].frame] = k /\ De(q, pag[k].frame)
          /\ ~pag[k].presencia \/ ~pag[k].modificado => enSwap[k]
      BY <1>1, <2>1 DEF Suyo, EnSitio, RamOK, MarcosOK
    <3>2. pag[k].presencia => ram'[pag[k].frame] = k
      BY <1>2, <1>4, <2>1, <3>1 DEF Intacto
    <3>. QED
      BY <1>2, <1>3, <2>1, <3>1, <3>2
  <2>. QED
    BY <1>2, <2>1 DEF RamOK
<1>11. TLBOK(q)'
  <2>1. ASSUME NEW e \in ToSet(tlb'), e.pid = q
        PROVE  EnTabla(<<q, e.pag>>)' /\ EnMarco(<<q, e.pag>>, e.frame)'
    <3>1. e \in ToSet(tlb)
      BY <2>1 DEF Intacto
    <3>2. <<q, e.pag>> \in Claves /\ <<q, e.pag>>[1] = q
      BY <2>1, <3>1, EntradasTipo
    <3>3. EnTabla(<<q, e.pag>>) /\ EnMarco(<<q, e.pag>>, e.frame)
      BY <1>1, <2>1, <3>1 DEF Suyo, EnSitio, TLBOK
    <3>. QED
      BY <1>3, <3>2, <3>3 DEF EnTabla, EnMarco, Intacto
  <2>2. Unicas(tlb', q)
    BY <1>1 DEF Suyo, EnSitio, TLBOK, Intacto
  <2>. QED
    BY <2>1, <2>2 DEF TLBOK
<1>12. CubiertosOK(q)'
  <2>1. ASSUME NEW f \in Marcos, De(q, f), marco[f].ocupado
        PROVE  Ocupa(q, f)' \/ \E k \in Claves : Mia(q, k)' /\ EnMarco(k, f)'
    <3>1. CASE Ocupa(q, f)
      BY <1>7, <3>1 DEF Ocupa
    <3>2. CASE ~Ocupa(q, f)
      <4>1. PICK k \in Claves : Mia(q, k) /\ EnMarco(k, f)
        BY <2>1, <3>2 DEF Suyo, CubiertosOK
      <4>. QED
        BY <1>2, <1>3, <4>1 DEF EnMarco
    <3>. QED
      BY <3>1, <3>2
  <2>. QED
    BY <1>1, <1>2, <1>5, <2>1 DEF CubiertosOK
<1>13. TrabasOK(q)'
  BY <1>2, <1>3, <1>7 DEF Suyo, TrabasOK, Traba
<1>14. CuotaOK(q)'
  <2>1. Propios(q)' = Propios(q)
    BY <1>1 DEF Propios, Intacto
  <2>2. Tiene(q)' <=> Tiene(q)
    BY DEF Tiene, Intacto
  <2>. QED
    BY <1>1, <2>1, <2>2 DEF Suyo, CuotaOK
<1>15. EnCurso(q)'
  <2>1. /\ ViajeOK(q) /\ LlenoOK(q) /\ BuscadaOK(q) /\ VictimaOK(q)
        /\ HalladasOK(q) /\ LimpiaOK(q) /\ EntradasOK(q)
    BY <1>1 DEF Suyo, EnCurso
  <2>2. ViajeOK(q)'
    <3>1. ASSUME hilo[q].pc \in {"crear", "traer"}
          PROVE  /\ De(q, hilo[q].fr)' /\ marco'[hilo[q].fr].ocupado
                 /\ \A l \in Claves : Mia(q, l) => ~(pag'[l].presencia /\ pag'[l].frame = hilo[q].fr)
      <4>1. hilo[q].fr \in Marcos
        BY <3>1 DEF Base, HilosOK, TenenciaOK, PcConMarco
      <4>2. /\ De(q, hilo[q].fr) /\ marco[hilo[q].fr].ocupado
            /\ \A l \in Claves : Mia(q, l) => ~(pag[l].presencia /\ pag[l].frame = hilo[q].fr)
        BY <2>1, <3>1 DEF ViajeOK, EnMarco
      <4>3. marco'[hilo[q].fr].pid = q
        BY <1>2, <4>1, <4>2 DEF Intacto
      <4>. QED
        BY <1>2, <1>3, <1>5, <1>7, <4>1, <4>2, <4>3 DEF De
    <3>. QED
      BY <1>2, <1>7, <3>1 DEF ViajeOK, EnMarco
  <2>3. LlenoOK(q)'
    BY <1>6, <1>7, <2>1 DEF LlenoOK
  <2>4. BuscadaOK(q)'
    BY <1>3, <1>7, <2>1, PaginasDelHilo DEF BuscadaOK
  <2>5. VictimaOK(q)'
    BY <1>2, <1>3, <1>7, <2>1, PaginasDelHilo DEF VictimaOK
  <2>6. HalladasOK(q)'
    <3>1. ASSUME hilo[q].op \in Accesos, NEW i \in DOMAIN hilo[q].frs
          PROVE  pag'[<<q, hilo[q].pags[i]>>].frame = hilo[q].frs[i]
      <4>1. <<q, hilo[q].pags[i]>> \in Halladas(q)
        BY <3>1 DEF Halladas
      <4>2. <<q, hilo[q].pags[i]>> \in Claves /\ <<q, hilo[q].pags[i]>>[1] = q
        BY <3>1, <4>1, PaginasDelHilo
      <4>. QED
        BY <1>3, <2>1, <3>1, <4>2 DEF HalladasOK
    <3>2. ASSUME hilo[q].op \in Accesos, hilo[q].pc \in {"actualizar", "reemplazar"}
          PROVE  pag'[Buscada(q)].frame = hilo[q].fr
      BY <1>3, <2>1, <3>2, PaginasDelHilo DEF HalladasOK
    <3>. QED
      BY <1>7, <3>1, <3>2 DEF HalladasOK
  <2>7. LimpiaOK(q)'
    <3>1. hilo[q].pc = "soltar" => hilo[q].vic \in Claves /\ hilo[q].vic[1] = q
      BY <1>2, <2>1, PaginasDelHilo DEF VictimaOK
    <3>. QED
      BY <1>3, <1>7, <2>1, <3>1 DEF LimpiaOK
  <2>8. EntradasOK(q)'
    BY <1>1, <1>7, <2>1 DEF EntradasOK, Intacto
  <2>. QED
    BY <2>2, <2>3, <2>4, <2>5, <2>6, <2>7, <2>8 DEF EnCurso
<1>. QED
  BY <1>8, <1>9, <1>10, <1>11, <1>12, <1>13, <1>14, <1>15 DEF Suyo, EnSitio

\* The frames of a process that is not robbed are not of another's pages.
LEMMA NoRefiereAjeno ==
  ASSUME PropiedadOK, Fija, NEW p \in Procesos, NEW q \in Procesos \ robados, p # q,
         NEW f \in Marcos, marco[f].pid = q
  PROVE  f \notin manchados /\ ~Refiere(p, f)
<1>1. f \notin manchados
  BY DEF PropiedadOK
<1>2. Refiere(p, f) => marco[f].pid = p
  BY <1>1 DEF PropiedadOK
<1>. QED
  BY <1>1, <1>2

\* The actions that write the page tables, the frames or swamp.
LEMMA QuienEscribePaginas ==
  ASSUME NEW p \in Procesos, PasoDe(p)
  PROVE  \/ pag' = pag /\ ram' = ram /\ enSwap' = enSwap
         \/ CrearPagina(p) \/ ElegirVictima(p) \/ Expulsar(p) \/ SoltarVictima(p)
         \/ BuscarPagina(p) \/ TraerPagina(p) \/ Copiar(p) \/ QuitarPagina(p)
         \/ TirarSuspendida(p)
<1>. USE DEF Resto, tablas, datos, historia
<1>1. ASSUME NEW n, MemallocNuevo(p, n) \/ MemallocCrecer(p, n)
      PROVE  pag' = pag /\ ram' = ram /\ enSwap' = enSwap
  BY <1>1 DEF MemallocNuevo, MemallocCrecer
<1>2. ASSUME UsaPaginas(p)
      PROVE  pag' = pag /\ ram' = ram /\ enSwap' = enSwap
  BY <1>2 DEF UsaPaginas, Leer, EscribirPagina, GuardarHeader, DesserializarHeader,
     LiberarPagina, Acceder
<1>3. ASSUME \/ Suspender(p) \/ Dessuspender(p) \/ ReservarMarcos(p) \/ NegarMarcos(p)
             \/ SolicitarFrame(p) \/ BuscarMarco(p) \/ TomarMarcos(p) \/ OlvidarMarco(p)
      PROVE  pag' = pag /\ ram' = ram /\ enSwap' = enSwap
  BY <1>3 DEF Suspender, Dessuspender, ReservarMarcos, NegarMarcos, SolicitarFrame, BuscarMarco,
     TomarMarcos, OlvidarMarco
<1>4. ASSUME \/ SinVictima(p) \/ ActualizarTLB(p) \/ ReemplazarTLB(p)
             \/ SoltarMarco(p) \/ SoltarElResto(p)
      PROVE  pag' = pag /\ ram' = ram /\ enSwap' = enSwap
  BY <1>4 DEF SinVictima, ActualizarTLB, ReemplazarTLB, SoltarMarco, SoltarElResto
<1>. QED
  BY <1>1, <1>2, <1>3, <1>4 DEF PasoDe

\* The pages of others are left as they are.
LEMMA PaginasAjenas ==
  ASSUME Base, Fija, NEW p \in Procesos, NEW q \in Procesos, p # q, PasoDe(p),
         NEW k \in Claves, k[1] = q
  PROVE  /\ pag'[k].frame = pag[k].frame /\ pag'[k].presencia = pag[k].presencia
         /\ pag'[k].modificado = pag[k].modificado /\ (pag'[k].lock <=> pag[k].lock)
         /\ enSwap'[k] = enSwap[k]
<1>. USE DEF Resto, tablas, datos
<1>1. CASE pag' = pag /\ ram' = ram /\ enSwap' = enSwap
  BY <1>1
<1>2. CASE CrearPagina(p)
  <2>1. /\ \A l \in Claves : l # Nueva(p) => pag'[l] = pag[l]
        /\ \A l \in Claves : enSwap'[l] <=> enSwap[l] /\ l # Nueva(p)
        /\ enSwap' \in [Claves -> BOOLEAN] /\ enSwap \in [Claves -> BOOLEAN]
    BY <1>2, CrearHace, Tipos, Zenon DEF Base
  <2>2. k # Nueva(p)
    BY DEF Nueva
  <2>. QED
    BY <2>1, <2>2
<1>3. CASE ElegirVictima(p)
  BY <1>3, ElegirHace
<1>4. CASE Expulsar(p) \/ SoltarVictima(p)
  <2>1. hilo[p].vic[1] = p
    BY <1>4, ExpulsarHace, SoltarVictimaHace, Zenon
  <2>2. \A l \in Claves : l # hilo[p].vic => pag'[l] = pag[l] /\ enSwap'[l] = enSwap[l]
    <3>1. \A l \in Claves : l # hilo[p].vic => pag'[l] = pag[l]
      BY <1>4, ExpulsarHace, SoltarVictimaHace, Zenon
    <3>2. ASSUME Expulsar(p)  PROVE \A l \in Claves : l # hilo[p].vic => enSwap'[l] = enSwap[l]
      BY <3>2, ExpulsarHace, Zenon
    <3>3. SoltarVictima(p) => enSwap' = enSwap
      BY DEF SoltarVictima
    <3>. QED
      BY <1>4, <3>1, <3>2, <3>3
  <2>. QED
    BY <2>1, <2>2
<1>5. CASE BuscarPagina(p)
  <2>1. hilo[p].op \in Accesos
    BY <1>5, QuienBusca DEF BuscarPagina, En
  <2>2. k \notin Bloqueadas(p)
    BY <2>1, QuienBloquea DEF Halladas, Buscada
  <2>3. /\ pag'[k].frame = pag[k].frame /\ pag'[k].presencia = pag[k].presencia
        /\ pag'[k].modificado = pag[k].modificado
        /\ pag'[k].lock <=> pag[k].lock \/ k \in Bloqueadas(p)
        /\ enSwap' = enSwap
    BY <1>5, BuscarPaginaHace, Zenon
  <2>. QED
    BY <2>2, <2>3
<1>6. CASE TraerPagina(p)
  <2>1. \A l \in Claves : l # Buscada(p) => pag'[l] = pag[l]
    BY <1>6, TraerHace, Zenon
  <2>2. k # Buscada(p)
    BY DEF Buscada
  <2>3. enSwap' = enSwap
    BY <1>6 DEF TraerPagina
  <2>. QED
    BY <2>1, <2>2, <2>3
<1>7. CASE Copiar(p)
  <2>1. k \notin Halladas(p)
    BY DEF Halladas
  <2>2. /\ pag'[k].frame = pag[k].frame /\ pag'[k].presencia = pag[k].presencia
        /\ pag'[k].modificado <=>
              pag[k].modificado \/ (hilo[p].op \in {"escribir", "guardar"} /\ k \in Halladas(p))
        /\ pag'[k].lock <=> pag[k].lock /\ k \notin Halladas(p)
        /\ enSwap' = enSwap \/ (enSwap'[k] <=> enSwap[k] /\ k \notin Halladas(p))
        /\ enSwap' \in [Claves -> BOOLEAN] /\ pag' \in [Claves -> TipoPagina]
    BY <1>7, CopiarHace, Zenon
  <2>3. /\ enSwap'[k] \in BOOLEAN /\ enSwap[k] \in BOOLEAN
        /\ pag'[k].modificado \in BOOLEAN /\ pag[k].modificado \in BOOLEAN
    BY <2>2, Tipos DEF Base, TipoPagina
  <2>. QED
    BY <2>1, <2>2, <2>3
<1>8. CASE QuitarPagina(p)
  <2>1. /\ \A l \in Claves : l # <<p, hilo[p].pags[1]>> => pag'[l] = pag[l]
        /\ enSwap' = [enSwap EXCEPT ![<<p, hilo[p].pags[1]>>] = FALSE]
    BY <1>8, QuitarHace, Zenon
  <2>2. k # <<p, hilo[p].pags[1]>>
    OBVIOUS
  <2>. QED
    BY <2>1, <2>2, Tipos DEF Base
<1>9. CASE TirarSuspendida(p)
  <2>1. (\A l \in Claves : l # Suspendida(p) => enSwap'[l] = enSwap[l]) /\ pag' = pag
    BY <1>9, TirarHace, Zenon
  <2>2. k # Suspendida(p)
    BY DEF Suspendida
  <2>. QED
    BY <2>1, <2>2
<1>. QED
  BY <1>1, <1>2, <1>3, <1>4, <1>5, <1>6, <1>7, <1>8, <1>9, QuienEscribePaginas

\* The frames of others are left to them, as they are.
LEMMA MarcosAjenos ==
  ASSUME Base, PropiedadOK, Fija, NEW p \in Procesos, NEW q \in Procesos, p # q, PasoDe(p),
         q \notin robados', NEW f \in Marcos
  PROVE  /\ marco'[f].pid = q <=> marco[f].pid = q
         /\ marco[f].pid = q => (marco'[f].ocupado <=> marco[f].ocupado)
<1>1. q \notin robados /\ q # Nadie
  BY Recuerdos, NadieAssumption
<1>2. ASSUME marco[f].pid = q  PROVE marco'[f].pid = q
  <2>1. f \notin manchados /\ ~Refiere(p, f)
    BY <1>1, <1>2, NoRefiereAjeno
  <2>. QED
    BY <1>1, <1>2, <2>1, Traspasos
<1>3. ASSUME marco'[f].pid = q  PROVE marco[f].pid = q
  BY <1>1, <1>3, Traspasos
<1>4. ASSUME marco[f].pid = q  PROVE marco'[f].ocupado <=> marco[f].ocupado
  <2>. USE <1>4
  <2>1. ~Refiere(p, f) /\ TypeOK
    BY <1>1, NoRefiereAjeno DEF Base
  <2>2. CASE marco' = marco
    BY <2>2
  <2>3. CASE SolicitarFrame(p)
    <3>1. marco' = marco \/ \E g \in MarcosLibres(p) : marco' = [marco EXCEPT ![g].ocupado = TRUE]
      BY <2>3, SolicitarHace
    <3>2. CASE \E g \in MarcosLibres(p) : marco' = [marco EXCEPT ![g].ocupado = TRUE]
      <4>1. PICK g \in MarcosLibres(p) : marco' = [marco EXCEPT ![g].ocupado = TRUE]
        BY <3>2
      <4>2. g \in Marcos /\ g # f
        BY DEF MarcosLibres
      <4>. QED
        BY <2>1, <4>1, <4>2, MarcarTipo
    <3>. QED
      BY <3>1, <3>2
  <2>4. CASE BuscarMarco(p)
    <3>1. marco' = marco \/ \E g \in MarcosLibres(p) : marco' = [marco EXCEPT ![g].ocupado = ~Fija]
      BY <2>4, BuscarMarcoHace
    <3>2. CASE \E g \in MarcosLibres(p) : marco' = [marco EXCEPT ![g].ocupado = ~Fija]
      <4>1. PICK g \in MarcosLibres(p) : marco' = [marco EXCEPT ![g].ocupado = ~Fija]
        BY <3>2
      <4>3. (~Fija) \in BOOLEAN
        OBVIOUS
      <4>2. g \in Marcos /\ g # f
        BY DEF MarcosLibres
      <4>. QED
        BY <2>1, <4>1, <4>2, <4>3, MarcarTipo
    <3>. QED
      BY <3>1, <3>2
  <2>5. CASE QuitarPagina(p)
    <3>1. /\ marco' = [marco EXCEPT ![hilo[p].frs[1]].ocupado = FALSE]
          /\ hilo[p].frs[1] \in Marcos /\ hilo[p].pc = "quitar"
      BY <2>5, QuitarHace, Zenon
    <3>2. hilo[p].frs[1] \in ToSet(hilo[p].frs)
      <4>1. /\ Len(hilo[p].pags) = 1 /\ DOMAIN hilo[p].pags = 1 .. Len(hilo[p].pags)
            /\ DOMAIN hilo[p].frs = DOMAIN hilo[p].pags
        BY <3>1, QuienTermina
      <4>. QED
        BY <4>1 DEF ToSet
    <3>3. hilo[p].frs[1] # f
      BY <2>1, <3>1, <3>2 DEF Refiere
    <3>. QED
      BY <2>1, <3>1, <3>3, MarcarTipo
  <2>6. CASE TomarMarcos(p)
    BY <2>6, TomarHace
  <2>7. CASE SoltarMarco(p)
    <3>1. \/ marco' = marco
          \/ /\ pag[Suspendida(p)].frame \in Marcos
             /\ marco' = [marco EXCEPT ![pag[Suspendida(p)].frame] = [ocupado |-> FALSE, pid |-> Nadie]]
      BY <2>7, SoltarMarcoHace, Zenon
    <3>2. Suspendida(p) \in Claves /\ Suspendida(p)[1] = p
      BY <2>7, SoltarMarcoHace, SuspendidaTipo, Zenon
    <3>3. pag[Suspendida(p)].frame # f
      BY <2>1, <3>2 DEF Refiere, Claves
    <3>. QED
      BY <3>1, <3>3, Tipos, <2>1
  <2>8. CASE SoltarElResto(p)
    BY <2>8, SoltarRestoHace
  <2>. QED
    BY <2>2, <2>3, <2>4, <2>5, <2>6, <2>7, <2>8, QuienToca
<1>. QED
  BY <1>2, <1>3, <1>4

\* So is what is in them.
LEMMA RamAjena ==
  ASSUME Base, PropiedadOK, Fija, NEW p \in Procesos, NEW q \in Procesos, p # q, PasoDe(p),
         q \notin robados', NEW f \in Marcos, marco[f].pid = q, ram[f] \in Claves, ram[f][1] = q
  PROVE  ram'[f] = ram[f]
<1>1. ~Refiere(p, f)
  BY Recuerdos, NoRefiereAjeno
<1>2. f # hilo[p].fr
  BY <1>1 DEF Refiere
<1>3. CASE CrearPagina(p)
  <2>1. \A g \in Marcos : ram'[g] = IF g = hilo[p].fr THEN Nueva(p)
                                    ELSE IF ram[g] = Nueva(p) THEN Nadie ELSE ram[g]
    BY <1>3, CrearHace, Zenon
  <2>2. ram[f] # Nueva(p)
    BY DEF Nueva
  <2>. QED
    BY <1>2, <2>1, <2>2
<1>4. CASE TraerPagina(p)
  <2>1. \A g \in Marcos : g # hilo[p].fr => ram'[g] = ram[g]
    BY <1>4, TraerHace, Zenon
  <2>. QED
    BY <1>2, <2>1
<1>5. CASE Copiar(p)
  <2>1. hilo[p].pc = "copiar"
    BY <1>5, CopiarHace, Zenon
  <2>2. \A i \in DOMAIN hilo[p].frs : hilo[p].frs[i] # f
    BY <1>1, <2>1 DEF Refiere, ToSet
  <2>3. ASSUME hilo[p].op \in {"escribir", "guardar"}
        PROVE  \A g \in Marcos :
                  \/ \E i \in DOMAIN hilo[p].frs :
                        hilo[p].frs[i] = g /\ ram'[g] = <<p, hilo[p].pags[i]>>
                  \/ /\ \A i \in DOMAIN hilo[p].frs : hilo[p].frs[i] # g
                     /\ ram'[g] = IF ram[g] \in Halladas(p) THEN Nadie ELSE ram[g]
    BY <1>5, <2>3, CopiarHace, Zenon
  <2>5. hilo[p].op \notin {"escribir", "guardar"} => ram' = ram
    BY <1>5, CopiarHace, Zenon
  <2>4. ram[f] \notin Halladas(p)
    BY DEF Halladas
  <2>. QED
    BY <2>2, <2>3, <2>4, <2>5
<1>6. CASE \/ ElegirVictima(p) \/ Expulsar(p) \/ SoltarVictima(p) \/ BuscarPagina(p)
           \/ QuitarPagina(p) \/ TirarSuspendida(p)
  BY <1>6 DEF ElegirVictima, Expulsar, SoltarVictima, BuscarPagina, QuitarPagina,
     TirarSuspendida, datos
<1>. QED
  BY <1>3, <1>4, <1>5, <1>6, QuienEscribePaginas

\* An entry of p at the end of a list adds none of another process.
LEMMA UnicasAppend ==
  ASSUME NEW p, NEW q, p # q, NEW S, NEW t \in Seq(S), NEW e \in S, e.pid = p, Unicas(t, q)
  PROVE  /\ Unicas(Append(t, e), q)
         /\ \A x \in ToSet(Append(t, e)) : x.pid = q => x \in ToSet(t)
<1>. DEFINE a == Append(t, e)
<1>1. /\ Len(t) \in Nat /\ DOMAIN t = 1 .. Len(t) /\ DOMAIN a = 1 .. Len(t) + 1
      /\ \A i \in 1 .. Len(t) : a[i] = t[i]
      /\ a[Len(t) + 1] = e
  BY AppendProperties, LenProperties
<1>2. ASSUME NEW i \in DOMAIN a, a[i].pid = q  PROVE i \in DOMAIN t /\ a[i] = t[i]
  BY <1>1, <1>2
<1>3. Unicas(a, q)
  BY <1>2 DEF Unicas
<1>4. ASSUME NEW x \in ToSet(a), x.pid = q  PROVE x \in ToSet(t)
  <2>1. PICK i \in DOMAIN a : a[i] = x
    BY <1>4 DEF ToSet
  <2>. QED
    BY <1>2, <1>4, <2>1 DEF ToSet
<1>. QED
  BY <1>3, <1>4

\* And the entries of the TLB.
LEMMA TLBAjena ==
  ASSUME Base, NEW p \in Procesos, NEW q \in Procesos, p # q, PasoDe(p), Unicas(tlb, q)
  PROVE  /\ Unicas(tlb', q)
         /\ \A e \in ToSet(tlb') : e.pid = q => e \in ToSet(tlb)
<1>1. tlb \in Seq(TipoEntrada) /\ TypeOK
  BY Tipos DEF Base
<1>2. CASE tlb' = tlb
  BY <1>2
<1>3. CASE Expulsar(p)
  <2>1. /\ tlb' \in Seq(TipoEntrada)
        /\ tlb' = tlb \/ \E m \in 1 .. Len(tlb) : SinEl(m, tlb, tlb')
    BY <1>3, ExpulsarHace, Zenon
  <2>2. CASE \E m \in 1 .. Len(tlb) : SinEl(m, tlb, tlb')
    <3>1. PICK m \in 1 .. Len(tlb) : SinEl(m, tlb, tlb')
      BY <2>2
    <3>. QED
      BY <1>1, <2>1, <3>1, UnicasSinEl
  <2>. QED
    BY <1>2, <2>1, <2>2
<1>4. CASE ActualizarTLB(p)
  <2>1. /\ tlb' = tlb \/ tlb' = Append(tlb, Entrada(p))
        /\ hilo[p].pc = "actualizar"
    BY <1>4, ActualizarHace, Zenon
  <2>2. Entrada(p) \in TipoEntrada /\ Entrada(p).pid = p
    BY <2>1, EntradaTipo
  <2>3. /\ Unicas(Append(tlb, Entrada(p)), q)
        /\ \A x \in ToSet(Append(tlb, Entrada(p))) : x.pid = q => x \in ToSet(tlb)
    BY <1>1, <2>2, UnicasAppend
  <2>. QED
    BY <1>2, <2>1, <2>3
<1>5. CASE ReemplazarTLB(p)
  <2>1. /\ tlb' = tlb \/ (tlb # <<>> /\ tlb' = Append(Quedan, Entrada(p)))
        /\ hilo[p].pc = "reemplazar"
    BY <1>5, ReemplazarHace, Zenon
  <2>2. Entrada(p) \in TipoEntrada /\ Entrada(p).pid = p
    BY <2>1, EntradaTipo
  <2>3. ASSUME tlb # <<>>
        PROVE  /\ Unicas(Append(Quedan, Entrada(p)), q)
               /\ \A x \in ToSet(Append(Quedan, Entrada(p))) : x.pid = q => x \in ToSet(tlb)
    <3>1. Quedan \in Seq(TipoEntrada) /\ ToSet(Quedan) \subseteq ToSet(tlb) /\ Unicas(Quedan, q)
      BY <1>1, <2>3, UnicasTail DEF Quedan
    <3>2. /\ Unicas(Append(Quedan, Entrada(p)), q)
          /\ \A x \in ToSet(Append(Quedan, Entrada(p))) : x.pid = q => x \in ToSet(Quedan)
      BY <2>2, <3>1, UnicasAppend
    <3>. QED
      BY <3>1, <3>2
  <2>. QED
    BY <1>2, <2>1, <2>3
<1>. QED
  BY <1>2, <1>3, <1>4, <1>5, QuienEscribeTLB

\* With fixed assignment a step of p leaves what q has, unless q is robbed.
LEMMA PasoAjeno ==
  ASSUME Base, PropiedadOK, Fija, NEW p \in Procesos, NEW q \in Procesos, p # q, PasoDe(p),
         q \notin robados', conf' = conf, Unicas(tlb, q)
  PROVE  Intacto(q)
<1>1. hilo'[q] = hilo[q] /\ tabla'[q] = tabla[q]
  BY SoloElSuyo
<1>2. \A k \in Claves : k[1] = q =>
          /\ pag'[k].frame = pag[k].frame /\ pag'[k].presencia = pag[k].presencia
          /\ pag'[k].modificado = pag[k].modificado /\ (pag'[k].lock <=> pag[k].lock)
          /\ enSwap'[k] = enSwap[k]
  BY PaginasAjenas
<1>3. \A f \in Marcos : /\ marco[f].pid = q => (marco'[f].ocupado <=> marco[f].ocupado)
                        /\ marco'[f].pid = q <=> marco[f].pid = q
  BY MarcosAjenos
<1>4. \A f \in Marcos : marco[f].pid = q /\ ram[f] \in Claves /\ ram[f][1] = q => ram'[f] = ram[f]
  BY RamAjena
<1>5. Unicas(tlb, q) => Unicas(tlb', q)
  BY TLBAjena
<1>6. \A e \in ToSet(tlb') : e.pid = q => e \in ToSet(tlb)
  BY TLBAjena
<1>. QED
  BY <1>1, <1>2, <1>3, <1>4, <1>5, <1>6 DEF Intacto

-----------------------------------------------------------------------------
\* The others, with dynamic assignment.

\* A process that has given back a page is remembered.
LEMMA AchicadosCrece ==
  ASSUME NEW p \in Procesos, PasoDe(p)
  PROVE  achicados \subseteq achicados'
<1>. USE DEF Resto, historia
<1>1. ASSUME NEW n, MemallocNuevo(p, n) \/ MemallocCrecer(p, n)
      PROVE  achicados' = achicados
  BY <1>1 DEF MemallocNuevo, MemallocCrecer
<1>2. ASSUME UsaPaginas(p)  PROVE achicados' = achicados
  BY <1>2 DEF UsaPaginas, Leer, EscribirPagina, GuardarHeader, DesserializarHeader,
     LiberarPagina, Acceder
<1>3. ASSUME \/ Suspender(p) \/ Dessuspender(p) \/ ReservarMarcos(p) \/ NegarMarcos(p)
             \/ SolicitarFrame(p) \/ BuscarMarco(p) \/ TomarMarcos(p) \/ OlvidarMarco(p)
             \/ CrearPagina(p)
      PROVE  achicados' = achicados
  BY <1>3 DEF Suspender, Dessuspender, ReservarMarcos, NegarMarcos, SolicitarFrame, BuscarMarco,
     TomarMarcos, OlvidarMarco, CrearPagina
<1>4. ASSUME \/ SinVictima(p) \/ ActualizarTLB(p) \/ ReemplazarTLB(p)
             \/ SoltarMarco(p) \/ SoltarElResto(p) \/ TirarSuspendida(p)
      PROVE  achicados' = achicados
  BY <1>4 DEF SinVictima, ActualizarTLB, ReemplazarTLB, SoltarMarco, SoltarElResto,
     TirarSuspendida
<1>5. ASSUME \/ ElegirVictima(p) \/ Expulsar(p) \/ SoltarVictima(p) \/ BuscarPagina(p)
             \/ TraerPagina(p) \/ Copiar(p)
      PROVE  achicados' = achicados
  BY <1>5 DEF ElegirVictima, Expulsar, SoltarVictima, BuscarPagina, TraerPagina, Copiar
<1>6. ASSUME QuitarPagina(p)  PROVE achicados \subseteq achicados'
  BY <1>6 DEF QuitarPagina
<1>. QED
  BY <1>1, <1>2, <1>3, <1>4, <1>5, <1>6 DEF PasoDe

\* What holds of the pages as one process sees them holds as any other does, when nobody has a
\* request.
LEMMA SuyoDeCualquiera ==
  ASSUME NEW p \in Procesos, NEW q \in Procesos, ~Fija', Suyo(p)',
         hilo'[p].op = "nada", hilo'[p].pc \in PcReposo,
         hilo'[q].op = "nada", hilo'[q].pc \in PcReposo
  PROVE  Suyo(q)'
<1>1. (\A k : Mia(q, k)' <=> Mia(p, k)') /\ (\A f : De(q, f)' /\ De(p, f)')
  BY DEF Mia, De, EnTabla
<1>2. /\ EnSitio(p)' /\ CubiertosOK(p)' /\ TrabasOK(p)'
      /\ MarcosOK(p)' /\ (Fiel' => RamOK(p)')
  BY DEF Suyo, EnSitio
<1>3. MarcosOK(q)'
  BY <1>1, <1>2 DEF MarcosOK
<1>4. AusentesOK(q)' /\ TLBOK(q)' /\ CuotaOK(q)'
  BY DEF AusentesOK, TLBOK, CuotaOK
<1>5. Fiel' => RamOK(q)'
  BY <1>1, <1>2 DEF RamOK
<1>6. CubiertosOK(q)'
  <2>1. \A f : ~Ocupa(p, f)'
    BY DEF Ocupa, PcReposo
  <2>. QED
    BY <1>1, <1>2, <2>1 DEF CubiertosOK
<1>7. TrabasOK(q)'
  <2>1. \A k : ~Traba(p, k)'
    BY DEF Traba, PcReposo, Accesos
  <2>. QED
    BY <1>1, <1>2, <2>1 DEF TrabasOK
<1>8. EnCurso(q)'
  BY EnReposo DEF PcReposo, Accesos
<1>. QED
  BY <1>3, <1>4, <1>5, <1>6, <1>7, <1>8 DEF Suyo, EnSitio

\* A step of a process that has no request and makes none leaves all as it is, but for what a
\* suspension releases.
LEMMA PasoDeReposo ==
  ASSUME Base, VolverOK, ~Fija, NEW p \in Procesos, PasoDe(p), manchados' = {},
         hilo[p].op = "nada", hilo'[p].op = "nada"
  PROVE  UNCHANGED <<marco, tabla, pag, ram, enSwap, tlb>>
<1>. USE DEF tablas, datos
<1>1. hilo[p].pc \in PcReposo /\ manchados = {} /\ hilo[p].pc # "tirar"
  <2>1. hilo[p].pc \in PcReposo
    BY PcYOp
  <2>2. manchados = {}
    BY Recuerdos
  <2>. QED
    BY <2>1, <2>2 DEF VolverOK
<1>2. ASSUME NEW n, MemallocNuevo(p, n) \/ MemallocCrecer(p, n)
      PROVE  UNCHANGED <<marco, tabla, pag, ram, enSwap, tlb>>
  BY <1>2 DEF MemallocNuevo, MemallocCrecer
<1>3. ASSUME UsaPaginas(p)  PROVE UNCHANGED <<marco, tabla, pag, ram, enSwap, tlb>>
  BY <1>3, UsaPaginasHace
<1>4. ASSUME Suspender(p) \/ Dessuspender(p)
      PROVE  UNCHANGED <<marco, tabla, pag, ram, enSwap, tlb>>
  BY <1>4 DEF Suspender, Dessuspender
<1>5. ASSUME SoltarMarco(p)  PROVE UNCHANGED <<marco, tabla, pag, ram, enSwap, tlb>>
  <2>1. marco' = marco
    <3>1. manchados' = manchados \union {pag[Suspendida(p)].frame} \/ marco' = marco
      BY <1>5, SoltarMarcoHace, Zenon
    <3>. QED
      BY <3>1
  <2>. QED
    BY <1>5, <2>1 DEF SoltarMarco
<1>6. ASSUME SoltarElResto(p)  PROVE UNCHANGED <<marco, tabla, pag, ram, enSwap, tlb>>
  <2>1. marco' = marco
    BY <1>6, SoltarRestoHace
  <2>. QED
    BY <1>6, <2>1 DEF SoltarElResto
<1>7. /\ ~ReservarMarcos(p) /\ ~NegarMarcos(p) /\ ~SolicitarFrame(p) /\ ~BuscarMarco(p)
      /\ ~TomarMarcos(p) /\ ~CrearPagina(p) /\ ~OlvidarMarco(p) /\ ~TirarSuspendida(p)
  BY <1>1 DEF PcReposo, ReservarMarcos, NegarMarcos, SolicitarFrame, BuscarMarco, TomarMarcos,
     CrearPagina, OlvidarMarco, TirarSuspendida, En
<1>8. /\ ~ElegirVictima(p) /\ ~SinVictima(p) /\ ~Expulsar(p) /\ ~SoltarVictima(p)
      /\ ~BuscarPagina(p) /\ ~TraerPagina(p) /\ ~ActualizarTLB(p) /\ ~ReemplazarTLB(p)
      /\ ~Copiar(p) /\ ~QuitarPagina(p)
  BY <1>1 DEF PcReposo, ElegirVictima, SinVictima, Expulsar, SoltarVictima, BuscarPagina,
     TraerPagina, ActualizarTLB, ReemplazarTLB, Copiar, QuitarPagina, En
<1>. QED
  BY <1>2, <1>3, <1>4, <1>5, <1>6, <1>7, <1>8 DEF PasoDe

\* With dynamic assignment a step of p keeps what it is to keep for every process.
LEMMA DinamicaSigue ==
  ASSUME Base, Base', Duenios, Lugares, ~Fija, NEW p \in Procesos, PasoDe(p), conf' = conf,
         NEW q \in Procesos, Vale(q)'
  PROVE  Suyo(q)'
<1>1. ~Fija' /\ TypeOK /\ VolverOK /\ CupoOK
  BY ConfIgual DEF Base, Duenios
<1>2. \A r \in Procesos \ {p} : hilo'[r] = hilo[r]
  BY SoloElSuyo
<1>3. conf.hilos <= 1 /\ manchados' = {} /\ (conf.entradas = 0 \/ achicados' = {}) /\ Solo(q)'
  BY <1>1 DEF Vale
<1>4. conf.hilos <= 1 /\ manchados = {} /\ (conf.entradas = 0 \/ achicados = {})
  BY <1>3, Recuerdos, AchicadosCrece
<1>5. ASSUME NEW r \in Procesos  PROVE Solo(r) => Vale(r) /\ Suyo(r)
  BY <1>4 DEF Vale, Lugares
<1>6. ASSUME NEW r \in Procesos  PROVE Solo(r)' => Vale(r)'
  BY <1>1, <1>3 DEF Vale
<1>7. CASE q = p
  <2>1. Solo(p)
    BY <1>2, <1>3, <1>7 DEF Solo
  <2>2. Sigue(p)
    BY <1>5, <1>7, <2>1 DEF Sigue
  <2>. QED
    BY <1>7, <2>2, SuyoSigue
<1>8. CASE q # p /\ hilo[p].op = "nada"
  <2>1. hilo'[p].op = "nada"
    BY <1>3, <1>8 DEF Solo
  <2>2. Solo(q)
    BY <1>2, <1>3, <1>8 DEF Solo
  <2>3. UNCHANGED <<marco, tabla, pag, ram, enSwap, tlb>>
    BY <1>1, <1>3, <1>8, <2>1, PasoDeReposo
  <2>4. hilo'[q] = hilo[q]
    BY <1>2, <1>8
  <2>. QED
    BY <1>5, <2>2, <2>3, <2>4, SuyoIgual
<1>9. CASE q # p /\ hilo[p].op # "nada"
  <2>1. \A r \in Procesos : hilo[r].op # "nada" => r \in Pidiendo
    <3>1. ASSUME NEW r \in Procesos  PROVE hilo[r].op # "volver"
      BY DEF Base, HilosOK, AltaOK, Altas
    <3>. QED
      BY <1>1, <3>1, Registro DEF Pidiendo
  <2>2. hilo[q].op = "nada"
    BY <1>1, <1>4, <1>9, <2>1, UnoSolo
  <2>3. hilo'[p].op = "nada" /\ hilo'[q].op = "nada"
    BY <1>2, <1>3, <1>9, <2>2 DEF Solo
  <2>4. Solo(p) /\ Solo(p)'
    BY <1>2, <1>3, <1>9, <2>2, <2>3 DEF Solo
  <2>5. Sigue(p)
    BY <1>5, <1>6, <2>4 DEF Sigue
  <2>6. Suyo(p)'
    BY <2>5, SuyoSigue
  <2>7. hilo'[p].pc \in PcReposo /\ hilo'[q].pc \in PcReposo
    BY <2>3 DEF Base, HilosOK, ReposoOK
  <2>. QED
    BY <1>1, <2>3, <2>6, <2>7, SuyoDeCualquiera
<1>. QED
  BY <1>7, <1>8, <1>9

-----------------------------------------------------------------------------
\* The invariant of paging: where every thread is, whose the frames are, where the pages are.
Paginado == Control /\ Duenios /\ Lugares

\* It holds when memoria starts: nothing is in memory yet.
LEMMA PaginadoInicial ==
  ASSUME Init
  PROVE  Paginado
<1>1. Control /\ Base /\ TypeOK
  BY ControlInicial DEF Control, Base
<1>2. /\ \A p \in Procesos : tabla[p] = <<>> /\ hilo[p] = Libre
      /\ \A k : ~EnTabla(k) \/ k[1] \notin Procesos
      /\ tlb = <<>> /\ manchados = {} /\ robados = {} /\ achicados = {}
      /\ \A f \in Marcos : marco[f] = [ocupado |-> FALSE, pid |-> Nadie]
      /\ \A k \in Claves : pag[k] = SinUsar
  BY DEF Init, EnTabla, ToSet
<1>3. /\ \A f \in Marcos : marco[f].pid \notin Procesos /\ ~marco[f].ocupado
      /\ \A k \in Claves : pag[k].frame = SinMarco /\ ~pag[k].presencia /\ ~EnTabla(k)
      /\ \A p \in Procesos : /\ hilo[p].pc = "libre" /\ hilo[p].op = "nada" /\ hilo[p].frs = <<>>
                             /\ hilo[p].fr = SinMarco
      /\ SinMarco \notin Marcos
  BY <1>1, <1>2, NadieAssumption, MarcosTipo DEF Libre, SinUsar, Claves
<1>4. PropiedadOK
  <2>1. \A q \in Procesos, f \in Marcos : ~Refiere(q, f)
    <3>1. ASSUME NEW q \in Procesos, NEW f \in Marcos, Refiere(q, f)  PROVE FALSE
      <4>1. \A i \in Ids : <<q, i>> \in Claves
        BY DEF Claves
      <4>2. ToSet(hilo[q].frs) = {} /\ ToSet(tlb) = {}
        BY <1>2, <1>3 DEF ToSet
      <4>. QED
        BY <1>3, <3>1, <4>1, <4>2 DEF Refiere
    <3>. QED
      BY <3>1
  <2>. QED
    BY <1>2, <1>3, <2>1 DEF PropiedadOK
<1>5. VolverOK /\ TLBHay
  BY <1>2, <1>3 DEF VolverOK, TLBHay
<1>6. CupoOK
  <2>1. Pidiendo = {}
    BY <1>3 DEF Pidiendo, Llamadas
  <2>. QED
    BY <1>1, <2>1, FS_EmptySet, ConfTipo DEF CupoOK
<1>7. ASSUME NEW p \in Procesos  PROVE Suyo(p)
  <2>1. \A k \in Claves : ~Mia(p, k)
    BY <1>3 DEF Mia
  <2>2. MarcosOK(p) /\ AusentesOK(p) /\ RamOK(p) /\ TrabasOK(p)
    BY <2>1 DEF MarcosOK, AusentesOK, RamOK, TrabasOK
  <2>3. TLBOK(p)
    BY <1>2 DEF TLBOK, ToSet, Unicas
  <2>4. CubiertosOK(p)
    BY <1>3 DEF CubiertosOK
  <2>5. CuotaOK(p)
    BY <1>2, <1>3, <1>7 DEF CuotaOK, Tiene, Propios
  <2>6. EnCurso(p)
    BY <1>3 DEF EnCurso, ViajeOK, LlenoOK, BuscadaOK, VictimaOK, HalladasOK, LimpiaOK, EntradasOK,
       Accesos
  <2>. QED
    BY <2>2, <2>3, <2>4, <2>5, <2>6 DEF Suyo, EnSitio
<1>. QED
  BY <1>1, <1>4, <1>5, <1>6, <1>7 DEF Paginado, Duenios, Lugares

\* With fixed assignment a step of p keeps what is right of every process.
LEMMA FijaSigue ==
  ASSUME Base, Duenios, Lugares, Fija, NEW p \in Procesos, PasoDe(p), conf' = conf,
         NEW q \in Procesos, Vale(q)'
  PROVE  Suyo(q)'
<1>1. Fija' /\ q \notin achicados' /\ q \notin robados'
  BY ConfIgual DEF Vale
<1>2. Vale(q) /\ Suyo(q)
  BY <1>1, Recuerdos, AchicadosCrece DEF Vale, Lugares
<1>3. CASE q = p
  BY <1>2, <1>3, SuyoSigue DEF Sigue
<1>4. CASE q # p
  <2>1. Unicas(tlb, q) /\ PropiedadOK
    BY <1>2 DEF Suyo, EnSitio, TLBOK, Fiel, Duenios
  <2>2. Intacto(q)
    BY <1>1, <1>4, <2>1, PasoAjeno
  <2>. QED
    BY <1>2, <2>2, IntactoSuyo
<1>. QED
  BY <1>3, <1>4

\* Nothing changes when no step is taken.
LEMMA PaginadoQuieto ==
  ASSUME Base, Duenios, Lugares, UNCHANGED vars
  PROVE  Duenios' /\ Lugares'
<1>1. /\ conf' = conf /\ marco' = marco /\ tabla' = tabla /\ pag' = pag /\ ram' = ram
      /\ enSwap' = enSwap /\ tlb' = tlb /\ hilo' = hilo /\ suspendidos' = suspendidos
      /\ manchados' = manchados /\ robados' = robados /\ achicados' = achicados
  BY DEF vars, tablas, datos, historia
<1>2. Marcos' = Marcos /\ (Fija' <=> Fija)
  BY <1>1, ConfIgual
<1>3. PropiedadOK'
  BY <1>1, <1>2 DEF Duenios, PropiedadOK, Refiere
<1>4. VolverOK' /\ CupoOK' /\ TLBHay'
  BY <1>1, <1>2 DEF Duenios, VolverOK, CupoOK, Pidiendo, TLBHay
<1>5. ASSUME NEW p \in Procesos, Vale(p)'  PROVE Suyo(p)'
  <2>1. Vale(p)
    BY <1>1, <1>2, <1>5 DEF Vale, Solo
  <2>. QED
    BY <1>1, <2>1, SuyoIgual DEF Lugares
<1>. QED
  BY <1>3, <1>4, <1>5 DEF Duenios, Lugares

\* And every step keeps it.
LEMMA PaginadoSigue ==
  ASSUME Paginado, [Next]_vars
  PROVE  Paginado'
<1>1. Control' /\ Base /\ Base' /\ Duenios /\ Lugares
  BY ControlSigue DEF Paginado, Control
<1>2. CASE Next
  <2>1. PICK p \in Procesos : PasoDe(p)
    BY <1>2, QuienDaElPaso
  <2>2. conf' = conf /\ PropiedadOK /\ VolverOK /\ CupoOK /\ TLBHay
    BY <1>1, <1>2, ConfQuieta DEF Duenios
  <2>3. PropiedadOK'
    BY <1>1, <1>2, <2>1, <2>2, PropiedadSigue
  <2>4. VolverOK'
    BY <1>1, <1>2, <2>1, <2>2, VolverSigue
  <2>5. CupoOK'
    BY <1>1, <1>2, <2>1, <2>2, CupoSigue
  <2>6. TLBHay'
    BY <1>1, <1>2, <2>1, <2>2, TLBHaySigue
  <2>7. ASSUME NEW q \in Procesos, Vale(q)'  PROVE Suyo(q)'
    BY <1>1, <2>1, <2>2, <2>7, FijaSigue, DinamicaSigue
  <2>. QED
    BY <1>1, <2>3, <2>4, <2>5, <2>6, <2>7 DEF Paginado, Duenios, Lugares
<1>3. CASE UNCHANGED vars
  BY <1>1, <1>3, PaginadoQuieto DEF Paginado
<1>. QED
  BY <1>2, <1>3

\* So it holds always.
LEMMA PaginadoSiempre == Spec => []Paginado
<1>1. Init => Paginado
  BY PaginadoInicial
<1>2. Paginado /\ [Next]_vars => Paginado'
  BY PaginadoSigue
<1>. QED
  BY <1>1, <1>2, PTL DEF Spec

-----------------------------------------------------------------------------
\* What it is for.

\* A request that is in the middle of something is the only one there is, with dynamic
\* assignment and one processor.
LEMMA QuienPideEstaSolo ==
  ASSUME Base, CupoOK, ~Fija, conf.hilos <= 1, NEW p \in Procesos, hilo[p].op # "nada"
  PROVE  Solo(p)
<1>1. \A r \in Procesos : hilo[r].op # "nada" => r \in Pidiendo
  <2>1. ASSUME NEW r \in Procesos  PROVE hilo[r].op # "volver"
    BY DEF Base, HilosOK, AltaOK, Altas
  <2>. QED
    BY <2>1, Registro DEF Pidiendo, Base
<1>. QED
  BY <1>1, UnoSolo DEF Solo, Base

\* What a process that can be trusted has is its own; with dynamic assignment it is seen from
\* the one that has a request, or else from it.
LEMMA ConfiableSuyo ==
  ASSUME Paginado, NEW p \in Procesos, Confiable(p)
  PROVE  /\ Fiel
         /\ Fija => Suyo(p) /\ p \notin robados
         /\ hilo[p].op # "nada" => Suyo(p)
         /\ \E r \in Procesos : Suyo(r) /\ \A k : Mia(p, k) => Mia(r, k)
<1>1. Base /\ CupoOK /\ Lugares
  BY DEF Paginado, Control, Duenios
<1>2. CASE Fija
  BY <1>1, <1>2 DEF Confiable, Vale, Lugares, Fiel
<1>3. CASE ~Fija
  <2>1. conf.hilos <= 1 /\ conf.entradas = 0 /\ manchados = {}
    BY <1>3 DEF Confiable
  <2>2. \A r \in Procesos : Solo(r) => Suyo(r)
    BY <1>1, <1>3, <2>1 DEF Vale, Lugares
  <2>3. \E r \in Procesos : Solo(r)
    <3>1. CASE \E r \in Procesos : hilo[r].op # "nada"
      BY <1>1, <1>3, <2>1, <3>1, QuienPideEstaSolo
    <3>2. CASE \A r \in Procesos : hilo[r].op = "nada"
      BY <3>2 DEF Solo
    <3>. QED
      BY <3>1, <3>2
  <2>4. hilo[p].op # "nada" => Suyo(p)
    BY <1>1, <1>3, <2>1, <2>2, QuienPideEstaSolo
  <2>. QED
    BY <1>3, <2>1, <2>2, <2>3, <2>4 DEF Fiel, Mia
<1>. QED
  BY <1>2, <1>3

\* The frame of a present page is its own.
LEMMA PaginadoMarcoPropio ==
  ASSUME Paginado
  PROVE  MarcoPropio
<1>1. SUFFICES ASSUME NEW k \in PaginasEnTablas, pag[k].presencia, Confiable(k[1])
               PROVE  /\ marco[pag[k].frame].ocupado
                      /\ Fija => marco[pag[k].frame].pid = k[1]
                      /\ \A l \in PaginasEnTablas \ {k} :
                            pag[l].presencia => pag[l].frame # pag[k].frame
  BY DEF MarcoPropio
<1>2. /\ Base /\ PropiedadOK /\ k \in Claves /\ k[1] \in Procesos /\ Mia(k[1], k)
      /\ pag[k].frame \in Marcos
  BY <1>1 DEF Paginado, Control, Duenios, PaginasEnTablas, Claves, Mia, Base, TablasOK
<1>3. PICK r \in Procesos : Suyo(r) /\ Mia(r, k)
  BY <1>1, <1>2, ConfiableSuyo
<1>4. /\ De(r, pag[k].frame) /\ marco[pag[k].frame].ocupado
      /\ \A l \in Claves : Mia(r, l) /\ l # k => ~EnMarco(l, pag[k].frame)
  BY <1>1, <1>2, <1>3 DEF Suyo, EnSitio, MarcosOK
<1>5. Fija => r = k[1] /\ marco[pag[k].frame].pid = k[1] /\ k[1] \notin robados
  BY <1>1, <1>2, <1>3, <1>4, ConfiableSuyo DEF De, Mia
<1>6. ASSUME NEW l \in PaginasEnTablas, l # k, pag[l].presencia, pag[l].frame = pag[k].frame
      PROVE  FALSE
  <2>1. l \in Claves /\ EnTabla(l)
    BY <1>6 DEF PaginasEnTablas
  <2>2. ~Mia(r, l)
    BY <1>4, <1>6, <2>1 DEF EnMarco
  <2>3. Fija /\ l[1] # k[1]
    BY <1>5, <2>1, <2>2 DEF Mia
  <2>4. ~Refiere(l[1], pag[k].frame)
    BY <1>2, <1>5, <2>1, <2>3, NoRefiereAjeno DEF Claves
  <2>5. Refiere(l[1], pag[l].frame)
    <3>1. l = <<l[1], l[2]>> /\ l[2] \in Ids
      BY <2>1 DEF Claves
    <3>. QED
      BY <3>1 DEF Refiere
  <2>. QED
    BY <1>6, <2>4, <2>5
<1>. QED
  BY <1>4, <1>5, <1>6

\* The current content of a page is in its frame or in swamp.
LEMMA PaginadoRecuperable ==
  ASSUME Paginado
  PROVE  PaginaRecuperable
<1>1. SUFFICES ASSUME NEW k \in PaginasEnTablas, Confiable(k[1])
               PROVE  /\ pag[k].presencia => ram[pag[k].frame] = k
                      /\ ~pag[k].presencia \/ ~pag[k].modificado => enSwap[k]
  BY DEF PaginaRecuperable
<1>2. k \in Claves /\ k[1] \in Procesos /\ Mia(k[1], k)
  BY DEF PaginasEnTablas, Claves, Mia
<1>3. PICK r \in Procesos : Suyo(r) /\ Mia(r, k)
  BY <1>1, <1>2, ConfiableSuyo
<1>4. RamOK(r)
  BY <1>1, <1>2, <1>3, ConfiableSuyo DEF Suyo, EnSitio
<1>. QED
  BY <1>2, <1>3, <1>4 DEF RamOK

\* A request reads and writes frames that hold its pages.
LEMMA PaginadoLectura ==
  ASSUME Paginado
  PROVE  LecturaCorrecta
<1>1. SUFFICES ASSUME NEW p \in Procesos, hilo[p].pc = "copiar", Confiable(p),
                      NEW i \in DOMAIN hilo[p].pags
               PROVE  ram[hilo[p].frs[i]] = <<p, hilo[p].pags[i]>>
  BY DEF LecturaCorrecta
<1>. DEFINE k == <<p, hilo[p].pags[i]>>
<1>2. Base
  BY DEF Paginado, Control
<1>3. /\ hilo[p].op \in Accesos /\ DOMAIN hilo[p].frs = DOMAIN hilo[p].pags
      /\ k \in Claves /\ EnTabla(k) /\ k \in Halladas(p)
  BY <1>1, <1>2, QuienTermina DEF Halladas
<1>4. Suyo(p) /\ Fiel
  BY <1>1, <1>3, ConfiableSuyo DEF Accesos
<1>5. pag[k].presencia /\ pag[k].frame = hilo[p].frs[i]
  BY <1>3, <1>4 DEF Suyo, EnCurso, BuscadaOK, HalladasOK
<1>6. RamOK(p) /\ Mia(p, k)
  BY <1>3, <1>4 DEF Suyo, EnSitio, Mia
<1>. QED
  BY <1>3, <1>5, <1>6 DEF RamOK

\* The TLB says where the pages are.
LEMMA PaginadoTLBFiel ==
  ASSUME Paginado
  PROVE  TLBFiel
<1>1. SUFFICES ASSUME Fija, NEW i \in DOMAIN tlb, Confiable(tlb[i].pid)
               PROVE  /\ pag[<<tlb[i].pid, tlb[i].pag>>].presencia
                      /\ pag[<<tlb[i].pid, tlb[i].pag>>].frame = tlb[i].frame
                      /\ \A j \in DOMAIN tlb : tlb[j] = tlb[i] => j = i
  BY Zenon DEF TLBFiel
<1>2. tlb[i] \in TipoEntrada /\ tlb[i].pid \in Procesos /\ tlb[i] \in ToSet(tlb)
  <2>1. tlb \in Seq(TipoEntrada)
    BY Tipos DEF Paginado, Control, Base
  <2>2. tlb[i] \in TipoEntrada
    BY <1>1, <2>1
  <2>. QED
    BY <1>1, <2>2 DEF TipoEntrada, ToSet
<1>3. TLBOK(tlb[i].pid)
  BY <1>1, <1>2, ConfiableSuyo DEF Suyo, EnSitio
<1>4. EnMarco(<<tlb[i].pid, tlb[i].pag>>, tlb[i].frame) /\ Unicas(tlb, tlb[i].pid)
  BY <1>1, <1>2, <1>3 DEF TLBOK
<1>. QED
  BY <1>4 DEF EnMarco, Unicas

\* With one request in flight, or with fixed assignment, and two frames to choose from,
\* a replacement has a page it may take.
LEMMA HayCandidata ==
  ASSUME Paginado, NEW p \in Procesos, hilo[p].pc = "elegir", achicados = {}, manchados = {},
         IF Fija THEN conf.marcos >= 2 ELSE conf.frames >= 2 /\ conf.hilos <= 1
  PROVE  Candidatas(p) # {}
<1>1. SUFFICES ASSUME Candidatas(p) = {}  PROVE FALSE
  OBVIOUS
<1>2. Base /\ TypeOK /\ PropiedadOK /\ CupoOK /\ Lugares
  BY DEF Paginado, Control, Duenios, Base
<1>3. /\ hilo[p].op \in Altas \union Accesos
      /\ hilo[p].op \in Accesos => Len(hilo[p].frs) < Len(hilo[p].pags)
  BY <1>2, QuienReemplaza
<1>4. Suyo(p)
  <2>1. robados = {}
    BY <1>2 DEF PropiedadOK
  <2>2. ~Fija => Solo(p)
    BY <1>2, <1>3, QuienPideEstaSolo DEF Altas, Accesos
  <2>. QED
    BY <1>2, <2>1, <2>2 DEF Lugares, Vale
<1>5. ASSUME NEW f \in Marcos, De(p, f)
      PROVE  \E k \in Halladas(p) : pag[k].frame = f
  <2>1. marco[f].ocupado /\ ~Ocupa(p, f)
    BY <1>4, <1>5 DEF Suyo, EnCurso, LlenoOK, Lleno, Ocupa
  <2>2. PICK k \in Claves : Mia(p, k) /\ EnMarco(k, f)
    BY <1>4, <1>5, <2>1 DEF Suyo, CubiertosOK
  <2>3. pag[k].lock
    BY <1>1, <2>2 DEF Candidatas, PaginasEnTablas, Mia, EnMarco
  <2>4. Traba(p, k)
    BY <1>4, <2>2, <2>3 DEF Suyo, TrabasOK
  <2>5. hilo[p].op \in Accesos
    BY <2>4 DEF Traba
  <2>6. k # Buscada(p)
    BY <1>4, <2>2, <2>5 DEF Suyo, EnCurso, BuscadaOK, EnMarco
  <2>7. k \in Halladas(p)
    BY <2>4, <2>6 DEF Traba
  <2>. QED
    BY <2>2, <2>7 DEF EnMarco
<1>6. \E f, g \in Marcos : f # g /\ De(p, f) /\ De(p, g)
  <2>1. CASE Fija
    <3>1. Cardinality(Propios(p)) = conf.marcos
      BY <1>4, <2>1 DEF Suyo, CuotaOK, Tiene
    <3>2. /\ IsFiniteSet(Propios(p)) /\ conf.marcos \in Nat
      BY <1>2, MarcosTipo, FS_Subset, ConfTipo DEF Propios
    <3>3. Propios(p) # {}
      BY <2>1, <3>1, FS_EmptySet
    <3>4. PICK f \in Propios(p) : TRUE
      BY <3>3
    <3>5. Propios(p) # {f}
      BY <2>1, <3>1, FS_Singleton
    <3>6. PICK g \in Propios(p) : g # f
      BY <3>4, <3>5
    <3>. QED
      BY <3>4, <3>6 DEF Propios, De
  <2>2. CASE ~Fija
    <3>1. 0 \in Marcos /\ 1 \in Marcos
      BY <1>2, <2>2, ConfTipo DEF Marcos
    <3>. QED
      BY <2>2, <3>1 DEF De
  <2>. QED
    BY <2>1, <2>2
<1>7. PICK f \in Marcos, g \in Marcos : f # g /\ De(p, f) /\ De(p, g)
  BY <1>6
<1>8. PICK k \in Halladas(p) : pag[k].frame = f
  BY <1>5, <1>7
<1>9. PICK l \in Halladas(p) : pag[l].frame = g
  BY <1>5, <1>7
<1>10. PICK i \in DOMAIN hilo[p].frs : k = <<p, hilo[p].pags[i]>>
  BY <1>8 DEF Halladas
<1>11. PICK j \in DOMAIN hilo[p].frs : l = <<p, hilo[p].pags[j]>>
  BY <1>9 DEF Halladas
<1>12. i # j
  BY <1>7, <1>8, <1>9, <1>10, <1>11
<1>13. hilo[p].op \in Accesos
  BY <1>2, <1>3, <1>10, QuienReemplaza
<1>14. Len(hilo[p].pags) \in 1 .. 2 /\ Len(hilo[p].frs) < Len(hilo[p].pags)
  BY <1>2, <1>3, <1>13 DEF Base, HilosOK, AccesoOK
<1>15. hilo[p].frs \in Seq(Marcos)
  BY <1>2, Registro
<1>16. Len(hilo[p].frs) \in Nat /\ DOMAIN hilo[p].frs = 1 .. Len(hilo[p].frs)
  BY <1>15, LenProperties
<1>17. \A n \in 1 .. 2, m \in Nat : m < n => \A a, b \in 1 .. m : a = b
  OBVIOUS
<1>18. \A a, b \in 1 .. Len(hilo[p].frs) : a = b
  BY <1>14, <1>16, <1>17
<1>. QED
  BY <1>12, <1>16, <1>18, Zenon

\* What kills memoria.
LEMMA QuienMata ==
  ASSUME Base, NEW p \in Procesos, PasoDe(p)
  PROVE  \/ caido' = caido
         \/ SinVictima(p) /\ caido' = "sinVictima"
         \/ ConHuecos(p) /\ caido' = "sinPagina"
         \/ ReemplazarTLB(p) /\ tlb = <<>> /\ caido' = "tlbVacia"
         \/ caido' = "sinTabla"
<1>. USE DEF Resto, tablas, datos, Morir
<1>1. ASSUME NEW n, MemallocNuevo(p, n) \/ MemallocCrecer(p, n)  PROVE caido' = caido
  BY <1>1 DEF MemallocNuevo, MemallocCrecer
<1>2. ASSUME UsaPaginas(p)  PROVE caido' = caido \/ (ConHuecos(p) /\ caido' = "sinPagina")
  BY <1>2, UsaPaginasHace
<1>3. ASSUME \/ Suspender(p) \/ ReservarMarcos(p) \/ NegarMarcos(p) \/ SolicitarFrame(p)
             \/ BuscarMarco(p) \/ TomarMarcos(p) \/ OlvidarMarco(p) \/ CrearPagina(p)
      PROVE  caido' = caido
  BY <1>3 DEF Suspender, ReservarMarcos, NegarMarcos, SolicitarFrame, BuscarMarco,
     TomarMarcos, OlvidarMarco, CrearPagina
<1>4. ASSUME \/ ActualizarTLB(p) \/ SoltarMarco(p) \/ SoltarElResto(p) \/ TirarSuspendida(p)
             \/ ElegirVictima(p) \/ Expulsar(p) \/ SoltarVictima(p) \/ BuscarPagina(p)
             \/ TraerPagina(p) \/ Copiar(p) \/ QuitarPagina(p)
      PROVE  caido' = caido
  BY <1>4 DEF ActualizarTLB, SoltarMarco, SoltarElResto, TirarSuspendida, ElegirVictima, Expulsar,
     SoltarVictima, BuscarPagina, TraerPagina, Copiar, QuitarPagina
<1>5. ASSUME Dessuspender(p)  PROVE caido' = caido \/ caido' = "sinTabla"
  BY <1>5 DEF Dessuspender
<1>6. ASSUME SinVictima(p)  PROVE caido' = "sinVictima"
  BY <1>6 DEF SinVictima
<1>7. ASSUME ReemplazarTLB(p)  PROVE caido' = caido \/ (tlb = <<>> /\ caido' = "tlbVacia")
  BY <1>7 DEF ReemplazarTLB
<1>. QED
  BY <1>1, <1>2, <1>3, <1>4, <1>5, <1>6, <1>7 DEF PasoDe

\* A process that gave nothing back has its pages numbered as its table.
LEMMA SinHuecos ==
  ASSUME Base, NEW p \in Procesos \ achicados
  PROVE  ~ConHuecos(p)
<1>1. SUFFICES ASSUME NEW i \in 0 .. Len(tabla[p]) - 1  PROVE i \in ToSet(tabla[p])
  BY DEF ConHuecos
<1>2. /\ Len(tabla[p]) \in Nat /\ DOMAIN tabla[p] = 1 .. Len(tabla[p])
      /\ \A j \in DOMAIN tabla[p] : tabla[p][j] = j - 1
  BY TablaTipo DEF Base, TablasOK
<1>3. i + 1 \in 1 .. Len(tabla[p]) /\ (i + 1) - 1 = i
  BY <1>1, <1>2
<1>4. tabla[p][i + 1] = i
  BY <1>2, <1>3
<1>. QED
  BY <1>2, <1>3, <1>4 DEF ToSet

\* memoria dies of nothing else.
LEMMA MemoriaNoCaeSigue ==
  ASSUME Paginado, MemoriaNoCae, [Next]_vars
  PROVE  MemoriaNoCae'
<1>1. Base /\ TypeOK /\ TLBHay
  BY DEF Paginado, Control, Duenios, Base
<1>2. CASE UNCHANGED vars
  BY <1>2 DEF vars, historia, MemoriaNoCae, Fija
<1>3. CASE Next
  <2>1. PICK p \in Procesos : PasoDe(p)
    BY <1>3, QuienDaElPaso
  <2>2. conf' = conf /\ (Fija' <=> Fija)
    BY <1>3, ConfQuieta, ConfIgual
  <2>3. manchados \subseteq manchados' /\ achicados \subseteq achicados'
    BY <1>1, <2>1, Recuerdos, AchicadosCrece
  <2>4. CASE caido' = caido
    <3>1. (achicados # {} => achicados' # {}) /\ (manchados # {} => manchados' # {})
      BY <2>3
    <3>. QED
      BY <2>2, <2>4, <3>1 DEF MemoriaNoCae
  <2>5. CASE SinVictima(p) /\ caido' = "sinVictima"
    <3>1. hilo[p].pc = "elegir" /\ Candidatas(p) = {}
      BY <2>5 DEF SinVictima, En
    <3>2. SUFFICES ASSUME achicados' = {}, manchados' = {},
                          ~(IF Fija THEN conf.marcos < 2 ELSE conf.frames < 2 \/ conf.hilos > 1)
                   PROVE  FALSE
      BY <2>2, <2>5 DEF MemoriaNoCae
    <3>3. achicados = {} /\ manchados = {}
      BY <2>3, <3>2
    <3>4. IF Fija THEN conf.marcos >= 2 ELSE conf.frames >= 2 /\ conf.hilos <= 1
      BY <1>1, <3>2, ConfTipo
    <3>. QED
      BY <3>1, <3>3, <3>4, HayCandidata
  <2>6. CASE ConHuecos(p) /\ caido' = "sinPagina"
    <3>1. p \in achicados
      BY <1>1, <2>6, SinHuecos
    <3>2. achicados' # {}
      BY <2>3, <3>1
    <3>. QED
      BY <2>6, <3>2 DEF MemoriaNoCae
  <2>7. CASE ReemplazarTLB(p) /\ tlb = <<>> /\ caido' = "tlbVacia"
    <3>1. conf.hilos > 1 \/ manchados # {}
      BY <1>1, <2>7, ConfTipo DEF TLBHay, ReemplazarTLB, En
    <3>2. manchados # {} => manchados' # {}
      BY <2>3
    <3>. QED
      BY <2>2, <2>7, <3>1, <3>2 DEF MemoriaNoCae
  <2>8. CASE caido' = "sinTabla"
    BY <2>8 DEF MemoriaNoCae
  <2>. QED
    BY <1>1, <2>1, <2>4, <2>5, <2>6, <2>7, <2>8, QuienMata
<1>. QED
  BY <1>2, <1>3

-----------------------------------------------------------------------------
\* The theorems.

\* Whatever is replaced, suspended or taken, the frame of a present page of a process that can
\* be trusted is marked, its own, and the frame of no other present page
\* (solicitar_frame_en_ppal, traer_pagina_a_mp, ejecutar_algoritmo_reemplazo).
THEOREM MarcoSiemprePropio == Spec => []MarcoPropio
<1>1. Paginado => MarcoPropio
  BY PaginadoMarcoPropio
<1>. QED
  BY <1>1, PaginadoSiempre, PTL

\* No write of such a process is ever lost: its pages are in memory or in swamp
\* (tirar_a_swap, traer_de_swap, set_modificado).
THEOREM PaginaSiempreRecuperable == Spec => []PaginaRecuperable
<1>1. Paginado => PaginaRecuperable
  BY PaginadoRecuperable
<1>. QED
  BY <1>1, PaginadoSiempre, PTL

\* Its requests read and write the frames its pages are in, whatever the TLB answered and
\* whatever was replaced meanwhile (buscar_pagina, memread, memwrite).
THEOREM LecturaSiempreCorrecta == Spec => []LecturaCorrecta
<1>1. Paginado => LecturaCorrecta
  BY PaginadoLectura
<1>. QED
  BY <1>1, PaginadoSiempre, PTL

\* With fixed assignment the TLB says of its pages where they are
\* (actualizar_tlb, reemplazar_FIFO, desreferenciar_pag_tlb).
THEOREM TLBSiempreFiel == Spec => []TLBFiel
<1>1. Paginado => TLBFiel
  BY PaginadoTLBFiel
<1>. QED
  BY <1>1, PaginadoSiempre, PTL

\* memoria only runs out of victims, of pages or of TLB entries after a page was given back,
\* after a suspension, or with requests that overlap (algoritmo_CLOCK_M, memread, reemplazar_FIFO).
THEOREM MemoriaNuncaCae == Spec => []MemoriaNoCae
<1>1. Init => MemoriaNoCae
  BY DEF Init, MemoriaNoCae
<1>2. Paginado /\ MemoriaNoCae /\ [Next]_vars => MemoriaNoCae'
  BY MemoriaNoCaeSigue
<1>. QED
  BY <1>1, <1>2, PaginadoSiempre, PTL DEF Spec
=============================================================================
