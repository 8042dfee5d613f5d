# ServiLocal in TLA+

ServiLocal is a marketplace of local services: a NestJS API over PostgreSQL, Redis and
Stripe (`src/backend`), and a Next.js site (`src/frontend`). This directory holds TLA+
modules translated from its source, the TLC configurations that check them and the TLAPS
proofs about them. Names are the source's, in Spanish as there.

## Inventory

| part | state it keeps | operations | talks to | hard behaviour | correct when | modelled by |
|---|---|---|---|---|---|---|
| Bookings (`bookings.service.ts`, `common/calendario.ts`, the booking form) | booking row: status, date, duration | `create`, `updateStatus`, `caducarPendientes` | payments inside its transaction, notices after it | concurrent changes, the provider's calendar, requests nobody answers, a form painted before the rates changed | a charged booking is a completed one; confirmed bookings do not overlap; nothing waits for ever; a refusal has a cause | `CobroReservas`, `Calendario`, `Reservar`, `NoticiasReserva` |
| Payments (`payments.service.ts`, webhook, payment page) | payment row: status, intent, `paidAt`, refusal | `createPaymentIntent`, `confirmPaymentHold`, `capturePayment`, `refundPayment`, `cobrarAlCompletar`, `liberarRetencion`, `handleWebhookEvent`, `revisarRetenciones` | Stripe, which a rollback does not undo | lost answers, retries, late webhooks, crashes between Stripe and the commit, several tabs | one hold, one charge, rows that tell the truth, holds always released or captured, a page that says what happened | `CobroReservas`, `PaginaDePago` over it (partly) |
| Hourly jobs (`programador-*.ts`) | timers | review of holds, expiry of requests | the two above | rows in use | what failed is finished | `CobroReservas` |
| Administration (`admin.service.ts`, `auditoria.service.ts`, the panel) | audit entries | figures, series, history, payments to look into | reads every table | many queries without a transaction, figures asked for apart | parts add up, nothing is skipped, what was done is seen done | `Agregados`, `Pantallas`, `CobroReservas` (partly) |
| Reviews (`reviews.service.ts`) | reviews and the service's average | create, answer, report, dismiss, delete | services, which save the average they read | rows read and saved whole, without a transaction | the average is the reviews', no review is taken for another | `Valoraciones` |
| Messages and their page | conversations, messages, the open thread | send, reply, list, mark read, poll | advisory lock, socket | first messages at once, the thread read while messages arrive | one conversation per pair, lists that agree, nothing left unseen | `Conversaciones` |
| Real time (`tiempo-real.gateway.ts`, `socket-mensajes.ts`) | the room of each person, the socket of each tab | connect, ask for a pass, join, refuse, drop | sessions | what is emitted while a tab is out of its room is not sent again | whoever is in the room hears | `TiempoReal` (partly) |
| Sessions and passwords (`auth/`) | `sesionesDesde`, closed tokens, recovery links | sign in, change, ask for a link, recover, close | Redis, mail | issue while revoking, truncated seconds, links used at once | a session is as good as its password | `Cuentas` |
| Accounts (`users.service.ts`) | user row | profile, moderation, deletion, download | services, bookings | rows read and saved whole, count and then write | what was deleted stays so; a download has all and only one's own | `Cuentas`, `Servicios`, `Descarga` |
| Account brake (`freno-de-cuentas.ts`), throttler | counters in Redis or memory | check, count, forget | Redis | Redis fails halfway | the limit holds, and ends | `FrenoCuentas` (partly) |
| Cache (`cache.service.ts`), categories | Redis keys | `recordar`, `olvidar` | database | invalidation while filling | stale for a bounded time | `Categorias` |
| Services (`services.service.ts`) | service row | publish, edit, withdraw, delete | bookings, demo | check, then act; two editions at once | no booking of nobody; a price can be paid | `Servicios`, `Reservar` (partly) |
| Search (`findAll`, `buscador.tsx`, `lib/busqueda.ts`) | the address of the page | filter, order, page, go back, ask again | API | answers out of order, ties between pages, a cached first answer | the page shows what its address asks for; no service twice | `Busqueda` |
| Assistant and budget (`ia/`) | monthly usage | `hayMargen`, `registrarExito`, `interpretar`, the ladder of searches | an AI provider, the search | checks before, charges after; the catalogue changes | spending bounded; what it says it searched by is true | `PresupuestoIa`, `Asistente` |
| Demo (`demostracion/`) | demo rows | hourly restore | all tables | visitors meanwhile | the demo returns to its picture | `Servicios`, `NoticiasReserva` (partly) |
| Notices, audit, mail | notices, entries | create, list, mark read, tell of a change | socket, mail | written after the commit, one by one; the list against the socket | each party is told; the bell agrees with the table | `Campana`, `NoticiasReserva` (partly) |
| The browser (`auth-store.ts`, `borrador.ts`, `carga.ts`) | cookie, who is remembered, drafts, screens | load, sign in and out, check, reload, act | API | an API that sleeps, several tabs, answers late | the last thing done prevails; nobody waits for ever | `Sesion`, `Pantallas` (partly) |
| Filters, guards, interceptors, logs, health, seeds | none | | | | | not modelled |

`PROJECT.json` says of each what is left out, and lists the hazards with their lines.

## Plan

1. *Done.* Money (`EstadosDePago`, `CobroReservas`, `PromesaReserva`), the agenda
   (`Calendario`), reviews (`Valoraciones`).
2. *Done.* Messages, real time and the bell; accounts, sessions and links; the brake, the
   cache, the budget, the life of a service and the demo; the session of the browser, the
   search, the assistant and the screens; the form of a booking and the rates; the figures
   and the download; the payment page; who is told of a change.
3. *Done.* Theorems: every type invariant and safety property the runs check, for the
   specification each run checks, and the refinement.
4. *Left to model*: the Redis adapter that joins several instances of the socket server,
   the restoration of the other tables of the demo, the Stripe customer of an account.

## Modules

| module | what it is |
|---|---|
| `EstadosDePago` | the status tables: `TRANSICIONES` for webhooks, `REFLEJOS` for queries, what an intent's status means, the changes of a booking |
| `CobroReservas` | one booking, its payment row, its intents at Stripe; every handler and job that touches them |
| `PromesaReserva` | what the client and the provider are promised: the abstract specification |
| `Calendario` | several bookings of one provider and the exclusion constraint |
| `PaginaDePago` | the page that pays, in several tabs: its calls are requests of `CobroReservas`, which it extends |
| `NoticiasReserva` | who is told of each change of a booking, and who may see it |
| `Reservar` | the rates of a service, their editions, and the form that books it |
| `Valoraciones` | the reviews of a service and its average |
| `TiempoReal` | the connection of each tab to its room; extended by the two next |
| `Conversaciones` | the messages of a pair, and the tabs that show them |
| `Campana` | the notices of a person, and the bell of each tab |
| `Cuentas` | one account: row, sessions, recovery links |
| `FrenoCuentas`, `Categorias`, `PresupuestoIa` | the brake, the cached tree, the budget |
| `Servicios` | a service, its owner and its bookings; the demo |
| `Descarga` | what a person downloads of the platform |
| `Agregados` | the figures of the administration and its history |
| `Sesion` | the session as one browser sees it, and the drafts |
| `Busqueda`, `Asistente` | the search, and the search in one's own words, which extends it |
| `Pantallas` | the screens that load, act and load again |
| `MCCobro`, `MCPago` (which extends it), `MCCalendario`, `MCValoraciones`, `MCConversaciones`, `MCCuentas`, `MCPlataforma`, `MCNavegador` | instances for TLC |
| `CobroReservas_proofs`, `Calendario_proofs`, `Conversaciones_proofs`, `Campana_proofs` | theorems about the module they are named after, the first also about `PromesaReserva` and `PaginaDePago` |
| `Valoraciones_proofs` | about `Valoraciones`, `NoticiasReserva` and, with the bell, `MCValoraciones` |
| `Cuentas_proofs` | about `Cuentas`, `Reservar`, `Descarga`, `Agregados` and all four as `MCCuentas` runs them |
| `Plataforma_proofs` | about `FrenoCuentas`, `Categorias`, `PresupuestoIa`, `Servicios` and `MCPlataforma` |
| `Navegador_proofs` | about `Sesion`, `Busqueda`, `Asistente`, `Pantallas` and `MCNavegador` |

Operators whose comment begins with "Bug:" are altered forms of the next definition: with
each in its place, TLC finds one property violated, which is how the properties are known
to say something. No specification uses them.

An MC module that extends several components runs one of them per behaviour (`parte`):
they share no state, so the states to visit are their sum and not their product. Where
components do share state they are one specification: `Conversaciones` and `Campana` have
the steps of `TiempoReal` among theirs, `Asistente` those of `Busqueda`, `PaginaDePago`
those of `CobroReservas`, and `NoticiasReserva` takes the tables of `EstadosDePago`.

### CobroReservas

One booking is enough: two bookings share no row, no intent and no key. The database is
`reserva`, `pago` and one lock per row; Stripe is `intencion` (each intent's status),
`clave` (the idempotency key it was made with), `retenidas` and `devueltas`; `entregadas`
are the intents the browser may pay. A process is a request, a webhook or a run of an
hourly job; `tarea` is the operation it serves, `pc` the point it is at and `mem` its copy
of the payment row.

A handler is cut exactly where another can get in: a row lock, a call to Stripe, a commit.

| code | actions |
|---|---|
| `updateStatus` | `Confirmar`; `CambiarEstado`, `BloquearPago`, then the actions of `liberarRetencion` or `cobrarAlCompletar`, `Guardar` |
| `caducarPendientes` | `Caducar`, then as a cancellation |
| `liberarRetencion` | `ConsultarAlSoltar`, `ConsultaFallidaAlSoltar`, `CancelarAlSoltar`, `CancelacionFallida` |
| `cobrarAlCompletar` | `ConsultarAlCobrar`, `CapturarRetencion`, `CapturaRechazada` |
| `capturePayment`, `refundPayment` | `Capturar`, `Reembolsar`, `DevolverCobro` |
| `createPaymentIntent` | `IniciarPago` (booking locked, payment only read), `ConsultarAlPagar`, `CrearIntencion`, `EscribirPago` |
| `confirmPaymentHold` | `ConfirmarRetencion`, `ConsultarAlConfirmar`, `Guardar` |
| `handleWebhookEvent`, `marcarPago`, `markPaymentFailed` | `AvisoRetenida`, `AvisoCobrada`, `AvisoCancelada` |
| `resolverRetencionTardia` | `Resolver`, then as a release or a capture |
| `revisarRetenciones`, `revisarRetencion`, `renovar`, `soltar` | `RevisarRetenida`, `BloquearAlRevisar`, `ConsultarAlRevisar`, `Renovar`, `NoRenovable`, `GuardarYSoltar`, `SoltarVieja` |
| `conciliar` | `Conciliar`, `ConsultarAlConciliar`, `Guardar` |
| `lock_timeout`, Stripe errors, crashes | `EsperaAgotada`, `FalloDeStripe`, `Caida` |

`Caida` is a dead process, a lost connection or a lost answer: the transaction is undone
and what Stripe did stays done. Webhooks need no queue: an event that has happened may be
delivered whenever the state says it happened, so it can be late, repeated or missed.

Outside the program, modelled from how the code uses it: the client paying an intent,
Stripe expiring a hold, `create` with a key, `cancel`, and the clock.

Abstracted: amounts; who may ask for what; the four statuses in which an intent can still
be paid are one (`pagable`); `paidAt` is "never, recent or four days old", and turns old
only for the hold the row names. Left out: notices and audit, written after the commit
(`NoticiasReserva`); the reason of a refused card; the Stripe customer (`clienteDeStripe`);
the eight days `conciliar` looks back; the twenty-four hours Stripe remembers a key; an
intent `renovar` creates and drops at once because it is not on hold (it ends as
`NoRenovable`). TypeORM's `save` compares the
entity with the row as it is by then and writes what differs, so its effect is that of
writing the whole copy.

### Calendario

A transaction that accepts a booking holds that booking's row, so it is named by it. `tx`
goes through the date check, the query for overlaps (`horarioOcupado`, which sees what is
committed), the `UPDATE` whose entry in the constraint's index others see before its
commit, the constraint's own check and the commit. An entry that meets one not yet
committed waits for it; PostgreSQL aborts one of two that wait for each other, and
`lock_timeout` ends the wait otherwise. Time is a counter up to `Horizonte`; one provider,
since the constraint compares bookings of the same one. Money is `CobroReservas`'s.
`ConRestriccion` is FALSE for a database on which the migration could not create it.

### Valoraciones

The reviews of one service, one at most per completed booking, and the average and count
kept in the service's row. A request (`peticion[p]`) holds what it has read: the review
with its change (`fila`) or the service's average (`servicio`).

| code | actions |
|---|---|
| `create` | `Valorar`, `Insertar` or `ChocaLaReserva` (the unique index), then the average |
| `addProviderResponse`, `reportReview`, `dismissReport` | `Responder`, `Denunciar`, `Descartar`, then `save` |
| `save` of a review | `Comparar`, then `Escribir`, `Reinsertar` or `ChocaLaReserva` |
| `deleteReview` | `Borrar`, `Quitar`, then the average |
| `updateServiceRating` | `LeerMedia`, `EscribirMedia` |
| `services.update` | `EditarServicio`, `CotejarServicio`, `GuardarServicio` |

`save` is TypeORM's: it reads the row again by its identifier, writes the columns in which
what was read and changed differs from it (`Mezcla`), and inserts when there is no row.
Between the two, and before them, others get in. `isReported` and `reportReason` change
together and are one field; texts are left out, and an answer is that there is one. Notices
and audit entries come after: that a reason is copied is said of the dismissal that holds
it. `enFila` is a history variable: no two requests have coincided and none was cut short.

### PaginaDePago

What a tab has (`mostrador`) is the page's state: the booking as it was read, the intent it
was given and what it said. Its calls to the API are not steps of their own: a tab is a
request of `CobroReservas` (`Tiendas` is a subset of `Peticiones`), which reads, asks Stripe
and saves where that module cuts it, with the other requests, the webhooks and the review,
whose renewal is also several steps, in between.

| code | actions |
|---|---|
| `PaymentPage`'s `init`, `refreshIntent` | `AbrirPago` reads the booking; `PedirIntento` begins the call |
| `createPaymentIntent`, as the page waits | `SePideElIntento` (a step of the request), then `LlegaElIntento` or `NoHayIntento` |
| `CheckoutForm.handleSubmit` | `PagarEnStripe`, `IntentoCaducado`, `PedirConfirmacion` |
| `confirmPaymentHold`, as the page waits | `SePideConfirmar`, then `Confirmada` or `NoSeConfirma` |
| no answer, or one that refuses at once | `SinContestar`: the request, if it began, goes on without the page |
| everybody else | `LoDemas`: any step of `CobroReservas` but those of a request a tab waits for |

`bien` says that the call will be answered as the page wishes, whatever its request does
afterwards: `createPaymentIntent` answers with the intent it found payable, and
`confirmPaymentHold` says yes once what Stripe says is written, although resolving a late
hold then fails. A card refused, or an answer of Stripe that is lost, leaves the form as it
was; the second is `ClientePaga` by itself. A tab makes one call at a time, as the page does:
reloading it is another tab.

### NoticiasReserva, Reservar

`NoticiasReserva`: a change commits (`PedirTramite`, `CaducarReserva`); then the booking is
read again (`ReleerReserva`), each notice is written on its own (`AvisarAUno`), a change of
the moderation goes into the history (`AcabarDeAvisar`), and any of that may fail
(`TramiteCortado`). Who may see a booking and its payment (`PuedeVerla`, `PuedeVerSuPago`,
`EnSusListas`) is translated query by query, with the world of the demo.

`Reservar`: `services.update` is read and merged (`FundirEdicion`), compared and saved column by
column (`CotejarEdicion`, `GuardarEdicion`), twice at once; the form is painted
(`AbrirFicha`), written (`Escribir`) and sent (`EnviarFicha`), and `create` looks at the
service, at the parties, at the price, at the date and at the slot, one after another, in
the order of its early returns. An hour is an instant; a day has `Horas` of them.

### TiempoReal, Conversaciones, Campana

A tab's `enlace` goes from an attempt with or without a pass (`Conecta`, `ConectaSinPase`)
to being accepted, which the tab takes for connected, to the room (`EntraEnSala`) or to a
refusal (`Rechaza`); the network cuts it (`Corta`), or the server does when the session is
closed (`Desconecta`). What is emitted reaches the tabs in the room at that moment.

| code | actions |
|---|---|
| `sendMessage`, `findOrCreateConversation` | `Escribir`, `TomarCerrojo`, `Buscar`, `Crear`, `GuardarMensaje`, `Apuntar`, `Avisar` |
| `replyToConversation` | `Responder`, then from `GuardarMensaje` |
| a crash | `SeRompe` |
| `recargar`, the polling | `Recargar`, `LeerHilo`, `MostrarHilo`, `FallarHilo` |
| `marcarLeidos`; the socket | `ServirMarca`; `LlegaMensaje` |
| `crear`; `listar`; the bell | `GuardarAviso`, `EmitirAviso`; `LeerLista`; `MostrarLista` (`FundeLista`), `LlegaAviso`, `MarcarTodos`, `AbrirAviso`, `ServirTachado`, `TachadoFallido` |

### Cuentas, Servicios, Descarga

`Cuentas` has one row, its tokens and its links. A request holds what it has read:
`cambiarContrasena` computes for long (`Calcular`) before it writes; `restablecer` spends
its link and then the rest, in a transaction whose wait may close a circle (`Deshacer`);
`update` and `toggleActive` read, compare and save the columns that differ (`GuardarPerfil`,
`Moderar`, `Comparar`, `GuardarFila`). The clock has ticks within a second, because the
`iat` of a token is truncated and `sesionesDesde` is moved to the next second for it.

`Servicios`: `PedirReserva` to `GuardarReserva` against `ContarAbiertas` to
`RetirarServicio` and `EliminarDueno` to `AnonimizarDueno`; an edition read before either;
`Restaurar`, each hour, in one transaction. `Descarga`: nine queries, five at once and four
in turn, two of which start from what an earlier one found, over rows that come and go.

### FrenoCuentas, Categorias, PresupuestoIa

The brake: `ComprobarFreno`, the comparison of the password, then `Incrementar`,
`MirarCaducidad` and `Caducar`, three calls each of which Redis may not answer
(`AnotarSinRedis`: the instance's memory). The cache: `BuscarCopia`, `CalcularArbol`,
`GuardarCopia` against `EscribirArbol` and `OlvidarCopia`. The budget: `Preguntar` asks for
the margin with the most a call can cost; `Completar`, `RegistrarExito`, `Entender`,
`RegistrarFallo`, `BuscarSinModelo`. Two things are taken as given: a call costs no more
than `costeEstimadoMaximo`, as long as the provider counts tokens as the code does; and a
call that timed out is noted with cost 0, as the code does, whatever the provider charges.

### Sesion, Busqueda, Asistente, Pantallas

`Sesion`: the cookie and who is remembered are the browser's; `pestana` is what each tab
shows. A sign-in is served (`ServirEntrada`), its answer sets the cookie (`LlegaEntrada`), and
only then does the promise's continuation write who is in (`Entrar`): between the two the
cookie is of one and the tab shows another. So for `ServirSalida` and `LlegaSalida`, and for
`ServirComprobacion` and `Comprobar`. A tab that is told of a change by the storage loads
again (`AtenderAviso`), and nothing orders that notice with the answers the tab waits for,
neither in the model nor in a browser: an answer is dropped only if `generacion` of *its
tab* has changed (auth-store.ts:213, 228). `loadFromStorage` runs again on each protected
page (`Pasar`) and on the page that books (`AbrirReserva`), and shows who is remembered
without asking.

What that leaves open in the code, and the properties allow for by name:

- An answer that comes to a tab before it hears that another signed out puts the account
  back in localStorage, until the tab that left loads again and asks. So who left is
  nowhere in *in the end* (`LoUltimoVale` and `LasPestanasCoinciden` are of what is so for
  ever from some moment on), and not at every moment.
- A tab that opens a page before it hears of the other one, or whose answer is of another
  account than it shows, goes straight to that account with what it had, and nobody asks
  again: it is in `cruzadas`. What is written there may be of the account of before.
- A draft is kept under who is in when the 401 comes, which may not be who wrote it
  (`SesionCaducada`; also `cruzadas`); with nobody in, under no account, and nobody
  recovers it.
- A sign-out whose call is not answered, or is cut off by a reload, leaves the cookie.

Several notices a tab has yet to hear are one in `avisadas`: the first it attends looks at
what is remembered by then, and the others find that it is so.

`Busqueda` has the page's address and history, what it has asked for, and the API's query
as sets: which services match (`Casa`), every order the database may give (`EnOrden`), a
page of it (`Trozo`) and a count that stops at a ceiling (`Contados`), which is another
query. The answer arrives (`Llega`) if it is still for the address on screen. `Asistente`
reads the message with the model or with the dictionary, and goes down a ladder of searches
(`Escalera`), each a query of `Busqueda`.

`Pantallas` is a table of what each screen may do (`Secciones`) and one machine, `useCarga`
with the handlers: ask, read, arrive or not, act, load again. A button is there when its list
is, but for the forms of the provider's services, which are drawn instead of the list
(`FormularioAparte`). What the API reads is what there is; the administration's list of
categories comes from the copy in Redis, so that what `LoHechoSeVe` says of it is as current
as `LaCopiaCuadra`, with its exceptions, says of that copy.

### Agregados

Nineteen queries at once (`Consultas`), each read when its turn comes, over one table per
behaviour; the series of weeks is completed after them, when the week may have turned
(`CompletarSemanas`). The audit list is read in pages from its top while entries are added.

## Runs

| run | bounds | checks |
|---|---|---|
| `CobroConcurrente` | 2 requests, 1 job, 3 intents, 1 renewal, 1 error, 1 crash | `SoloRenovarDejaHuerfanas`, `NuncaDosCobros`, `LoAnotadoOcurrio`, `SinEsperaCruzada` |
| `CobroPromesa` | 3 intents, 1 renewal, no crash, in two parts: 2 requests and 1 job, 2 errors; and 1 tab with the payment page, 1 request that pays, confirms, completes or cancels, and the review, without errors | `CumpleLaPromesa`: the program implements `PromesaReserva`; `PagarCuadra` |
| `CobroPendiente` | 1 request, 1 job, 2 intents, 1 renewal, 1 error, 1 crash | `LosTrabajosAcaban`, under fairness |
| `CobroDobleRetencion` | 1 request, 1 job, 3 intents, no failure | violated: `UnaSolaRetencion` |
| `CalendarioSolapes` | 3 bookings, durations 1 and 2, instants 0 to 2 | `SinSolapes`, `TodaConfirmacionTermina` |
| `ValoracionesEntrelazadas` | 2 bookings, 6 requests, 2 at once, 3 reviews, 1 cut short; 2 of 3 changes at once, 2 notices lost; the bell of 1 tab with 2 lists asked for at once and 1 cut, in two parts: 4 notices in lists of 2 that nobody reads, and as many as a list holds, read, with 1 call that fails | `LaMediaCuadra`, `CadaIdUnaValoracion`; `LasNoticiasCuadran`; `LaCampanaCuadra` |
| `ConversacionesEnVivo` | 1 tab, 2 sends at once, 2 messages, 1 crash, 1 cut, 1 request unanswered | `UnaPorPareja`, `LaListaCuadra`, `LaRedDeSeguridad` |
| `ConversacionIncompleta` | the same, and nothing fails | violated: `ElHiloSeCompleta` |
| `CuentaCompartida` | 2 requests at once, 5 in all, seconds of 2 ticks, sessions of 2 seconds, 5 instants, 2 tokens, 2 passwords, 3 links; 2 editions, 1 booking, days of 2 hours; 2 rows of each kind, 2 weeks, 1 change; 10 rows, 2 writes | `SoloLaClaveDeHoy`, `LosEnlacesCuadran`; `ReservarCuadra`; `ElPanelCuadra`; `LaDescargaCuadra` |
| `CuentaRecobrada` | the same | violated: `LoEliminadoNoVuelve` |
| `Plataforma` | 2 instances, 2 attempts, 4 ticks, 2 failures of Redis; 2 readings, 2 writings; 2 of 4 questions at once; 2 of 4 requests on a service, 2 bookings | `ElFrenoCumple`; `LaCopiaCuadra`, `LaCopiaAlcanza`; `ElPresupuestoCuadra`; `LaRetiradaCuadra`, `LaDemostracionVuelve` |
| `Navegador` | 2 accounts, 2 sessions, 1 sign-out, in four parts: 1 tab, with 1 reload, 1 session closed and 1 call unanswered; and 2 tabs that both go in, or with a draft in one and a sign-out in either, or with 1 session closed while a booking is sent; 3 services in pages of 1, 2 addresses, 2 requests at once, 1 change; 2 messages; every screen, 2 buttons, 1 change of others | `LoUltimoVale`, `LasPestanasCoinciden`, `ElBorradorEsSuyo`; `LaBusquedaCuadra`, `LaBusquedaContesta`; `ElAsistenteCuadra`; `LoHechoSeVe`, `NadieEsperaSiempre` |

Every run but the violated ones, `CobroPromesa`, `CobroPendiente`, `CalendarioSolapes` and
`ConversacionesEnVivo` also checks the types of its parts.

What the properties say, one by one:

- `SoloRenovarDejaHuerfanas`, `NuncaDosCobros`: a hold the row does not name comes from a
  renewal; no booking is charged twice. `LoAnotadoOcurrio`: "charged" and "refunded" are
  true of Stripe. `SinEsperaCruzada`: nobody waits crosswise for booking and payment.
- `LosTrabajosAcaban`: the hold of a cancelled booking is released and that of a completed
  one captured, a charge ends up in its row, an unanswered request expires.
- `PagarCuadra`: nobody is offered to pay again what is paid: a form that can still be paid
  is of the intent the row names, with no other charged nor held, save by a renewal
  (`NoSePagaDosVeces`); what the page said was paid was, and no request, having read the row
  before, leaves it waiting again (`LoDichoConsta`); a form that announces a hold charges at
  once only if the booking was completed since (`LoAnunciadoVale`). It does not say that what
  is paid is what the row names: `CobroDobleRetencion` shows that a renewal that meets the
  page leaves a hold no row names.
- `LasNoticiasCuadran`: notices tell, once, of what somebody else did; both parties learn
  of the last change, save what the moderation accepts, rejects or completes; the history
  has what the moderation did and nothing else; lists, notices and pages let the same people in.
- `CadaIdUnaValoracion`, `LaMediaCuadra`: reviews are never confused; one request at a
  time, the average is theirs.
- `UnaPorPareja`, `LaListaCuadra`: one conversation per pair; with no send cut short, the
  list has every message's conversation and, if sends did not coincide, its last message.
  `LaRedDeSeguridad`: a tab that never gets its socket back sees the whole thread.
  `LaCampanaCuadra`: a bell with nothing on its way, that has shown a list read from its
  room, has the last notices, and shows as read what is. The first half supposes notices
  created one at a time and, with more of them than a list holds, no list shown before
  another read earlier (`adelantadas`). The corner left out is in the code: with lists of
  two, 1 is in a list that comes late and 3 and 2 in the next, shown first; 1 arrives by
  the socket and takes 2 off the end; the late list is shown, 2 arrives again as new and 4
  takes 3 off. With the real `LIMITE` it needs as many notices on their way at once.
- `SoloLaClaveDeHoy`: a session of an older password does not open, one of today's does, a
  closed one never again. Sessions outlive a change of password by more than the second the
  property exempts, so that it is `sesionesDesde`, and not their expiry, that cuts them off. `LosEnlacesCuadran`: links are spent once and in order, and no
  more are sent than the limit plus those that were being counted.
- `ReservarCuadra`: there is always a price that can be paid; a maximum is below the
  minimum only if two editions crossed; what the form let through is refused only for what
  changed or no form could know.
- `ElPanelCuadra`: parts add up, weeks are those asked for, history skips nothing.
  `LaDescargaCuadra`: a download has all that was there all the while and nothing of others;
  its messages and the reviews received hang from what is in it, because they are asked for
  by what was found. Payments and the reviews written are asked for on their own: the
  booking they hang from is in it, or was written or deleted while the download was read.
- `ElFrenoCumple`: the brake ends, and guesses are bounded. `LaCopiaCuadra`,
  `LaCopiaAlcanza`: the copy is current unless something crossed or failed, and always in
  the end. `ElPresupuestoCuadra`: spending passes the ceiling by no more than the calls
  under way; what is noted is what was paid. `LaRetiradaCuadra`: no open booking of a
  service or professional that left. `LaDemostracionVuelve`: the sown comes back.
- `LoUltimoVale`, `LasPestanasCoinciden`: who left ends up nowhere in; tabs end up agreeing
  with the cookie: if every call is answered and no tab is in `cruzadas`. `ElBorradorEsSuyo`:
  in a tab that is not, what is written in the page that books is of who it shows: with who
  signs in after a session is over, whoever that is. `LaBusquedaCuadra`,
  `LaBusquedaContesta`: the page shows what its address asks for, pages share no service,
  and somebody who searches is answered. `ElAsistenteCuadra`: what it says it searched by
  is true of all it shows. `LoHechoSeVe`, `NadieEsperaSiempre`: what was done is seen done,
  and no screen is left loading.

Several of these name the exception the code leaves open (`pisada`, `cruzada`, `alReves`,
`deUnoEnUno`, `cruzadas`...): history variables that say that two requests coincided, or that a row
read earlier was saved over a later one. Without them the property is false of the code;
the findings say where.

Why the bounds are enough: two requests at once are every pair of operations, with the job,
the clock or a failure in between; one crash and one error are placed at every call and
every commit. Three intents are the first, a renewed one and one created after it. In the
calendar, instants 0 to 2 hold slots that overlap, that touch and that have passed. Six
requests review a booking, delete it, review it again and leave two for what was read
meanwhile. Two messages are one shown and one that arrives while it is. Four notices
in lists of two are a full list, one that arrives at it and one pushed off it, with lists
that overtake each other. Two ticks in a second are the same second and its half. A budget of 3 with
calls of up to 2 lets the first through and the second pass the same check. Three services
in pages of one hold a tie across two pages. Symmetry is over requests in
`CobroConcurrente` and `CuentaCompartida`, and over bookings and requests in
`ValoracionesEntrelazadas`, where nothing tells them apart. Deadlock is checked on
`CobroReservas`; elsewhere the system may stop: nobody is obliged to ask for anything, and
the clock ends.

Fairness. In `CobroReservas` (`Equidad`) a handler that began goes on, because its calls
and waits time out; the job that reviews runs again, because its timer is hourly, and so
does the expiry, strongly, because it has its own timer and tries every hour whatever the
review does. Nothing says a webhook arrives or a request is made; liveness holds once
requests stop (`<>[]EnCalma`). In `Conversaciones` requests end and a tab without a socket
asks every ten seconds. In `Categorias` the copy expires and what began ends; in
`Servicios` the hour strikes and the restoration runs. In `MCNavegador` (`Equidad`) each open
tab, for itself, attends what it hears, finishes loading, and gets its sign-in, its sign-out
and its question answered or given up, because axios has a timeout; a page that has to ask
asks. No fairness orders any of these, and none makes a person act.

Three runs are expected to fail; each is a finding in `PROJECT.json`:

- `UnaSolaRetencion`. The payment page reads the payment unlocked. If the review renews
  the hold then, the page finds the old intent canceled, creates a third and overwrites the
  row; the renewed hold is on the card and in no row, and the client pays again.
- `ElHiloSeCompleta`. A message sent between the reading of the thread and the entry into
  the room is in neither, and the polling stops as soon as the socket is connected.
- `LoEliminadoNoVuelve`. An edition of the profile, read before the account was deleted,
  saves its data back.

Other findings come from building the models and have no run of their own: on a charge
nobody is shown, a held row never reconciled, the calendar without its constraint, a report
erased by an answer, a deleted review that comes back, sessions and drafts of a browser, and on
moderation by a stale list, the order of the search, the counters of the panel, the page
that announces a hold, the length of a password, the last day of the calendar, a maximum
that is not removed, two editions of the rates and the notices of the moderation.
`PROJECT.json` quotes the code and the text of each.
Those on money and reviews are stated in their modules (`ElCargoIndebidoSeVe`,
`LoRetenidoSeConcilia`, `LoDenunciadoSeCopia`, `LoBorradoNoVuelve`) and TLC refutes them,
but they are not among the runs.

## Proofs

TLAPS checks, for every value of the constants that satisfies the assumption of the module:

- `TypeCorrect`: `Spec => []TypeOK`. By itself it is not inductive: a process that asks
  Stripe about `mem.pi` needs it to be an intent. `Tipos` adds that (`SabeDeSuPago`).
- `SinAbrazoMortal`: `Spec => []SinEsperaCruzada`. The invariant (`SinCerrojos`) says which
  locks a process can hold at each point: at `resolver`, none.
- `CobradoVeraz`, `DevueltoVeraz`, and both as `AnotadoVeraz`: the row tells the truth. The
  row alone is not inductive, because it is overwritten with copies made long before. The
  invariant `FilasVeraces` (`SpecFilasVeraces`) says that the row *and every copy* is true,
  and holds because charges, cancellations and refunds are never undone
  (`StripeNoDeshace`): a copy true when made stays true.
- `CalendarioSinSolapes`: with the constraint, `Spec => []SinSolapes`. The invariant counts
  as taken the slot of a transaction the constraint has let through; two slots kept apart
  by the comparison of their ends share no instant (`NoSePisanEsDisjuntos`).
- `CadaIdEsUnaValoracion`: `Spec => CadaIdUnaValoracion`, with any number of requests at
  once. What is in the table is not enough, because it comes back from the requests' hands:
  the invariant (`CadaIdUnDueno`) gives each identifier an owner, a booking and a rating,
  and says that every copy, in the table, read or compared, is of it.
- `LaMediaCuadraEnFila`: `Spec => []LaMediaCuadra`. The invariant (`EnOrden`) says that, one
  request at a time, what it read is still so at each of its steps.
- `SiempreCuadra`: `SpecDePago => []PagarCuadra`, for any number of tabs, requests, jobs,
  intents, errors and deaths. Every step of the page is one of `CobroReservas` or leaves it
  as it was (`PaginaEsCobro`: `SpecDePago => Spec`), so its invariants hold here too (`Base`:
  the types, one live intent at most, `Prometido`, `EnTurno`, which says at what step of which
  operation a request can be, and `NoSeVuelveAPagar`: nobody holds a copy that would put
  what was seen paid back to waiting). Of them follows that nothing a tab has seen is taken
  back by anybody's step (`Firme`), and from that `TiendasEnOrden` (`PaginaInvariante`): what
  a tab has in its hands happened, and the request it waits for is about that.
- `SiempreUna`: `SpecConversaciones => []UnaPorPareja`, for any number of sends. That the
  table has one row at most is kept by the lock (`UnSoloCerrojo`, `DentroConCerrojo`) and
  by the table being empty when a request is about to create (`CreaLaPrimera`).
- `UnSoloCobro`: `Spec => []NuncaDosCobros`, and `SoloQuedanRenovadas`:
  `Spec => []SoloRenovarDejaHuerfanas`. That no two intents are charged is far from
  inductive, because Stripe keeps every intent and anybody may pay one. The invariant
  (`SpecUna`) says that at most one is alive: payable and in the client's reach, on hold
  with no renewal before or after it, or charged; that it is the row's; and, for a request
  or a job about to replace it, that none is. It rests on which rows a process holds at
  each stage (`SpecOrden`).
- `ProgramaCumple`: `Spec` implements `PromesaReserva`, when no process dies halfway and every
  answer of Stripe comes (`MaxCaidas = 0`, as in the run). The hypothesis is needed: a crash
  between a capture and its commit leaves a charge the booking does not know of, which the
  promise does not allow; that it is noted in the end is `LosTrabajosAcaban`. The
  invariant (`SpecPrometido`) says that an operation finds the booking as it left it when it
  locked it.
- `SiempreEnlaces`: `Spec => []LosEnlacesCuadran`. A link is spent after those before it
  because spending one spends them (`EnlacesBien`); and those sent are counted one by one
  against those being counted (`EnlacesContados`).
- `SiempreLaDeHoy`: `Spec => []SoloLaClaveDeHoy`. The inductive invariant is
  `SesionesEnOrden`: nothing is of the future (`DelPasado`); a session of today's password
  began at the mark of the row or later, and at that of any copy still to be saved
  (`NuevaDespues`), which the truncated second makes delicate; one of an older password began
  before every change since, done or on its way, if nobody else was changing it when it was
  given (`ViejaAntes`, `EmiteLaDeHoy`); and only what has expired is swept from the closed
  ones (`CerradasBien`).
- `ReservarSiempreCuadra`: `SpecReservar => []ReservarCuadra` (`ReservarInvariante`). The rates are
  the right way round, in the row and in each copy, unless two editions crossed
  (`TarifasEnOrden`); a form has the rates and the day it was painted with (`FichaAlDia`);
  and time only goes forward (`DiaCrece`), so what was too near stays too near.
- `SiempreCuadraLaDescarga`: `SpecDescarga => []LaDescargaCuadra`, for any rows. What is there
  all the while hangs from what is there all the while, because no two rows have one
  identifier: so whoever starts from an earlier answer finds it (`DescargaEnOrden`); and what
  has been there at some moment hangs from what has been there at some moment.
- `SiempreCuadraElPanel`: `SpecAgregados => []ElPanelCuadra`, for any tables. Of its three
  parts, `SiempreLasSemanas` is of two. The series is asked for from a Monday, and of any
  week that begins since it has all there is (`SerieEntera`); the weeks shown are never
  earlier, because days only pass. Of the history, what has been seen goes without a gap
  from the entry down to which the pages read have come (`HastaDonde`), and what is noted
  meanwhile only moves entries to later pages. The third part, that the counts add up to
  their total, needs that what was answered is what the tables say if nobody wrote since
  (`CifrasDeHoy`); the rest is of the tables themselves, for any finite set of rows: the
  counts by key of a set add up to how many it has, and what the weeks have charged is no
  more than what all has. It takes from `AgregadosOK` that a service has one of the trades
  (`services.categoryId` is not null), that no amount is negative, and that who is reviewed
  is of the world of who reviews (`comprobarMismoMundo`, which every booking passes).
- `FrenoSiempreCumple`: `SpecFreno => []ElFrenoCumple`. What was found wrong is in the key, in the
  memory of some instance, or about to be (`ContadoEnRedis`, `ContadoEnMemoria`), and a key
  without expiry has an attempt that owes it one (`LlaveSinCaducidad`).
- `CopiaSiempreCuadra`: `SpecCategorias => []LaCopiaCuadra`. While nothing crosses or fails,
  whoever is about to store a tree has today's (`PorGuardar`).
- `GastoSiempreAcotado`, `CuentaSiempreCuadra` and both as `PresupuestoSiempreCuadra`:
  `SpecPresupuesto => []ElPresupuestoCuadra`, for any budget, cost and number of questions.
  The first charges each call under way with the most it can cost (`Acotado`), and says
  that with one under way the budget was enough for one (`AlcanzaParaUna`). The second says
  that the cost noted is the sum of the calls noted (`CosteAnotado`), and that each call
  answered is noted, about to be, or one the database failed to write (`LlamadasAnotadas`).
- `RetiradaSiempreCuadra`: `SpecServicios => []LaRetiradaCuadra`. Unless a booking was asked for
  meanwhile, whoever withdraws counted no open booking and there is none (`NadieSeCruza`);
  unless an edition was, nobody holds a copy of what is erased (`NadieLoEdita`).
- `SiempreListada`: `SpecConversaciones => []LaListaCuadra` (`ListaInvariante`). A preview is
  the last message, or what a request has saved and has yet to note.
- `SiempreCuadraLaCampana`: `SpecCampana => []LaCampanaCuadra`. Two invariants.
  `CampanaInvariante` (`CInv`): a list is of the last notices when it was read, a bell shows
  each once, and what it shows as read is read, or being told, or a list is to come that
  puts it right. `CampanaEnOrden` (`AInv`): with room for all, none is missing of a bell and
  what is on its way (`NadaFalta`); one at a time, what it shows is the last that came, or
  a list with some still to come, below those that were not in it (`Sobre`, `Mezclada`): that
  is what a notice that comes twice, and is ignored once, needs.
- `NoticiasSiempreCuadran`: `SpecNoticias => []LasNoticiasCuadran`. Every change is a step of the
  booking, each made once, and whoever was not told of it missed it or is about to be
  (`NoticiasInvariante`).
- `SesionInvariante`: a tab shows who is remembered or is about to hear otherwise
  (`PestanaBien`), and one not in `cruzadas` has nothing of another account (`PestanaPropia`),
  with answers and notices in any order. It gives `QuienSeQuedaAtrasSeEntera`, what
  `LasPestanasCoinciden` rests on; `NadieVuelveASuPestana`: within a tab that was left no
  answer of before has any effect, which is what the code's `generacion` gives (that the other
  tabs follow is `LoUltimoVale`, and is only model-checked); and `SiempreElBorradorEsSuyo`:
  `SpecSesion => []ElBorradorEsSuyo`.
- `SiempreCuadraLaBusqueda`: `SpecBusqueda => []LaBusquedaCuadra`. Whoever asked and is still
  there asked for what is on screen; an address written is read back as it was; and the
  place of a service in the order is how many go before it, so that two pages share none.
- `SiempreCuadraElAsistente`: `SpecAsistente => []ElAsistenteCuadra`. A page not counted yet
  is of the services there were when it was read; the last rung of the ladder is the trade
  and no more.
- `SiempreSeVe`: `SpecPantallas => []LoHechoSeVe`. An answer that counts was read after the last
  change answered as done (`PantallasInvariante`).
- `LoDeLaReservaCumple`, `LaCuentaCompartidaCumple`, `LaPlataformaCumple` and
  `ElNavegadorCumple`: the specification that `MCValoraciones`, `MCCuentas`,
  `MCPlataforma` and `MCNavegador` run implements that of each of its components, whose
  variables the others leave alone; so it has their types (`TiposOK`, `TypeOK`) and all the
  invariants its run checks (not what eventually happens). TLC checks them with each component cut down to what it can
  visit, the theorems for any constants.

Each module has its type theorem (`CalendarioTipos`, `ValoracionesTipos`, `NoticiasTipos`,
`CampanaTipos`, `CuentasTipos`, `PantallasTipos`, `BusquedaTipos`,
`AsistenteTipos`), or its types among its invariant. Those of the browser are not inductive
by themselves: the screens' versions stay within the changes pressed or made by others
(`CambiosContados`, `LoLeidoHaSido`); the search has data on the screen when it says so
because one request at most is waited for (`UnaEspera`, `DatosBien`); and the assistant's
rung is one of the ladder, which has three at most (`TresPeldanos`).

There is no induction over data here, because the library's theorems take an operator as a
parameter and no installed prover can give them one. Where a proof needs the first of
something, it takes a least element of a well-founded order (`ElMenor`); a cardinal grows by one by
the theorems about finite sets. A sum that is kept is not computed but witnessed: the invariant
says that there is a function whose last value is what is noted, and each step extends it.
A sum over a table, as the panel's, is shown of all finite sets by taking one of least size among
those of which it would be false, and a row out of it.

Only model-checked: every liveness property, `LoUltimoVale` and `LasPestanasCoinciden` among them, because fairness and `ENABLED` are out of the
prover's reach. No module uses a RECURSIVE operator: what recurs is a fold of the community
modules, or a recursive function.

## Not modelled

- The filters, guards and interceptors, logs and traces: they translate one request and
  keep nothing. Health checks, seeds and migrations other than the calendar's.
- The throttler, which is the framework's, and the Redis adapter that joins the socket
  servers of several instances: both are libraries, configured and not written here.
- The Stripe customer kept in the user row, amounts, and the signature and routing of the
  webhook.
- Texts of notices and mails, and their sending, which nobody waits for; photographs and
  coordinates of an address; static pages, translations and presentation.
- Of the demo, the restoration of the other tables, which is the same statement on each.
