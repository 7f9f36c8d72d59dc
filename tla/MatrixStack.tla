----------------------------- MODULE MatrixStack -----------------------------
(***************************************************************************)
(* The matrices of the Fast3D state in rsp.c.  A matrix is the sequence of *)
(* the names it is a product of, row vectors first; the product used for   *)
(* vertices is kept until something marks it dirty.  The lights are here   *)
(* too, because a vertex is lit with the model matrix when it is loaded.   *)
(***************************************************************************)
EXTENDS Integers, Sequences, SequencesExt, FiniteSets

CONSTANTS
    Matrix, Camera, \* names of model and projection matrices in RDRAM
    MaxModel,       \* entries of g_mtx_model
    MaxLights,      \* directional lights
    MaxProduct      \* bound of the model: factors of a product

ASSUME MatrixAssumption == MaxModel \in Nat \ {0} /\ MaxLights \in Nat /\ MaxProduct \in Nat

VARIABLES
    projection, model, top,     \* g_mtx_projection, g_mtx_model, g_mtx_model_i
    combined, dirty,            \* g_mtx_combined, g_mtx_sujo
    lightCount, lights,         \* g_num_luzes, the valid entries of g_luz
    lit,                        \* the lights that lit the last vertex
    ideal,                      \* history: the stack without a bound
    pushLost                    \* history: a push found the stack full

mtxVars == <<projection, model, top, combined, dirty, lightCount, lights, lit, ideal, pushLost>>

Identity == <<>>

MtxInit ==
    /\ projection = Identity
    /\ model = [i \in 0 .. MaxModel - 1 |-> Identity]
    /\ top = 0
    /\ combined = Identity /\ dirty = TRUE
    /\ lightCount = 0 /\ lights = {}
    /\ lit = {}
    /\ ideal = <<Identity>> /\ pushLost = FALSE

Products == UNION {[1 .. n -> Matrix \cup Camera] : n \in 0 .. MaxProduct}

MtxTypeOK ==
    /\ projection \in Products /\ model \in [0 .. MaxModel - 1 -> Products]
    /\ top \in 0 .. MaxModel - 1
    /\ lightCount \in 0 .. MaxLights /\ lit \subseteq lights /\ lights \subseteq 0 .. MaxLights

\* The last of the unbounded stack, which the bounded one should show.
IdealTop == Last(ideal)

\* mtx_mult: the new matrix is applied first.
Times(new, old) == <<new>> \o old

LoadProjection(m, load) ==
    /\ load \/ Len(projection) < MaxProduct
    /\ projection' = IF load THEN <<m>> ELSE Times(m, projection)
    /\ dirty' = TRUE
    /\ UNCHANGED <<model, top, combined, lightCount, lights, lit, ideal, pushLost>>

\* mtx_carregar of the model: a push duplicates the top, unless it is full.
PushTop(push) == [new |-> IF push /\ top < MaxModel - 1 THEN top + 1 ELSE top, from |-> model[top]]

LoadModel(m, load, push) ==
    LET p == PushTop(push) IN
    /\ load \/ (Len(p.from) < MaxProduct /\ Len(IdealTop) < MaxProduct)
    /\ model' = [model EXCEPT ![p.new] = IF load THEN <<m>> ELSE Times(m, p.from)]
    /\ top' = p.new
    /\ dirty' = TRUE
    /\ LET now == IF load THEN <<m>> ELSE Times(m, IdealTop)
       IN  ideal' = IF push THEN Append(ideal, now) ELSE [ideal EXCEPT ![Len(ideal)] = now]
    /\ pushLost' = (pushLost \/ (push /\ p.new = top))
    /\ UNCHANGED <<projection, combined, lightCount, lights, lit>>

\* Variant: the product is still the one of the matrix taken away.
PopKeepsProduct(units) ==
    LET n == IF units = 0 THEN 1 ELSE units IN
    /\ top' = IF n > top THEN 0 ELSE top - n
    /\ UNCHANGED dirty

\* mtx_popar: `units` matrices of 64 bytes, one for zero, none below the first.
Pop(units) ==
    LET n == IF units = 0 THEN 1 ELSE units IN
    /\ top' = IF n > top THEN 0 ELSE top - n
    /\ dirty' = TRUE

PopMatrix(units) ==
    /\ Pop(units)
    /\ LET n == IF units = 0 THEN 1 ELSE units
           left == Len(ideal) - n
       IN  ideal' = SubSeq(ideal, 1, IF left < 1 THEN 1 ELSE left)
    /\ UNCHANGED <<projection, model, combined, lightCount, lights, lit, pushLost>>

\* f3d_carregar_luz and G_MW_NUMLIGHT; the entry after the last is ambient.
LoadLight(n) ==
    /\ n \in 0 .. MaxLights
    /\ lights' = lights \cup {n}
    /\ UNCHANGED <<projection, model, top, combined, dirty, lightCount, lit, ideal, pushLost>>

SetLightCount(n) ==
    /\ lightCount' = IF n > MaxLights THEN MaxLights ELSE n
    /\ UNCHANGED <<projection, model, top, combined, dirty, lights, lit, ideal, pushLost>>

\* f3d_iluminar_vertice: the lights that count; of an entry never loaded nothing.
Lit == {n \in 0 .. lightCount : n \in lights}

\* mtx_combinar
Product == IF dirty THEN model[top] \o projection ELSE combined

\* G_VTX: mtx_transformar_vertice multiplies by the product of now.
LoadVertex(lighting) ==
    /\ combined' = Product
    /\ dirty' = FALSE
    /\ lit' = IF lighting THEN Lit ELSE {}
    /\ UNCHANGED <<projection, model, top, lightCount, lights, ideal, pushLost>>

\* Until a push was lost, a vertex would be transformed by what the stack of
\* the game holds, projection included: the kept product is never out of date
\* and a pop gives back the matrix of before the push.
VertexByStack == ~pushLost => Product = IdealTop \o projection
=============================================================================
