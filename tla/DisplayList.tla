----------------------------- MODULE DisplayList -----------------------------
(***************************************************************************)
(* desenhar_dl of rsp.c: a display list is drawn command by command, in    *)
(* the lists it calls too, on a state that outlives the task.  What a list *)
(* holds is the game's: a command is chosen when it is read.               *)
(***************************************************************************)
EXTENDS MatrixStack, PixelSamples

CONSTANTS
    MaxLevel, MaxCommands,      \* 8 and 4096 in the code
    Segment,                    \* segment numbers the game uses
    MaxIdeal                    \* bound of the model: depth of the game's stack

ASSUME NestAssumption == MaxLevel \in Nat /\ MaxCommands \in Nat \ {0}

VARIABLES
    calls,          \* per list being drawn, how many commands it has read
    segment,        \* g_segmento: the segments with a base
    inside,         \* the scissor holds the pixel
    texture,        \* g_texture_ligada, and whether this task set it
    scene3D,        \* the task belongs to the scene 12/50
    started3D       \* g_transicao_3d_limpou_tarefa

listVars == <<calls, segment, inside, texture, scene3D, started3D>>
drawVars == <<mtxVars, pixelVars, listVars>>

ListInit ==
    /\ calls = <<>> /\ segment = {} /\ inside = TRUE
    /\ texture = [on |-> FALSE, set |-> FALSE] /\ scene3D = FALSE /\ started3D = FALSE

ListTypeOK ==
    /\ Len(calls) <= MaxLevel + 1 /\ \A i \in 1 .. Len(calls) : calls[i] <= MaxCommands
    /\ segment \subseteq Segment /\ texture \in [on : BOOLEAN, set : BOOLEAN]
    /\ {inside, scene3D, started3D} \subseteq BOOLEAN

Drawing == calls # <<>>
Level == Len(calls) - 1

\* The place of the list being drawn after a command of n words of 64 bits.
NextPlace(n) ==
    [calls EXCEPT ![Len(calls)] = IF @ + n > MaxCommands THEN MaxCommands ELSE @ + n]

Reading == Drawing /\ Last(calls) < MaxCommands
Read(n) == Reading /\ calls' = NextPlace(n)

KeepMtx == UNCHANGED mtxVars
KeepPixel == UNCHANGED pixelVars
KeepTask == UNCHANGED <<segment, inside, texture, scene3D, started3D>>
KeepRest == UNCHANGED <<segment, scene3D, started3D>>

\* func_800CD010: a graphics task that neither turbo nor RT64 takes.
StartTask(is3D) ==
    /\ ~Drawing
    /\ calls' = <<0>>
    /\ inside' = TRUE /\ texture' = [texture EXCEPT !.set = FALSE]
    /\ scene3D' = is3D /\ started3D' = FALSE
    /\ KeepMtx /\ KeepPixel /\ UNCHANGED segment

\* G_ENDDL, the bound of a list, or the end of RDRAM.
EndList ==
    /\ Drawing
    /\ calls' = Front(calls)
    /\ KeepMtx /\ KeepPixel /\ KeepTask

\* resolver_endereco: an address in a segment without a base is no address.
Resolves(s) == s \in segment

\* Variant: a branch goes on in the list it names, as the hardware does.
EnterListJumps(resolved, branch) ==
    IF resolved /\ branch THEN [calls EXCEPT ![Len(calls)] = 0]
    ELSE IF resolved /\ Level < MaxLevel THEN Append(NextPlace(1), 0) ELSE NextPlace(1)

\* G_DL: a target that does not resolve is passed over; a branch ends its own
\* list whether or not it went anywhere, and only after its target has ended.
EnterList(resolved, branch) ==
    LET enters == resolved /\ Level < MaxLevel
        after == NextPlace(1)
        caller == IF branch THEN [after EXCEPT ![Len(after)] = MaxCommands] ELSE after
    IN  IF enters THEN Append(caller, 0) ELSE caller

CallList(s, branch) ==
    /\ Reading
    /\ calls' = EnterList(Resolves(s), branch)
    /\ KeepMtx /\ KeepPixel /\ KeepTask

\* move_word, G_MW_SEGMENT
SetSegment(s, based) ==
    /\ Read(1)
    /\ segment' = IF based THEN segment \cup {s} ELSE segment \ {s}
    /\ KeepMtx /\ KeepPixel /\ UNCHANGED <<inside, texture, scene3D, started3D>>

SetScissor(in) ==
    /\ Read(1)
    /\ inside' = in
    /\ KeepMtx /\ KeepPixel /\ KeepRest /\ UNCHANGED texture
SetTexture(on) ==
    /\ Read(1)
    /\ texture' = [on |-> on, set |-> TRUE]
    /\ KeepMtx /\ KeepPixel /\ KeepRest /\ UNCHANGED inside

Matrices ==
    /\ Read(1) /\ KeepPixel /\ KeepTask
    /\ \/ \E m \in Camera, load \in BOOLEAN : LoadProjection(m, load)
       \/ \E m \in Matrix, load, push \in BOOLEAN :
            (push => Len(ideal) < MaxIdeal) /\ LoadModel(m, load, push)
       \/ \E units \in 0 .. 2 : PopMatrix(units)
       \/ LoadVertex(FALSE)
Lights ==
    /\ Read(1) /\ KeepPixel /\ KeepTask
    /\ \/ \E n \in 0 .. MaxLights : LoadLight(n)
       \/ \E n \in 0 .. MaxLights + 1 : SetLightCount(n)
       \/ LoadVertex(TRUE)
Images ==
    /\ Read(1) /\ KeepMtx /\ KeepTask
    /\ \/ \E b \in Buffer : SetColourImage(b)
       \/ \E b \in DepthBuffer : SetDepthImage(b)
OtherModes(modes) == Read(1) /\ KeepMtx /\ KeepTask /\ \E m \in modes : SetOtherMode(m)
Rectangle == Read(1) /\ KeepMtx /\ KeepTask /\ inside /\ \E v \in Value : FillRect(v)
\* The two commands after TEXRECT are its halves.
SpriteRectangle == Read(3) /\ KeepMtx /\ KeepTask /\ inside /\ \E v \in Value : TexRect(v)

\* With G_TEXTURE off no texel is transparent; what an earlier task left off
\* holds in the scene 12/50 only.
Textured == texture.on \/ (~scene3D /\ ~texture.set)
Triangles ==
    /\ Read(1) /\ KeepMtx /\ inside
    /\ \E mask \in SUBSET Sample, z, v \in Value, opaque \in BOOLEAN :
          (opaque \/ Textured) /\ Triangle(scene3D /\ ~started3D, mask, z, v, opaque)
    /\ started3D' = (started3D \/ scene3D)
    /\ UNCHANGED <<segment, inside, texture, scene3D>>

-----------------------------------------------------------------------------
DrawInit == MtxInit /\ PixelInit /\ ListInit

Command ==
    \/ EndList
    \/ Matrices \/ Lights
    \/ \E s \in Segment, flag \in BOOLEAN : CallList(s, flag) \/ SetSegment(s, flag)
    \/ \E flag \in BOOLEAN : SetScissor(flag) \/ SetTexture(flag)
    \/ Images \/ OtherModes(Mode)
    \/ Rectangle \/ SpriteRectangle \/ Triangles

DrawNext == (\E is3D \in BOOLEAN : StartTask(is3D)) \/ Command

\* The loop of desenhar_dl runs on one thread, without waiting.
DrawSpec == DrawInit /\ [][DrawNext]_drawVars /\ WF_drawVars(Command)

-----------------------------------------------------------------------------
\* Every list that is begun ends, however the lists of the game call each
\* other: themselves, one another, or addresses without a base.
ListEnds == Drawing ~> ~Drawing
=============================================================================
