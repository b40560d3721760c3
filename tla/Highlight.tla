------------------------------ MODULE Highlight ------------------------------
(***************************************************************************)
(* The highlights of the web console (script.js): hlMesh dims a college,   *)
(* gives one mesh a material and an animation of its own and undoes this   *)
(* in a timer, 5 s later.  All calls share the globals mesh and            *)
(* originalMaterial.  The page is single-threaded: a loop of calls runs to *)
(* its end before a timer or a frame is handled.  A material is the mesh   *)
(* it was made for by genMat, or the number of the call that made it.      *)
(***************************************************************************)
EXTENDS Naturals, Sequences

CONSTANTS
    Meshes,         \* the meshes of the scene
    College,        \* their colleges (meshNameToCollege)
    MaxFrames,      \* frames of a camera movement
    MaxHighlights   \* bound: calls of hlMesh

ASSUME MeshAssumption ==
    /\ DOMAIN College = Meshes
    /\ Meshes \cap Nat = {}
    /\ MaxFrames \in Nat \ {0} /\ MaxHighlights \in Nat

VARIABLES
    todo,               \* meshes the running handler still calls hlMesh for
    made,               \* calls of hlMesh so far
    material,           \* mesh.material
    dim,                \* the materials with alpha 0.1
    animations,         \* how many animations a mesh has
    mesh,               \* the global mesh; 0 before the first call
    originalMaterial,   \* the global; 0 before the first call
    timers,             \* timeouts pending: the mesh_name of each, oldest first
    overlapped,         \* a call came while a timeout was pending
    camera,             \* the mesh it looks at; 0 for none
    animating,          \* g_camera_target_anim
    frame,              \* g_camera_target_anim_idx
    target              \* g_camera_target_anim_vec_end

scene == <<material, dim, animations>>
globals == <<mesh, originalMaterial>>
view == <<camera, animating, frame, target>>
highlightVars == <<todo, made, scene, globals, timers, overlapped, view>>

HighlightInit ==
    /\ todo = <<>> /\ made = 0
    /\ material = [m \in Meshes |-> m] /\ dim = {}
    /\ animations = [m \in Meshes |-> 0]
    /\ mesh = 0 /\ originalMaterial = 0
    /\ timers = <<>> /\ overlapped = FALSE
    /\ camera = 0 /\ animating = FALSE /\ frame = 0 /\ target = 0

-----------------------------------------------------------------------------
\* Slip: an animated mesh is dimmed as well.
Still_slip(m, anims) == {material[x] : x \in {y \in Meshes : College[y] = College[m]}}

\* The materials of the meshes of m's college that are not animated.
Still(m, anims) ==
    {material[x] : x \in {y \in Meshes : College[y] = College[m] /\ anims[y] = 0}}

\* A handler is called for some meshes: the one of a key that is let in, the
\* ones that match a rule or a tag (processRawData, hlMeshByTag,
\* handleSelectedShow).
Request ==
    /\ todo = <<>>
    /\ \E n \in 1..MaxHighlights : todo' \in [1..n -> Meshes] /\ made + n <= MaxHighlights
    /\ \A i, j \in 1..Len(todo') : todo'[i] = todo'[j] => i = j
    /\ UNCHANGED <<made, scene, globals, timers, overlapped, view>>

\* The mesh is given a new material, and the old one kept in the global.
NewMaterial(m) ==
    /\ originalMaterial' = material[m]
    /\ material' = [material EXCEPT ![m] = made']

\* Slip: a movement under way is not disturbed.
MoveCamera_slip(m) ==
    /\ target' = (IF animating THEN target ELSE m) /\ animating' = TRUE
    /\ UNCHANGED <<camera, frame>>

\* moveCamera, which goes on counting where a movement under way was.
MoveCamera(m) ==
    /\ target' = m /\ animating' = TRUE
    /\ UNCHANGED <<camera, frame>>

\* hlMesh, called for the next mesh of the handler.
HlMesh ==
    /\ todo # <<>> /\ todo' = Tail(todo) /\ made' = made + 1
    /\ mesh' = Head(todo)
    /\ dim' = dim \cup Still(mesh', animations)
    /\ NewMaterial(mesh')
    /\ animations' = [animations EXCEPT ![mesh'] = @ + 1]
    /\ timers' = Append(timers, mesh')
    /\ overlapped' = (overlapped \/ timers # <<>>)
    /\ MoveCamera(mesh')

\* Slip: only the mesh of the timer gets its alpha back.
Restore_slip(name) ==
    /\ animations' = [animations EXCEPT ![mesh] = IF @ = 0 THEN 0 ELSE @ - 1]
    /\ material' = [material EXCEPT ![mesh] = originalMaterial]
    /\ dim' = dim \ {material'[name]}

\* What a timeout undoes: the last animation and the material of the global
\* mesh, whichever that is by now, and the alpha of the college it was set for.
Restore(name) ==
    /\ animations' = [animations EXCEPT ![mesh] = IF @ = 0 THEN 0 ELSE @ - 1]
    /\ material' = [material EXCEPT ![mesh] = originalMaterial]
    /\ dim' = dim \ {material'[x] : x \in {y \in Meshes :
                        College[y] = College[name] /\ animations'[y] = 0}}

\* Timeouts of equal length come in the order they were set.
TimeUp ==
    /\ todo = <<>> /\ timers # <<>>
    /\ Restore(Head(timers))
    /\ timers' = Tail(timers)
    /\ UNCHANGED <<todo, made, globals, overlapped, view>>

\* beforeRender moves the camera one frame on.
BeforeRender ==
    /\ todo = <<>> /\ animating
    /\ IF frame + 1 = MaxFrames
       THEN camera' = target /\ animating' = FALSE /\ frame' = 0
       ELSE camera' = 0 /\ frame' = frame + 1 /\ UNCHANGED animating
    /\ UNCHANGED <<todo, made, scene, globals, timers, overlapped, target>>

HighlightNext == Request \/ HlMesh \/ TimeUp \/ BeforeRender

HighlightSpec == HighlightInit /\ [][HighlightNext]_highlightVars

-----------------------------------------------------------------------------
(* Properties *)

\* The type invariant.
HighlightTypeOK ==
    /\ todo \in Seq(Meshes) /\ timers \in Seq(Meshes)
    /\ made \in Nat /\ made + Len(todo) <= MaxHighlights
    /\ material \in [Meshes -> Meshes \cup 1..made]
    /\ dim \subseteq Meshes \cup 1..made
    /\ animations \in [Meshes -> Nat]
    /\ mesh \in Meshes \cup {0} /\ (mesh = 0 => made = 0)
    /\ originalMaterial \in IF mesh = 0 THEN {0} ELSE Meshes \cup 1..made
    /\ Len(timers) <= made /\ overlapped \in BOOLEAN
    /\ camera \in Meshes \cup {0} /\ target \in Meshes \cup {0}
    /\ animating \in BOOLEAN /\ frame \in 0..(MaxFrames - 1)

\* However highlights overlap, and whichever mesh their timers restore: when
\* the last timer has run, no mesh is left transparent.
NobodyStaysDim ==
    timers = <<>> => \A m \in Meshes : material[m] \notin dim

\* A mesh that is animated is never transparent: what overlaps may fade the
\* rest of the college, not a door that is being shown.
ShownIsVisible ==
    \A m \in Meshes : animations[m] > 0 => material[m] \notin dim

\* No two meshes ever share a material, though the timers put back a material
\* that a global has kept for them.
OwnMaterial ==
    \A m, n \in Meshes : material[m] = material[n] => m = n

\* A page whose highlights never overlapped ends each as it began.
CleanWhenApart ==
    ~overlapped /\ timers = <<>> =>
        \A m \in Meshes : material[m] = m /\ animations[m] = 0

\* A camera at rest looks at the mesh highlighted last, also when movements
\* interrupted each other.
CameraOnLast ==
    ~animating => camera = mesh

\* Where the page comes to rest: the two together.
PageSettles == CleanWhenApart /\ CameraOnLast
=============================================================================
