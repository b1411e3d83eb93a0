------------------------------- MODULE Compose -------------------------------
(***************************************************************************)
(* The Ring 3 compositor and display service at work: the kernel's         *)
(* requests to the compositor, the compositor's slot table and its painter *)
(* loop over the display service, and the display service's drawing of the *)
(* shared surfaces into the framebuffer while their writers keep writing   *)
(* (user/compositor_service.c, user/display_service.c and the requests of  *)
(* kernel/compositor_service.c).                                           *)
(*                                                                         *)
(* The kernel has one request outstanding; the compositor and the display  *)
(* service each answer one request at a time.  A surface pixel is the      *)
(* number of times it was written; a screen pixel is what was stored in it *)
(* last.  Colours are not converted: equal source pixels are equal on the  *)
(* screen.  The kernel's requests are well formed, and it places surfaces  *)
(* only inside the screen, so the services' refusals of malformed requests *)
(* have no step here.  When a service is lost the kernel's session takes   *)
(* both down and starts them anew (module Display has that sequence).      *)
(***************************************************************************)
EXTENDS Integers, FiniteSets, FiniteSetsExt

CONSTANTS
  Width, Height,     \* the visible part of the screen
  Stride,            \* pixels per scan line, at least Width
  SurfaceW, SurfaceH,\* JCOS_DISPLAY_SURFACE_WIDTH, _HEIGHT
  NSlots,            \* JCOS_DISPLAY_SURFACE_CAPACITY
  Zs,                \* stacking orders requested
  Rects,             \* rectangles requested
  MaxWrites          \* writes by the clients in a behaviour

VARIABLES
  kernel,    \* the kernel's session: its request, its focused slot, the last result
  comp,      \* the compositor process
  disp,      \* the display service process
  screen,    \* the framebuffer
  surfaces   \* the shared surfaces

composeVars == <<kernel, comp, disp, screen, surfaces>>

Slots == 0..(NSlots - 1)
FOCUS_NONE == NSlots
Sources == (0..(SurfaceW - 1)) \X (0..(SurfaceH - 1))
Pixels == 0..(Stride * Height - 1)
Visible == (0..(Width - 1)) \X (0..(Height - 1))
At(x, y) == y * Stride + x
Nothing == [op |-> "none"]
Inactive == [active |-> FALSE]

(***************************************************************************)
(* The display service draws.                                              *)
(***************************************************************************)
Covers(r, x, y) == x \in r.x..(r.x + r.w - 1) /\ y \in r.y..(r.y + r.h - 1)

\* Every visible pixel is stored, the rest of each scan line is not.
Painted(old, colour) ==
  [p \in Pixels |-> IF p % Stride < Width THEN [kind |-> colour] ELSE old[p]]

draw_pattern(old) == Painted(old, "pattern")
clear_target(old) == Painted(old, "black")

rect_fits(r) ==
  /\ r.w > 0 /\ r.h > 0 /\ r.x < Width /\ r.y < Height
  /\ r.w <= Width - r.x /\ r.h <= Height - r.y

\* The source pixel of the k-th pixel of rectangle r, row by row.
SourceOf(r, k) ==
  LET sx == ((k % r.w) * SurfaceW) \div r.w
      sy == ((k \div r.w) * SurfaceH) \div r.h
  IN  << IF sx >= SurfaceW THEN SurfaceW - 1 ELSE sx,
         IF sy >= SurfaceH THEN SurfaceH - 1 ELSE sy >>

Firmware == [p \in Pixels |-> [kind |-> "firmware"]]
IdleDisplay(ready) == [alive |-> TRUE, ready |-> ready, doing |-> Nothing, k |-> 0, out |-> Nothing]
FreshCompositor ==
  [alive |-> TRUE, slots |-> [s \in Slots |-> Inactive], focus |-> FOCUS_NONE,
   pc |-> "receive", drawn |-> {}, in |-> Nothing, out |-> Nothing]
FreshKernel(masks) ==
  [up |-> TRUE, masks |-> masks, call |-> Nothing, focus |-> FOCUS_NONE, seen |-> Nothing,
   result |-> Nothing]

\* A GOP mode with channel masks needs them before anything may be drawn.
Init ==
  /\ \E masks \in BOOLEAN :
       /\ kernel = FreshKernel(masks)
       /\ disp = IdleDisplay(~masks)
       /\ screen = IF masks THEN Firmware ELSE draw_pattern(Firmware)
  /\ comp = FreshCompositor
  /\ surfaces = [s \in Slots |-> [p \in Sources |-> 0]]

\* configure_pixel_masks, the last step of display_service_start.
SetMasks ==
  /\ kernel.up /\ kernel.masks
  /\ kernel' = [kernel EXCEPT !.masks = FALSE]
  /\ disp' = [disp EXCEPT !.ready = TRUE]
  /\ UNCHANGED <<comp, screen, surfaces>>

DisplayTakes(request) == disp.alive /\ disp.doing = Nothing /\ disp' = [disp EXCEPT !.doing = request]

DisplayReplies(words) ==
  disp' = [disp EXCEPT !.doing = Nothing, !.k = 0, !.out = words]

DisplayClears ==
  /\ disp.alive /\ disp.ready /\ disp.doing.op = "clear"
  /\ screen' = clear_target(screen)
  /\ DisplayReplies([op |-> "cleared"])
  /\ UNCHANGED <<kernel, comp, surfaces>>

\* draw_surface_rect, one pixel: the surface is read while its writer runs.
DisplayDraws ==
  /\ disp.alive /\ disp.ready /\ disp.doing.op = "present" /\ rect_fits(disp.doing.rect)
  /\ LET r == disp.doing.rect
         slot == disp.doing.slot
         source == SourceOf(r, disp.k)
     IN  /\ disp.k < r.w * r.h
         /\ screen' = [screen EXCEPT ![At(r.x + (disp.k % r.w), r.y + (disp.k \div r.w))] =
                         [kind |-> "surface", slot |-> slot, source |-> source,
                          version |-> surfaces[slot][source]]]
  /\ disp' = [disp EXCEPT !.k = @ + 1]
  /\ UNCHANGED <<kernel, comp, surfaces>>

DisplayPresented ==
  /\ disp.alive /\ disp.ready /\ disp.doing.op = "present" /\ rect_fits(disp.doing.rect)
  /\ disp.k = disp.doing.rect.w * disp.doing.rect.h
  /\ DisplayReplies([op |-> "presented", slot |-> disp.doing.slot])
  /\ UNCHANGED <<kernel, comp, screen, surfaces>>

sample_center == screen[At(Width \div 2, Height \div 2)]

DisplaySamples ==
  /\ disp.alive /\ disp.ready /\ disp.doing.op = "sample"
  /\ DisplayReplies([op |-> "sampled", sample |-> sample_center])
  /\ UNCHANGED <<kernel, comp, screen, surfaces>>

(***************************************************************************)
(* The compositor: requests that only touch its tables.                    *)
(***************************************************************************)
Answers(c, words) == comp' = [c EXCEPT !.in = Nothing, !.pc = "receive", !.drawn = {}, !.out = words]
Invalid(c) == Answers(c, [op |-> "invalid"])

configure_slot(req) ==
  /\ req.rect.w > 0 /\ req.rect.h > 0
  /\ Answers([comp EXCEPT !.slots[req.slot] = [active |-> TRUE, rect |-> req.rect, z |-> req.z]],
             [op |-> "configured", slot |-> req.slot])

\* Defect: the focused slot is removed and stays focused.
RemoveKeepsFocus(req) ==
  Answers([comp EXCEPT !.slots[req.slot] = Inactive], [op |-> "removed", slot |-> req.slot])

surface_remove(req) ==
  Answers([comp EXCEPT !.slots[req.slot] = Inactive,
                       !.focus = IF @ = req.slot THEN FOCUS_NONE ELSE @],
          [op |-> "removed", slot |-> req.slot])

focus_surface(req) ==
  IF req.slot /= FOCUS_NONE /\ ~comp.slots[req.slot].active
  THEN Invalid(comp)
  ELSE Answers([comp EXCEPT !.focus = req.slot], [op |-> "focused", slot |-> req.slot])

CompositorServes ==
  /\ comp.alive /\ comp.pc = "receive" /\ comp.in /= Nothing
  /\ \/ comp.in.op = "config" /\ configure_slot(comp.in)
     \/ comp.in.op = "remove" /\ surface_remove(comp.in)
     \/ comp.in.op = "focus" /\ focus_surface(comp.in)
  /\ UNCHANGED <<kernel, disp, screen, surfaces>>

(***************************************************************************)
(* The compositor composes: clear, every active slot from the back to the  *)
(* front, sample.  pc is the reply awaited from the display service.       *)
(***************************************************************************)
ComposeStarts ==
  /\ comp.alive /\ comp.pc = "receive" /\ comp.in.op = "compose"
  /\ DisplayTakes([op |-> "clear"])
  /\ comp' = [comp EXCEPT !.pc = "cleared"]
  /\ UNCHANGED <<kernel, screen, surfaces>>

Pending(c) == {s \in Slots : c.slots[s].active} \ c.drawn

\* Defect: of the slots with the same order the last one is drawn first.
LastSlotFirst(c) ==
  CHOOSE s \in Pending(c) : \A t \in Pending(c) :
    c.slots[s].z < c.slots[t].z \/ (c.slots[s].z = c.slots[t].z /\ s >= t)

Best(c) ==
  CHOOSE s \in Pending(c) : \A t \in Pending(c) :
    c.slots[s].z < c.slots[t].z \/ (c.slots[s].z = c.slots[t].z /\ s <= t)

\* The reply is the one this request gets.
ReplyIs(words) ==
  /\ words.op = comp.pc
  /\ words.op = "presented" => words.slot = Best(comp)

ComposeGoesOn ==
  /\ comp.alive /\ comp.pc \in {"cleared", "presented"}
  /\ disp.alive /\ disp.doing = Nothing /\ disp.out /= Nothing /\ ReplyIs(disp.out)
  /\ LET c == IF comp.pc = "presented"
              THEN [comp EXCEPT !.drawn = @ \cup {Best(comp)}] ELSE comp
     IN  IF Pending(c) = {}
         THEN /\ comp' = [c EXCEPT !.pc = "sampled"]
              /\ disp' = [disp EXCEPT !.out = Nothing, !.doing = [op |-> "sample"]]
         ELSE /\ comp' = [c EXCEPT !.pc = "presented"]
              /\ disp' = [disp EXCEPT !.out = Nothing,
                            !.doing = [op |-> "present", slot |-> Best(c),
                                       rect |-> c.slots[Best(c)].rect]]
  /\ UNCHANGED <<kernel, screen, surfaces>>

ComposeEnds ==
  /\ comp.alive /\ comp.pc = "sampled" /\ disp.alive /\ disp.out.op = "sampled"
  /\ Answers(comp, [op |-> "composed", count |-> Cardinality(comp.drawn),
                    sample |-> disp.out.sample])
  /\ disp' = [disp EXCEPT !.out = Nothing]
  /\ UNCHANGED <<kernel, screen, surfaces>>

\* No reply comes because the display service is gone.
ComposeFails ==
  /\ comp.alive /\ comp.pc /= "receive" /\ ~disp.alive
  /\ Invalid(comp)
  /\ UNCHANGED <<kernel, disp, screen, surfaces>>

(***************************************************************************)
(* The kernel's requests; each waits until the compositor is idle.         *)
(***************************************************************************)
KernelMay ==
  /\ kernel.up /\ ~kernel.masks /\ kernel.call = Nothing
  /\ comp.alive /\ comp.pc = "receive" /\ comp.in = Nothing /\ comp.out = Nothing

Requests ==
  {[op |-> "config", slot |-> s, rect |-> r, z |-> z] : s \in Slots, r \in Rects, z \in Zs}
  \cup {[op |-> "remove", slot |-> s] : s \in Slots}
  \cup {[op |-> "focus", slot |-> s] : s \in Slots \cup {FOCUS_NONE}}
  \cup {[op |-> "compose"]}

\* display_service_surface_configure demands that the rectangle fits, and
\* compositor_service_focus_clear asks only when some slot is focused.
KernelAsks ==
  /\ KernelMay
  /\ \E req \in Requests :
       /\ req.op = "config" => rect_fits(req.rect)
       /\ req.op = "focus" /\ req.slot = FOCUS_NONE => kernel.focus /= FOCUS_NONE
       /\ comp' = [comp EXCEPT !.in = req]
       /\ kernel' = [kernel EXCEPT !.call = req, !.result = Nothing,
                       !.seen = IF req.op = "compose" THEN [op |-> "seen", at |-> surfaces]
                                ELSE Nothing]
  /\ UNCHANGED <<disp, screen, surfaces>>

KernelHears ==
  /\ kernel.up /\ kernel.call /= Nothing /\ comp.alive /\ comp.out /= Nothing
  /\ LET said == comp.out
         asked == kernel.call
     IN  kernel' = [kernel EXCEPT !.call = Nothing, !.result = said,
           !.focus = IF said.op = "focused" THEN asked.slot
                     ELSE IF said.op = "removed" /\ @ = asked.slot THEN FOCUS_NONE ELSE @]
  /\ comp' = [comp EXCEPT !.out = Nothing]
  /\ UNCHANGED <<disp, screen, surfaces>>

(***************************************************************************)
(* The surfaces' writers, and losing a service.                            *)
(***************************************************************************)
Written == MapThenSumSet(LAMBDA s : MapThenSumSet(LAMBDA p : surfaces[s][p], Sources), Slots)

ClientWrites ==
  /\ Written < MaxWrites
  /\ \E s \in Slots, p \in Sources : surfaces' = [surfaces EXCEPT ![s][p] = @ + 1]
  /\ UNCHANGED <<kernel, comp, disp, screen>>

CompositorDies ==
  /\ kernel.up /\ comp.alive
  /\ comp' = [FreshCompositor EXCEPT !.alive = FALSE]
  /\ UNCHANGED <<kernel, disp, screen, surfaces>>

DisplayDies ==
  /\ kernel.up /\ disp.alive
  /\ disp' = [IdleDisplay(FALSE) EXCEPT !.alive = FALSE]
  /\ UNCHANGED <<kernel, comp, screen, surfaces>>

\* The call runs out of time, or the session finds the service failed: both
\* services are stopped, their endpoints and requests go with them, and the kernel
\* console redraws its screen.
Teardown ==
  /\ kernel.up /\ (~comp.alive \/ ~disp.alive)
  /\ kernel' = [kernel EXCEPT !.up = FALSE, !.call = Nothing, !.focus = FOCUS_NONE,
                  !.seen = Nothing, !.result = Nothing]
  /\ comp' = [FreshCompositor EXCEPT !.alive = FALSE]
  /\ disp' = [IdleDisplay(FALSE) EXCEPT !.alive = FALSE]
  /\ screen' = Painted(screen, "console")
  /\ UNCHANGED surfaces

Restart ==
  /\ ~kernel.up
  /\ \E masks \in BOOLEAN :
       /\ kernel' = FreshKernel(masks)
       /\ disp' = IdleDisplay(~masks)
       /\ screen' = IF masks THEN screen ELSE draw_pattern(screen)
  /\ comp' = FreshCompositor
  /\ UNCHANGED surfaces

Next ==
  \/ SetMasks \/ KernelAsks \/ KernelHears
  \/ CompositorServes \/ ComposeStarts \/ ComposeGoesOn \/ ComposeEnds \/ ComposeFails
  \/ DisplayClears \/ DisplayDraws \/ DisplayPresented \/ DisplaySamples
  \/ ClientWrites \/ CompositorDies \/ DisplayDies \/ Teardown \/ Restart

ComposeSpec == Init /\ [][Next]_composeVars

(***************************************************************************)
(* Properties                                                              *)
(***************************************************************************)
\* The active slots that cover a pixel, and the one in front: the highest order
\* and among equals the highest slot.
Over(x, y) == {s \in Slots : comp.slots[s].active /\ Covers(comp.slots[s].rect, x, y)}
Front(x, y) ==
  CHOOSE s \in Over(x, y) : \A t \in Over(x, y) :
    \/ comp.slots[s].z > comp.slots[t].z
    \/ comp.slots[s].z = comp.slots[t].z /\ s >= t

\* When the kernel has been told that a composition is complete, every visible
\* pixel shows the front surface there, scaled to its rectangle, in a state no
\* older than the request; uncovered pixels are black, pixels beyond the visible
\* width are as firmware left them, and count and sample describe this picture
\* (user/compositor_service.c compose, user/display_service.c draw_surface_rect).
ComposedShowsStack ==
  comp.alive /\ kernel.result.op = "composed" =>
    /\ \A v \in Visible :
         LET p == screen[At(v[1], v[2])]
         IN  IF Over(v[1], v[2]) = {} THEN p.kind = "black"
             ELSE LET s == Front(v[1], v[2])
                      r == comp.slots[s].rect
                      from == << ((v[1] - r.x) * SurfaceW) \div r.w,
                                 ((v[2] - r.y) * SurfaceH) \div r.h >>
                  IN  /\ p.kind = "surface" /\ p.slot = s /\ p.source = from
                      /\ kernel.seen.at[s][from] <= p.version
    /\ \A p \in Pixels : p % Stride >= Width => screen[p].kind = "firmware"
    /\ kernel.result.count = Cardinality({s \in Slots : comp.slots[s].active})
    /\ kernel.result.sample = sample_center

\* Between requests the kernel routes keys to the slot the compositor has focused,
\* and that slot is configured (kernel/compositor_service.c g_focused_slot and
\* user/compositor_service.c focused_slot).
FocusAgrees ==
  KernelMay => /\ kernel.focus = comp.focus
               /\ comp.focus /= FOCUS_NONE => comp.slots[comp.focus].active
=============================================================================
