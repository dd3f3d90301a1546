\* Two calls, of clients of an endpoint whose server does RDMA and of one whose
\* server does not, with a staged device buffer, and a host buffer that concurrent
\* PUTs may share.  One staging copy may time out.
SPECIFICATION Spec
CONSTANTS
    Calls = {c1, c2}
    Ops = {"put", "get"}
    Endpoints = {e1, e2}
    Plain = {e2}
    Buffers = {gpu, host}
    Device = {gpu}
    Staged = {gpu}
    Shared = {host}
    MaxTimeouts = 1
    None = None
SYMMETRY Symmetry
INVARIANTS
    
    NoLateAccess
    RegistrationsAreReleased
