SPECIFICATION Spec
CONSTANTS
    Cookies = {mount, update}
    Nobody = Nobody
    MAX_MODAL_RETRIES = 2
    mount = mount
    update = update
INVARIANTS AgentSound CurrentCanBeAnswered
PROPERTIES ClosedStaysClosed CancelHonoured OpensOrGivesUp ServesInOrder
CHECK_DEADLOCK FALSE
